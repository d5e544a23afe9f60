-------------------------- MODULE ShimBridgeProofs --------------------------
(***************************************************************************)
(* Proofs about ShimBridge, for any requests, answers, peers and relays.   *)
(*                                                                         *)
(* Argument.  A chunk: whoever may write the shared words is told by STATE *)
(* alone, so between the bridge's first store and the shim's copy nobody   *)
(* else touches them (Handover); that needs no deadline to hold.  A relay: *)
(* page, inbox and peerRelays are three stretches of one path, so the      *)
(* registration in force when a request is asked for is the one in force   *)
(* when the bridge reads it (OnePath); nor does that.  An answer: until a  *)
(* live bridge first misses the deadline, the two sides take turns: at     *)
(* most one request is under way, the shim's (Turns), and what the shim    *)
(* has, what STATE publishes and what the bridge has still to write are,   *)
(* in this order, the answer it settled on (Delivery).  With the page's    *)
(* queue holding all that has not been answered (AllOnPage) the shim's     *)
(* request is the first that has not returned, and each step is one of     *)
(* BlockingCall's or is not seen there.                                    *)
(***************************************************************************)
EXTENDS ShimBridge, SequenceTheorems, TLAPS

Frames == PeerFrames \cup RequestFrames

\* Where roundTrip and writeChunk stand, each with what it works on.
Placed ==
  /\ bpc # "loop" <=> out # <<>>
  /\ \A i \in 1 .. Len(out) : out[i] # NoChunk
  /\ spc # "loop" => page # <<>> /\ Head(page).frame = "request" /\ cur = Head(page).n

\* STATE says whose the shared words are, and what it publishes is whole.
Handover ==
  /\ bpc \in {"fill", "flag", "publish"} => state = "IDLE"
  /\ bpc \in {"flag", "publish"} => data = Head(out)
  /\ bpc = "publish" => flags = Head(out).flags
  /\ state # "IDLE" => state = data.state /\ flags = data.flags
  /\ spc \in {"copy", "release"} => state # "IDLE" /\ seen = [state |-> state, flags |-> flags]
  /\ spc = "release" => payload = data

-----------------------------------------------------------------------------
(* Answers and sequences.                                                  *)

LEMMA NoChunkIsChunk == NoChunk \in Chunks /\ NoChunk.req = 0
BY DEF Chunks, NoChunk, Chunk

LEMMA ChunkFacts ==
  ASSUME NEW c \in Chunks
  PROVE  /\ c.flags \in SUBSET {"META", "MORE"}
         /\ c.state \in {"IDLE", "CHUNK", "ERROR"}
         /\ c # NoChunk => c.state \in {"CHUNK", "ERROR"}
<1>1. CASE c = NoChunk
  BY <1>1 DEF NoChunk, Chunk
<1>2. CASE \E n \in Requests, i \in 0 .. MaxPieces, f \in SUBSET {"META", "MORE"}, s \in {"CHUNK", "ERROR"} : c = Chunk(n, i, f, s)
  BY <1>2 DEF Chunk
<1> QED BY <1>1, <1>2 DEF Chunks

PartsOf(n, size) ==
  {Chunk(n, 0, {"META"}, "CHUNK")} \cup {Chunk(n, i, f, "CHUNK") : i \in 1 .. size, f \in {{}, {"MORE"}}}

\* A piece ends before the body does exactly if it is not the last.
LEMMA CutIs ==
  ASSUME NEW length \in Nat, NEW size \in Nat \ {0}, Cut(length, size), NEW i \in 1 .. size
  PROVE  i * Capacity < length <=> i < size
<1> USE BoundsAssumption
<1>1. CASE length = 0
  <2>1. size = 1 /\ i = 1
    BY <1>1 DEF Cut
  <2>2. i * Capacity = Capacity
    BY <2>1
  <2> QED BY <1>1, <2>1, <2>2
<1>2. CASE length # 0
  <2>1. (size - 1) * Capacity < length /\ length <= size * Capacity
    BY <1>2 DEF Cut
  <2>2. CASE i = size
    BY <2>1, <2>2
  <2>3. CASE i < size
    <3>1. PICK d \in Nat : size - 1 = i + d
      <4>1. size - 1 - i \in Nat /\ size - 1 = i + (size - 1 - i)
        BY <2>3
      <4> QED BY <4>1
    <3>2. (i + d) * Capacity = i * Capacity + d * Capacity /\ d * Capacity \in Nat /\ i * Capacity \in Nat
      OBVIOUS
    <3>3. i * Capacity <= (size - 1) * Capacity
      BY <3>1, <3>2
    <3> QED BY <2>1, <2>3, <3>2, <3>3
  <2> QED BY <2>2, <2>3
<1> QED BY <1>1, <1>2

LEMMA OkAnswerIs ==
  ASSUME NEW n, NEW length \in Nat, NEW size \in Nat \ {0}, Cut(length, size)
  PROVE  /\ OkAnswer(n, length, size) \in Seq(PartsOf(n, size))
         /\ Len(OkAnswer(n, length, size)) = size + 1
         /\ OkAnswer(n, length, size)[1] = Chunk(n, 0, {"META"}, "CHUNK")
         /\ \A i \in 1 .. size :
              OkAnswer(n, length, size)[i + 1] = Chunk(n, i, IF i < size THEN {"MORE"} ELSE {}, "CHUNK")
<1> DEFINE c == Chunk(n, 0, {"META"}, "CHUNK")
           C == PartsOf(n, size)
           d(i) == Chunk(n, i, IF i * Capacity < length THEN {"MORE"} ELSE {}, "CHUNK")
           tail == [i \in 1 .. size |-> d(i)]
<1>1. \A i \in 1 .. size : d(i) \in C
  BY DEF PartsOf
<1> HIDE DEF d, C, c
<1>2. tail \in Seq(C) /\ Len(tail) = size
  BY <1>1, SMT
<1>3. <<c>> \in Seq(C) /\ Len(<<c>>) = 1 /\ <<c>>[1] = c
  BY DEF C, c, PartsOf
<1>4. OkAnswer(n, length, size) = <<c>> \o tail
  BY DEF OkAnswer, c, d
<1>5. /\ <<c>> \o tail \in Seq(C) /\ Len(<<c>> \o tail) = size + 1
      /\ \A i \in 1 .. size + 1 : (<<c>> \o tail)[i] = IF i <= 1 THEN <<c>>[i] ELSE tail[i - 1]
  <2> HIDE DEF tail
  <2> QED BY <1>2, <1>3, ConcatProperties
<1>6. \A i \in 1 .. size : (<<c>> \o tail)[i + 1] = d(i)
  BY <1>5
<1>7. (<<c>> \o tail)[1] = c
  BY <1>3, <1>5
<1>8. \A i \in 1 .. size : d(i) = Chunk(n, i, IF i < size THEN {"MORE"} ELSE {}, "CHUNK")
  BY CutIs DEF d
<1> QED BY <1>4, <1>5, <1>6, <1>7, <1>8 DEF C, c

\* What roundTrip finds in an answer: an error alone, or META and then the body.
LEMMA AnswerIs ==
  ASSUME NEW n \in Requests, NEW a \in Answers(n)
  PROVE  /\ a \in Seq(Chunks) /\ a # <<>> /\ Len(a) \in Nat \ {0}
         /\ \A i \in 1 .. Len(a) :
              /\ a[i] \in Chunks /\ a[i] # NoChunk
              /\ a[i].state = "ERROR" => Len(a) = 1
              /\ a[i].state # "ERROR" => ("META" \in a[i].flags <=> i = 1)
              /\ a[i].state # "ERROR" /\ a[i].flags = {} => i = Len(a) /\ i # 1
              /\ a[i].state # "ERROR" /\ a[i].flags # {} => i < Len(a)
<1> USE BoundsAssumption DEF Requests
<1>0. MaxPieces \in Nat \ {0}
  BY DEF MaxPieces
<1> USE <1>0
<1>1. ASSUME NEW i \in 0 .. MaxPieces, NEW f \in SUBSET {"META", "MORE"}, NEW s \in {"CHUNK", "ERROR"}
      PROVE  Chunk(n, i, f, s) \in Chunks /\ Chunk(n, i, f, s) # NoChunk
  <2>1. Chunk(n, i, f, s) \in Chunks
    BY DEF Chunks
  <2>2. n # 0
    OBVIOUS
  <2> QED BY <2>1, <2>2 DEF Chunk, NoChunk
<1>2. CASE a = ErrorAnswer(n)
  <2> DEFINE c == Chunk(n, 0, {}, "ERROR")
  <2>1. c \in Chunks /\ c # NoChunk /\ c.state = "ERROR"
    <3>1. c \in Chunks /\ c # NoChunk
      BY <1>1
    <3>2. c.state = "ERROR"
      BY DEF Chunk
    <3> QED BY <3>1, <3>2
  <2>2. a = <<c>>
    BY <1>2 DEF ErrorAnswer
  <2> HIDE DEF c
  <2> QED BY <2>1, <2>2
<1>3. CASE \E length \in 0 .. MaxBody, size \in 1 .. MaxPieces : Cut(length, size) /\ a = OkAnswer(n, length, size)
  <2>1. PICK length \in 0 .. MaxBody, size \in 1 .. MaxPieces :
          length \in Nat /\ size \in Nat \ {0} /\ Cut(length, size) /\ a = OkAnswer(n, length, size)
    BY <1>3
  <2>2. PartsOf(n, size) \subseteq Chunks
    BY <1>1 DEF PartsOf
  <2>3. /\ a \in Seq(PartsOf(n, size)) /\ Len(a) = size + 1 /\ a[1] = Chunk(n, 0, {"META"}, "CHUNK")
        /\ \A i \in 1 .. size : a[i + 1] = Chunk(n, i, IF i < size THEN {"MORE"} ELSE {}, "CHUNK")
    BY <2>1, OkAnswerIs
  <2>4. a \in Seq(Chunks) /\ a # <<>>
    BY <2>2, <2>3
  <2>5. ASSUME NEW i \in 1 .. Len(a) PROVE i = 1 \/ (i - 1 \in 1 .. size /\ a[i] = Chunk(n, i - 1, IF i - 1 < size THEN {"MORE"} ELSE {}, "CHUNK"))
    <3>1. CASE i # 1
      <4>1. i - 1 \in 1 .. size /\ (i - 1) + 1 = i
        BY <2>3, <3>1
      <4> QED BY <2>3, <4>1
    <3> QED BY <3>1
  <2>6. ASSUME NEW i \in 1 .. Len(a)
        PROVE  /\ a[i] \in Chunks /\ a[i] # NoChunk /\ a[i].state = "CHUNK"
               /\ "META" \in a[i].flags <=> i = 1
               /\ a[i].flags = {} => i = Len(a) /\ i # 1
               /\ a[i].flags # {} => i < Len(a)
    <3>1. CASE i = 1
      <4>1. a[i] = Chunk(n, 0, {"META"}, "CHUNK") /\ Len(a) # 1 /\ i < Len(a)
        BY <2>1, <2>3, <3>1
      <4>2. a[i] \in Chunks /\ a[i] # NoChunk
        BY <1>1, <4>1
      <4>3. a[i].state = "CHUNK" /\ a[i].flags = {"META"}
        BY <4>1 DEF Chunk
      <4> QED BY <3>1, <4>1, <4>2, <4>3
    <3>2. CASE i # 1
      <4>1. i - 1 \in 1 .. size /\ a[i] = Chunk(n, i - 1, IF i - 1 < size THEN {"MORE"} ELSE {}, "CHUNK")
        BY <2>5, <3>2
      <4>2. a[i].state = "CHUNK" /\ a[i].flags = IF i - 1 < size THEN {"MORE"} ELSE {}
        BY <4>1 DEF Chunk
      <4>3. a[i] \in Chunks /\ a[i] # NoChunk
        BY <1>1, <4>1
      <4> QED BY <2>3, <3>2, <4>2, <4>3
    <3> QED BY <3>1, <3>2
  <2> QED BY <2>3, <2>4, <2>6
<1>4. a = ErrorAnswer(n) \/ \E length \in 0 .. MaxBody, size \in 1 .. MaxPieces :
                              Cut(length, size) /\ a = OkAnswer(n, length, size)
  BY DEF Answers
<1> QED BY <1>2, <1>3, <1>4

LEMMA HeadTail ==
  ASSUME NEW S, NEW s \in Seq(S), s # <<>>
  PROVE  /\ Len(s) \in Nat \ {0} /\ Head(s) = s[1] /\ Head(s) \in S
         /\ Tail(s) \in Seq(S) /\ Len(Tail(s)) = Len(s) - 1
         /\ \A i \in 1 .. Len(s) - 1 : Tail(s)[i] = s[i + 1]
BY HeadTailProperties, LenProperties, ElementOfSeq

LEMMA Appended ==
  ASSUME NEW S, NEW s \in Seq(S), NEW e \in S
  PROVE  /\ Append(s, e) \in Seq(S) /\ Append(s, e) # <<>> /\ Len(s) \in Nat
         /\ Len(Append(s, e)) = Len(s) + 1 /\ Append(s, e)[Len(s) + 1] = e
         /\ \A i \in 1 .. Len(s) : Append(s, e)[i] = s[i]
BY AppendProperties, LenProperties

LEMMA FrameFacts ==
  ASSUME NEW m \in Frames
  PROVE  /\ m.frame \in {"peer", "request"} /\ m.peer \in Peers
         /\ m.frame = "request" => m.n \in Requests
         /\ m.frame = "peer" => m.relay \in Relays \cup {NoRelay}
BY DEF Frames, PeerFrames, RequestFrames

-----------------------------------------------------------------------------
(* Types, places and the handover of chunks.                               *)

Base == TypeOK /\ Placed /\ Handover

LEMMA InitBase == Init => Base
<1> SUFFICES ASSUME Init PROVE Base
  OBVIOUS
<1>1. TypeOK
  <2>1. errored \in BOOLEAN /\ late \in BOOLEAN /\ alive \in BOOLEAN
    BY DEF Init
  <2>2. /\ page \in Seq(PeerFrames \cup RequestFrames) /\ inbox \in Seq(PeerFrames \cup RequestFrames)
        /\ body \in Seq(Chunks) /\ out \in Seq(Chunks) /\ sent \in [Requests -> Seq(Chunks)]
    BY DEF Init
  <2>3. answer \in [Requests -> [kind : {"none", "timeout", "no bridge"}]
                        \cup [kind : {"error"}, text : Chunks]
                        \cup [kind : {"ok"}, meta : Chunks, body : Seq(Chunks)]]
    BY DEF Init, None
  <2>4. told \in [Peers -> Relays \cup {NoRelay}] /\ peerRelays \in [Peers -> Relays \cup {NoRelay}]
    BY DEF Init
  <2>5. /\ wanted \in [Requests -> Relays \cup {NoRelay, DefaultRelay}]
        /\ dialled \in [Requests -> Relays \cup {NoRelay, DefaultRelay}]
    BY DEF Init
  <2>6. asked \in 0 .. MaxRequests /\ frames \in 0 .. MaxPeerFrames /\ cur \in 0 .. MaxRequests
    BY BoundsAssumption DEF Init
  <2> QED
    BY <2>1, <2>2, <2>3, <2>4, <2>5, <2>6, NoChunkIsChunk DEF Init, TypeOK
<1>2. Placed /\ Handover
  BY DEF Init, Placed, Handover
<1> QED BY <1>1, <1>2 DEF Base

LEMMA CountersTyped ==
  TypeOK => /\ asked \in 0 .. MaxRequests /\ frames \in 0 .. MaxPeerFrames
            /\ told \in [Peers -> Relays \cup {NoRelay}] /\ wanted \in [Requests -> Relays \cup {NoRelay, DefaultRelay}]
BY DEF TypeOK

LEMMA PageBase ==
  ASSUME Base, \E p \in Peers : PageAsks(p) \/ \E relay \in Relays \cup {NoRelay} : PageRegisters(p, relay)
  PROVE  Base'
<1> USE BoundsAssumption DEF Base
<1>1. PICK m \in Frames : page' = Append(page, m)
  <2>1. ASSUME NEW p \in Peers, PageAsks(p) PROVE [frame |-> "request", n |-> asked + 1, peer |-> p] \in Frames
    <3>1. asked \in 0 .. MaxRequests /\ asked < MaxRequests
      BY <2>1, CountersTyped DEF PageAsks
    <3>2. asked + 1 \in Requests
      BY <3>1 DEF Requests
    <3> QED BY <3>2 DEF Frames, RequestFrames
  <2>2. ASSUME NEW p \in Peers, NEW relay \in Relays \cup {NoRelay} PROVE [frame |-> "peer", peer |-> p, relay |-> relay] \in Frames
    BY DEF Frames, PeerFrames
  <2> QED BY <2>1, <2>2 DEF PageAsks, PageRegisters
<1>2. page \in Seq(Frames) /\ page' \in Seq(Frames) /\ (page # <<>> => Head(page') = Head(page)) /\ page' # <<>>
  <2>1. page \in Seq(Frames)
    BY DEF TypeOK, Frames
  <2>2. page' \in Seq(Frames) /\ page' # <<>> /\ (page # <<>> => page'[1] = page[1])
    <3>1. page # <<>> => 1 \in 1 .. Len(page)
      BY <2>1, HeadTail
    <3> QED BY <1>1, <2>1, <3>1, Appended
  <2> QED BY <2>1, <2>2, HeadTail
<1>3. /\ UNCHANGED <<shimVars, memory, bridgeVars, fate>>
  BY DEF PageAsks, PageRegisters
<1>4. /\ asked' \in 0 .. MaxRequests /\ frames' \in 0 .. MaxPeerFrames
      /\ told' \in [Peers -> Relays \cup {NoRelay}] /\ wanted' \in [Requests -> Relays \cup {NoRelay, DefaultRelay}]
  <2>1. ASSUME NEW p \in Peers, PageAsks(p)
        PROVE  asked' \in 0 .. MaxRequests /\ wanted' \in [Requests -> Relays \cup {NoRelay, DefaultRelay}] /\ UNCHANGED <<frames, told>>
    <3>1. RelayFor(told, p) \in Relays \cup {NoRelay, DefaultRelay}
      BY DEF TypeOK, RelayFor
    <3>2. asked \in 0 .. MaxRequests /\ asked < MaxRequests /\ wanted \in [Requests -> Relays \cup {NoRelay, DefaultRelay}]
      BY <2>1, CountersTyped DEF PageAsks
    <3>3. asked + 1 \in 0 .. MaxRequests
      BY <3>2
    <3> QED BY <2>1, <3>1, <3>2, <3>3 DEF PageAsks
  <2>2. ASSUME NEW p \in Peers, NEW relay \in Relays \cup {NoRelay}, PageRegisters(p, relay)
        PROVE  frames' \in 0 .. MaxPeerFrames /\ told' \in [Peers -> Relays \cup {NoRelay}] /\ UNCHANGED <<asked, wanted>>
    <3>1. frames \in 0 .. MaxPeerFrames /\ frames < MaxPeerFrames /\ told \in [Peers -> Relays \cup {NoRelay}]
      BY <2>2, CountersTyped DEF PageRegisters
    <3>2. frames + 1 \in 0 .. MaxPeerFrames
      BY <3>1
    <3> QED BY <2>2, <3>1, <3>2 DEF PageRegisters
  <2> QED BY <2>1, <2>2 DEF TypeOK
<1>5. TypeOK'
  <2>1. errored' \in BOOLEAN /\ late' \in BOOLEAN
    BY <1>3 DEF TypeOK, fate
  <2> QED BY <1>2, <1>3, <1>4, <2>1, ZenonT(30) DEF TypeOK, shimVars, memory, bridgeVars, Frames
<1>6. Placed' /\ Handover'
  BY <1>2, <1>3 DEF Placed, Handover, shimVars, memory, bridgeVars
<1> QED BY <1>5, <1>6

\* XHR.send has its outcome.
Outcomes == [kind : {"none", "timeout", "no bridge"}] \cup [kind : {"error"}, text : Chunks]
              \cup [kind : {"ok"}, meta : Chunks, body : Seq(Chunks)]

LEMMA FinishBase ==
  ASSUME Base, spc # "loop", NEW o \in Outcomes, Finish(o), ready' = ready, flags' = flags, data' = data, seen' = seen,
         payload' = payload, UNCHANGED bridgeVars, UNCHANGED <<asked, frames, told, wanted>>,
         errored' \in BOOLEAN, late' \in BOOLEAN,
         state' = state \/ (state' = "IDLE" /\ spc = "release")
  PROVE  Base'
<1> USE NoChunkIsChunk DEF Base, Finish
<1>1. page \in Seq(Frames) /\ page # <<>> /\ cur \in Requests
  <2>1. page \in Seq(Frames) /\ page # <<>> /\ Head(page).frame = "request" /\ cur = Head(page).n
    BY DEF TypeOK, Placed, Frames
  <2> QED BY <2>1, FrameFacts, HeadTail
<1>2. page' \in Seq(Frames)
  BY <1>1, HeadTail
<1>3. answer' \in [Requests -> Outcomes]
  BY <1>1 DEF TypeOK, Outcomes
<1>4. /\ spc' = "loop" /\ cur' = 0 /\ meta' = NoChunk /\ body' = <<>> /\ state' \in {"IDLE", "CHUNK", "ERROR"}
      /\ cur' \in 0 .. MaxRequests /\ meta' \in Chunks /\ body' \in Seq(Chunks)
  <2>1. state' \in {"IDLE", "CHUNK", "ERROR"}
    BY DEF TypeOK
  <2>2. 0 \in 0 .. MaxRequests
    BY BoundsAssumption
  <2> QED BY <2>1, <2>2
<1>5. TypeOK'
  BY <1>2, <1>3, <1>4 DEF TypeOK, bridgeVars, Outcomes, Frames, fate
<1>6. Placed'
  BY <1>4 DEF Placed, bridgeVars
<1>7. Handover'
  BY <1>4 DEF Handover, bridgeVars
<1> QED BY <1>5, <1>6, <1>7

LEMMA ShimBase == ASSUME Base, ShimStep PROVE Base'
<1> USE NoChunkIsChunk DEF Base
<1>1. page \in Seq(Frames) /\ inbox \in Seq(Frames)
  BY DEF TypeOK, Frames
<1>2. CASE ShimForwards
  <2>1. page' \in Seq(Frames) /\ inbox' \in Seq(Frames)
    BY <1>1, <1>2, HeadTail, Appended DEF ShimForwards
  <2>2. TypeOK'
    BY <1>2, <2>1 DEF ShimForwards, TypeOK, Frames, shimVars, memory, fate
  <2> QED BY <1>2, <2>2 DEF ShimForwards, Placed, Handover, shimVars, memory
<1>3. CASE ShimSends
  <2>1. cur' \in Requests
    BY <1>1, <1>3, HeadTail, FrameFacts DEF ShimSends
  <2>2. TypeOK'
    <3>1. cur' \in 0 .. MaxRequests
      BY <2>1, BoundsAssumption DEF Requests
    <3> QED BY <1>3, <3>1 DEF ShimSends, TypeOK, pageVars, memory, bridgeVars, fate
  <2> QED BY <1>3, <2>2 DEF ShimSends, Placed, Handover, pageVars, memory, bridgeVars
<1>4. CASE ShimFindsNoBridge
  <2>1. errored' \in BOOLEAN /\ late' \in BOOLEAN
    BY <1>4 DEF ShimFindsNoBridge, TypeOK, fate
  <2> QED BY <1>4, <2>1, FinishBase DEF ShimFindsNoBridge, Outcomes, memory
<1>5. CASE ShimPosts
  <2>1. inbox' \in Seq(Frames)
    BY <1>1, <1>5, HeadTail, Appended DEF ShimPosts, Placed
  <2>2. TypeOK'
    BY <1>5, <2>1 DEF ShimPosts, TypeOK, Frames, pageVars, fate
  <2> QED BY <1>5, <2>2 DEF ShimPosts, Placed, Handover, pageVars
<1>6. CASE ShimObserves
  <2>1. TypeOK'
    BY <1>6 DEF ShimObserves, TypeOK, pageVars, memory, bridgeVars, fate
  <2> QED BY <1>6, <2>1 DEF ShimObserves, Placed, Handover, pageVars, memory, bridgeVars
<1>7. CASE ShimCopies
  <2>1. TypeOK'
    BY <1>7 DEF ShimCopies, TypeOK, pageVars, memory, bridgeVars, fate
  <2> QED BY <1>7, <2>1 DEF ShimCopies, Placed, Handover, pageVars, memory, bridgeVars
<1>8. CASE ShimReleases
  <2>1. /\ spc = "release" /\ state' = "IDLE" /\ UNCHANGED <<asked, frames, told, wanted>> /\ UNCHANGED bridgeVars
        /\ seen' = seen /\ payload' = payload /\ ready' = ready /\ flags' = flags /\ data' = data
        /\ errored' = errored /\ late' = late /\ errored' \in BOOLEAN /\ late' \in BOOLEAN
    BY <1>8 DEF ShimReleases, Released, fate, TypeOK
  <2>2. Append(body, payload) \in Seq(Chunks)
    BY Appended DEF TypeOK
  <2>3. CASE \E o \in Outcomes : Finish(o)
    BY <2>1, <2>3, FinishBase
  <2>4. CASE /\ spc' = "wait" /\ UNCHANGED <<cur, answer, page>>
             /\ meta' \in {meta, payload} /\ body' \in {body, Append(body, payload)}
    <3>1. TypeOK'
      BY <2>1, <2>2, <2>4 DEF TypeOK, bridgeVars
    <3>2. Placed' /\ Handover'
      BY <2>1, <2>4 DEF Placed, Handover, bridgeVars
    <3> QED BY <3>1, <3>2
  <2>5. \/ \E o \in Outcomes : Finish(o)
        \/ /\ spc' = "wait" /\ UNCHANGED <<cur, answer, page>>
           /\ meta' \in {meta, payload} /\ body' \in {body, Append(body, payload)}
    <3>1. [kind |-> "error", text |-> payload] \in Outcomes /\ [kind |-> "error", text |-> NoChunk] \in Outcomes
      BY DEF TypeOK, Outcomes
    <3>2. [kind |-> "ok", meta |-> meta, body |-> Append(body, payload)] \in Outcomes
      BY <2>2 DEF TypeOK, Outcomes
    <3> QED BY <1>8, <3>1, <3>2 DEF ShimReleases
  <2> QED BY <2>3, <2>4, <2>5
<1>9. CASE ShimGivesUp
  <2>1. errored' \in BOOLEAN /\ late' \in BOOLEAN
    BY <1>9 DEF ShimGivesUp, TypeOK, AtWork
  <2> QED BY <1>9, <2>1, FinishBase DEF ShimGivesUp, Outcomes, memory
<1> QED BY <1>2, <1>3, <1>4, <1>5, <1>6, <1>7, <1>8, <1>9 DEF ShimStep

LEMMA BridgeBase == ASSUME Base, BridgeStep \/ BridgeStarts \/ BridgeDies \/ ShimHearsError PROVE Base'
<1> USE NoChunkIsChunk DEF Base
<1>1. inbox \in Seq(Frames) /\ (out # <<>> => Head(out) \in Chunks /\ Head(out) # NoChunk /\ Tail(out) \in Seq(Chunks))
  <2>1. out \in Seq(Chunks) /\ inbox \in Seq(Frames)
    BY DEF TypeOK, Frames
  <2>2. ASSUME out # <<>> PROVE Head(out) \in Chunks /\ Head(out) = out[1] /\ 1 \in 1 .. Len(out) /\ Tail(out) \in Seq(Chunks)
    BY <2>1, <2>2, HeadTail
  <2> QED BY <2>1, <2>2 DEF Placed
<1>2. CASE BridgeReceives
  <2>1. Head(inbox) \in Frames /\ inbox' \in Seq(Frames)
    BY <1>1, <1>2, HeadTail DEF BridgeReceives
  <2>2. pending' \in SUBSET Requests /\ dialled' \in [Requests -> Relays \cup {NoRelay, DefaultRelay}]
        /\ peerRelays' \in [Peers -> Relays \cup {NoRelay}]
    BY <1>2, <2>1, FrameFacts, ZenonT(30) DEF BridgeReceives, TypeOK, Registered, RelayFor
  <2>3. TypeOK'
    BY <1>2, <2>1, <2>2 DEF BridgeReceives, TypeOK, Frames, pageVars, shimVars, memory, fate
  <2> QED BY <1>2, <2>3 DEF BridgeReceives, Placed, Handover, pageVars, shimVars, memory
<1>3. ASSUME NEW n \in Requests, BridgeSettles(n) PROVE Base'
  <2>1. PICK a \in Answers(n) : sent' = [sent EXCEPT ![n] = a] /\ out' = a
    BY <1>3 DEF BridgeSettles
  <2>2. a \in Seq(Chunks) /\ a # <<>> /\ \A i \in 1 .. Len(a) : a[i] # NoChunk
    BY AnswerIs
  <2>3. TypeOK'
    BY <1>3, <2>1, <2>2 DEF BridgeSettles, TypeOK, pageVars, shimVars, memory, fate
  <2> QED BY <1>3, <2>1, <2>2, <2>3 DEF BridgeSettles, Placed, Handover, pageVars, shimVars, memory
<1>4. CASE BridgeSeesIdle
  <2>1. TypeOK'
    BY <1>4 DEF BridgeSeesIdle, TypeOK, pageVars, shimVars, memory, fate
  <2> QED BY <1>4, <2>1 DEF BridgeSeesIdle, Placed, Handover, pageVars, shimVars, memory
<1>5. CASE BridgeFills
  <2>1. TypeOK'
    BY <1>1, <1>5 DEF BridgeFills, TypeOK, Placed, pageVars, shimVars, fate
  <2> QED BY <1>5, <2>1 DEF BridgeFills, Placed, Handover, pageVars, shimVars
<1>6. CASE BridgeFlags
  <2>1. flags' \in SUBSET {"META", "MORE"}
    BY <1>1, <1>6, ChunkFacts DEF BridgeFlags, Placed
  <2>2. TypeOK'
    BY <1>6, <2>1 DEF BridgeFlags, TypeOK, pageVars, shimVars, fate
  <2> QED BY <1>6, <2>2 DEF BridgeFlags, Placed, Handover, pageVars, shimVars
<1>7. CASE BridgePublishes
  <2>1. out # <<>> /\ state' = Head(out).state /\ state' \in {"CHUNK", "ERROR"} /\ state = "IDLE"
        /\ data = Head(out) /\ flags = Head(out).flags
    BY <1>1, <1>7, ChunkFacts DEF BridgePublishes, Placed, Handover
  <2>2. TypeOK'
    BY <1>1, <1>7, <2>1 DEF BridgePublishes, TypeOK, pageVars, shimVars, fate
  <2>3. Placed'
    <3>1. out \in Seq(Chunks)
      BY DEF TypeOK
    <3>2. \A i \in 1 .. Len(Tail(out)) : Tail(out)[i] # NoChunk
      BY <2>1, <3>1, HeadTail DEF Placed
    <3> QED BY <1>7, <3>2 DEF BridgePublishes, Placed, pageVars, shimVars
  <2>4. Handover'
    BY <1>7, <2>1 DEF BridgePublishes, Handover, pageVars, shimVars
  <2> QED BY <2>2, <2>3, <2>4
<1>8. CASE BridgeStarts
  <2>1. TypeOK'
    <3>1. ready' \in {"NOT_READY", "READY_OK", "READY_FAILED"} /\ errored' \in BOOLEAN /\ late' \in BOOLEAN
      BY <1>8 DEF BridgeStarts, TypeOK, fate
    <3> QED BY <1>8, <3>1 DEF BridgeStarts, TypeOK, pageVars, shimVars, bridgeVars
  <2> QED BY <1>8, <2>1 DEF BridgeStarts, Placed, Handover, pageVars, shimVars, bridgeVars
<1>9. CASE BridgeDies
  <2>1. TypeOK'
    BY <1>9, ZenonT(30) DEF BridgeDies, TypeOK, pageVars, shimVars, memory, fate
  <2> QED BY <1>9, <2>1 DEF BridgeDies, Placed, Handover, pageVars, shimVars, memory
<1>10. CASE ShimHearsError
  <2>1. TypeOK'
    BY <1>10 DEF ShimHearsError, TypeOK, pageVars, shimVars, bridgeVars
  <2> QED BY <1>10, <2>1 DEF ShimHearsError, Placed, Handover, pageVars, shimVars, bridgeVars
<1> QED BY <1>2, <1>3, <1>4, <1>5, <1>6, <1>7, <1>8, <1>9, <1>10 DEF BridgeStep, BridgeWrites

LEMMA NextBase == Base /\ [Next]_vars => Base'
<1> SUFFICES ASSUME Base, [Next]_vars PROVE Base'
  OBVIOUS
<1>1. CASE UNCHANGED vars
  <2>1. UNCHANGED pageVars /\ UNCHANGED shimVars /\ UNCHANGED memory /\ UNCHANGED bridgeVars /\ UNCHANGED fate
    BY <1>1 DEF vars
  <2>2. TypeOK'
    <3>1. errored' \in BOOLEAN /\ late' \in BOOLEAN
      BY <2>1 DEF Base, TypeOK, fate
    <3> QED BY <2>1, <3>1, ZenonT(30) DEF Base, TypeOK, pageVars, shimVars, memory, bridgeVars
  <2> QED BY <2>1, <2>2 DEF Base, Placed, Handover, pageVars, shimVars, memory, bridgeVars
<1> QED BY <1>1, PageBase, ShimBase, BridgeBase DEF Next

THEOREM BaseHolds == Spec => []Base
BY InitBase, NextBase, PTL DEF Spec

\* Every variable of the bridge's protocol keeps its type.
THEOREM TypesHold == Spec => []TypeOK
<1>1. Base => TypeOK
  BY DEF Base
<1> QED BY <1>1, BaseHolds, PTL

\* roundTrip acts on the STATE, the FLAGS and the bytes of one chunk, whether
\* or not the bridge makes the deadline (shim.js roundTrip, bridge-worker.js
\* writeChunk).
THEOREM NoTornChunkHolds == Spec => []NoTornChunk
<1>1. Base => NoTornChunk
  BY DEF Base, Handover, NoTornChunk
<1> QED BY <1>1, BaseHolds, PTL

-----------------------------------------------------------------------------
(* Relays: peerRelays, the inbox and the page's messages are one path.     *)

IsPeer(m, p) == m.frame = "peer" /\ m.peer = p

\* Before the i-th message of s, and over the registrations of base, r is the
\* relay of p.
EndsAt(base, s, i, p, r) ==
  \/ /\ r = base[p]
     /\ \A j \in 1 .. i - 1 : ~IsPeer(s[j], p)
  \/ \E j \in 1 .. i - 1 : /\ IsPeer(s[j], p)
                           /\ s[j].relay = r
                           /\ \A k \in j + 1 .. i - 1 : ~IsPeer(s[k], p)

\* The messages of s lead from the registrations of base to those of end, and
\* meet each request with the relay that the page wanted for it.
Leads(base, s, want, end) ==
  /\ \A p \in Peers : EndsAt(base, s, Len(s) + 1, p, end[p])
  /\ \A i \in 1 .. Len(s) : s[i].frame = "request" =>
       \E r \in Relays \cup {NoRelay} :
         /\ EndsAt(base, s, i, s[i].peer, r)
         /\ want[s[i].n] = IF r = NoRelay THEN DefaultRelay ELSE r

Registrations == [Peers -> Relays \cup {NoRelay}]

OnePath ==
  \E fwd \in Registrations : Leads(peerRelays, inbox, wanted, fwd) /\ Leads(fwd, page, wanted, told)

\* The requests under way are those the page has asked for.
AskedFor ==
  /\ \A i \in 1 .. Len(page) : page[i].frame = "request" => page[i].n <= asked
  /\ \A i \in 1 .. Len(inbox) : inbox[i].frame = "request" => inbox[i].n <= asked
  /\ \A n \in Requests : n > asked => dialled[n] = NoRelay

RelayInv == Base /\ OnePath /\ AskedFor /\ DialledThroughRegisteredRelay

LEMMA LeadsAppendPeer ==
  ASSUME NEW base \in Registrations, NEW end \in Registrations, NEW want, NEW s \in Seq(Frames),
         NEW m \in Frames, m.frame = "peer", Leads(base, s, want, end)
  PROVE  Leads(base, Append(s, m), want, [end EXCEPT ![m.peer] = m.relay])
<1> DEFINE t == Append(s, m)
           fin == [end EXCEPT ![m.peer] = m.relay]
<1>1. Len(s) \in Nat /\ Len(t) = Len(s) + 1 /\ t[Len(s) + 1] = m /\ \A i \in 1 .. Len(s) : t[i] = s[i]
  BY Appended
<1> HIDE DEF t
<1>2. ASSUME NEW p \in Peers PROVE EndsAt(base, t, Len(t) + 1, p, fin[p])
  <2>1. CASE m.peer = p
    <3>1. fin[p] = m.relay
      BY <2>1 DEF Registrations
    <3>2. IsPeer(t[Len(s) + 1], p) /\ Len(s) + 1 \in 1 .. Len(t)
      BY <1>1, <2>1 DEF IsPeer
    <3> QED BY <1>1, <3>1, <3>2 DEF EndsAt
  <2>2. CASE m.peer # p
    <3>1. fin[p] = end[p] /\ ~IsPeer(m, p)
      BY <2>2 DEF Registrations, IsPeer
    <3>2. EndsAt(base, s, Len(s) + 1, p, end[p])
      BY DEF Leads
    <3> QED BY <1>1, <3>1, <3>2 DEF EndsAt
  <2> QED BY <2>1, <2>2
<1>3. ASSUME NEW i \in 1 .. Len(t), t[i].frame = "request"
      PROVE  \E r \in Relays \cup {NoRelay} :
               /\ EndsAt(base, t, i, t[i].peer, r)
               /\ want[t[i].n] = IF r = NoRelay THEN DefaultRelay ELSE r
  <2>1. i \in 1 .. Len(s) /\ t[i] = s[i]
    BY <1>1, <1>3
  <2>2. PICK r \in Relays \cup {NoRelay} : EndsAt(base, s, i, s[i].peer, r) /\ want[s[i].n] = IF r = NoRelay THEN DefaultRelay ELSE r
    BY <1>3, <2>1 DEF Leads
  <2>3. EndsAt(base, t, i, t[i].peer, r)
    BY <1>1, <2>1, <2>2 DEF EndsAt
  <2> QED BY <2>1, <2>2, <2>3
<1> QED BY <1>2, <1>3 DEF Leads, t

LEMMA LeadsAppendRequest ==
  ASSUME NEW base \in Registrations, NEW end \in Registrations, NEW want, NEW s \in Seq(Frames),
         NEW m \in Frames, m.frame = "request", Leads(base, s, want, end), want[m.n] = RelayFor(end, m.peer)
  PROVE  Leads(base, Append(s, m), want, end)
<1> DEFINE t == Append(s, m)
<1>1. Len(s) \in Nat /\ Len(t) = Len(s) + 1 /\ t[Len(s) + 1] = m /\ \A i \in 1 .. Len(s) : t[i] = s[i]
  BY Appended
<1> HIDE DEF t
<1>2. ASSUME NEW p \in Peers PROVE EndsAt(base, t, Len(t) + 1, p, end[p]) /\ EndsAt(base, t, Len(s) + 1, p, end[p])
  <2>1. ~IsPeer(m, p)
    BY DEF IsPeer
  <2>2. EndsAt(base, s, Len(s) + 1, p, end[p])
    BY DEF Leads
  <2> QED BY <1>1, <2>1, <2>2 DEF EndsAt
<1>3. ASSUME NEW i \in 1 .. Len(t), t[i].frame = "request"
      PROVE  \E r \in Relays \cup {NoRelay} :
               /\ EndsAt(base, t, i, t[i].peer, r)
               /\ want[t[i].n] = IF r = NoRelay THEN DefaultRelay ELSE r
  <2>1. CASE i = Len(s) + 1
    <3>1. m.peer \in Peers /\ end[m.peer] \in Relays \cup {NoRelay} /\ t[i] = m
      BY <1>1, <2>1, FrameFacts DEF Registrations
    <3>2. EndsAt(base, t, i, m.peer, end[m.peer])
      BY <1>2, <2>1, <3>1
    <3> QED BY <3>1, <3>2 DEF RelayFor
  <2>2. CASE i # Len(s) + 1
    <3>1. i \in 1 .. Len(s) /\ t[i] = s[i]
      BY <1>1, <2>2
    <3>2. PICK r \in Relays \cup {NoRelay} : EndsAt(base, s, i, s[i].peer, r) /\ want[s[i].n] = IF r = NoRelay THEN DefaultRelay ELSE r
      BY <1>3, <3>1 DEF Leads
    <3>3. EndsAt(base, t, i, t[i].peer, r)
      BY <1>1, <3>1, <3>2 DEF EndsAt
    <3> QED BY <3>1, <3>2, <3>3
  <2> QED BY <2>1, <2>2
<1> QED BY <1>2, <1>3 DEF Leads, t

\* What a message at the head does to where the others start from.
LEMMA EndsAtTail ==
  ASSUME NEW base \in Registrations, NEW s \in Seq(Frames), s # <<>>, NEW p \in Peers,
         NEW i \in Nat \ {0}, i <= Len(s), NEW r, NEW next \in Registrations,
         next[p] = IF IsPeer(Head(s), p) THEN Head(s).relay ELSE base[p],
         EndsAt(base, s, i + 1, p, r)
  PROVE  EndsAt(next, Tail(s), i, p, r)
<1>1. /\ Len(s) \in Nat \ {0} /\ Head(s) = s[1] /\ Len(Tail(s)) = Len(s) - 1
      /\ \A j \in 1 .. Len(s) - 1 : Tail(s)[j] = s[j + 1]
  BY HeadTail
<1> DEFINE t == Tail(s)
<1>2. \A j \in 1 .. i - 1 : t[j] = s[j + 1]
  BY <1>1
<1> HIDE DEF t
<1>3. CASE r = base[p] /\ \A j \in 1 .. i : ~IsPeer(s[j], p)
  <2>1. ~IsPeer(Head(s), p)
    BY <1>1, <1>3
  <2>2. \A j \in 1 .. i - 1 : j + 1 \in 1 .. i
    OBVIOUS
  <2> QED BY <1>2, <1>3, <2>1, <2>2 DEF EndsAt, t
<1>4. CASE \E j \in 1 .. i : IsPeer(s[j], p) /\ s[j].relay = r /\ \A k \in j + 1 .. i : ~IsPeer(s[k], p)
  <2>1. PICK j \in 1 .. i : IsPeer(s[j], p) /\ s[j].relay = r /\ \A k \in j + 1 .. i : ~IsPeer(s[k], p)
    BY <1>4
  <2>2. \A k \in j .. i - 1 : k + 1 \in j + 1 .. i /\ ~IsPeer(s[k + 1], p)
    BY <2>1
  <2>3. CASE j = 1
    <3>1. next[p] = r
      BY <1>1, <2>1, <2>3
    <3>2. \A k \in 1 .. i - 1 : ~IsPeer(t[k], p)
      BY <1>2, <2>2, <2>3
    <3> QED BY <3>1, <3>2 DEF EndsAt, t
  <2>4. CASE j # 1
    <3>1. j - 1 \in 1 .. i - 1 /\ (j - 1) + 1 = j
      BY <2>1, <2>4
    <3>2. t[j - 1] = s[j]
      BY <1>2, <3>1
    <3>3. \A k \in (j - 1) + 1 .. i - 1 : ~IsPeer(t[k], p)
      BY <1>2, <2>2, <3>1
    <3> QED BY <2>1, <3>1, <3>2, <3>3 DEF EndsAt, t
  <2> QED BY <2>3, <2>4
<1>5. (i + 1) - 1 = i
  OBVIOUS
<1> QED BY <1>3, <1>4, <1>5 DEF EndsAt

LEMMA LeadsTail ==
  ASSUME NEW base \in Registrations, NEW s \in Seq(Frames), s # <<>>, NEW next \in Registrations, NEW want, NEW end \in Registrations,
         \A p \in Peers : next[p] = IF IsPeer(Head(s), p) THEN Head(s).relay ELSE base[p],
         Leads(base, s, want, end)
  PROVE  Leads(next, Tail(s), want, end)
<1> DEFINE t == Tail(s)
<1>1. /\ Len(s) \in Nat \ {0} /\ Len(t) = Len(s) - 1 /\ t \in Seq(Frames)
      /\ \A j \in 1 .. Len(s) - 1 : t[j] = s[j + 1]
  BY HeadTail
<1>2. ASSUME NEW p \in Peers PROVE EndsAt(next, t, Len(t) + 1, p, end[p])
  <2>1. EndsAt(base, s, Len(s) + 1, p, end[p])
    BY DEF Leads
  <2>2. EndsAt(next, t, Len(s), p, end[p])
    BY <1>1, <2>1, EndsAtTail
  <2>3. Len(t) + 1 = Len(s)
    BY <1>1
  <2> QED BY <2>2, <2>3
<1>3. ASSUME NEW i \in 1 .. Len(t), t[i].frame = "request"
      PROVE  \E r \in Relays \cup {NoRelay} :
               /\ EndsAt(next, t, i, t[i].peer, r)
               /\ want[t[i].n] = IF r = NoRelay THEN DefaultRelay ELSE r
  <2>1. i + 1 \in 1 .. Len(s) /\ t[i] = s[i + 1] /\ i <= Len(s) /\ i \in Nat \ {0}
    BY <1>1
  <2>2. PICK r \in Relays \cup {NoRelay} : EndsAt(base, s, i + 1, s[i + 1].peer, r) /\ want[s[i + 1].n] = IF r = NoRelay THEN DefaultRelay ELSE r
    BY <1>3, <2>1 DEF Leads
  <2>3. s[i + 1].peer \in Peers
    BY <2>1, FrameFacts, ElementOfSeq
  <2>4. EndsAt(next, t, i, s[i + 1].peer, r)
    BY <2>1, <2>2, <2>3, EndsAtTail
  <2> QED BY <2>1, <2>2, <2>4
<1> HIDE DEF t
<1> QED BY <1>2, <1>3 DEF Leads, t

LEMMA LeadsHeadRequest ==
  ASSUME NEW base \in Registrations, NEW s \in Seq(Frames), s # <<>>, NEW want, NEW end,
         Leads(base, s, want, end), Head(s).frame = "request"
  PROVE  want[Head(s).n] = RelayFor(base, Head(s).peer)
<1>1. Head(s) = s[1] /\ 1 \in 1 .. Len(s)
  BY HeadTail
<1>2. PICK r \in Relays \cup {NoRelay} : EndsAt(base, s, 1, s[1].peer, r) /\ want[s[1].n] = IF r = NoRelay THEN DefaultRelay ELSE r
  BY <1>1 DEF Leads
<1>3. r = base[s[1].peer]
  BY <1>2 DEF EndsAt
<1> QED BY <1>1, <1>2, <1>3 DEF RelayFor

\* The requests of s do not see what the page wants of another one.
LEMMA LeadsWant ==
  ASSUME NEW base, NEW s, NEW end, NEW want, NEW want2,
         \A i \in 1 .. Len(s) : s[i].frame = "request" => want2[s[i].n] = want[s[i].n],
         Leads(base, s, want, end)
  PROVE  Leads(base, s, want2, end)
BY DEF Leads

LEMMA InitRelay == Init => RelayInv
<1> SUFFICES ASSUME Init PROVE RelayInv
  OBVIOUS
<1>1. Base
  BY InitBase
<1>2. told \in Registrations /\ peerRelays = told /\ page = <<>> /\ inbox = <<>>
  BY DEF Init, Registrations
<1>3. \A w : Leads(told, <<>>, w, told)
  BY DEF Leads, EndsAt
<1>4. OnePath
  BY <1>2, <1>3 DEF OnePath
<1>5. AskedFor /\ DialledThroughRegisteredRelay
  BY DEF Init, AskedFor, DialledThroughRegisteredRelay
<1> QED BY <1>1, <1>4, <1>5 DEF RelayInv

LEMMA RelayTyped ==
  Base => /\ page \in Seq(Frames) /\ inbox \in Seq(Frames) /\ asked \in 0 .. MaxRequests
          /\ told \in Registrations /\ peerRelays \in Registrations
          /\ wanted \in [Requests -> Relays \cup {NoRelay, DefaultRelay}]
          /\ dialled \in [Requests -> Relays \cup {NoRelay, DefaultRelay}]
          /\ pending \in SUBSET Requests
BY DEF Base, TypeOK, Frames, Registrations

LEMMA RegisterRelay ==
  ASSUME RelayInv, NEW p \in Peers, NEW relay \in Relays \cup {NoRelay}, PageRegisters(p, relay)
  PROVE  OnePath' /\ AskedFor' /\ DialledThroughRegisteredRelay'
<1> DEFINE m == [frame |-> "peer", peer |-> p, relay |-> relay]
<1>1. /\ told' = [told EXCEPT ![p] = relay] /\ page' = Append(page, m)
      /\ peerRelays' = peerRelays /\ inbox' = inbox /\ wanted' = wanted /\ asked' = asked /\ dialled' = dialled
  BY DEF PageRegisters, bridgeVars
<1>2. m \in Frames /\ m.frame = "peer" /\ m.peer = p /\ m.relay = relay
  BY DEF Frames, PeerFrames
<1> HIDE DEF m
<1>3. Base
  BY DEF RelayInv
<1>4. PICK fwd \in Registrations : Leads(peerRelays, inbox, wanted, fwd) /\ Leads(fwd, page, wanted, told)
  BY DEF RelayInv, OnePath
<1>5. Leads(fwd, page', wanted, told')
  BY <1>1, <1>2, <1>3, <1>4, RelayTyped, LeadsAppendPeer
<1>6. OnePath'
  BY <1>1, <1>4, <1>5 DEF OnePath
<1>7. \A i \in 1 .. Len(page') : page'[i].frame = "request" => page'[i].n <= asked
  <2>1. /\ Len(page) \in Nat /\ Len(page') = Len(page) + 1 /\ page'[Len(page) + 1] = m
        /\ \A i \in 1 .. Len(page) : page'[i] = page[i]
    BY <1>1, <1>2, <1>3, RelayTyped, Appended
  <2>2. \A i \in 1 .. Len(page') : i = Len(page) + 1 \/ i \in 1 .. Len(page)
    BY <2>1
  <2> QED BY <1>2, <2>1, <2>2 DEF RelayInv, AskedFor
<1>8. AskedFor'
  BY <1>1, <1>7 DEF RelayInv, AskedFor
<1>9. DialledThroughRegisteredRelay'
  BY <1>1 DEF RelayInv, DialledThroughRegisteredRelay
<1> QED BY <1>6, <1>8, <1>9

LEMMA AskRelay ==
  ASSUME RelayInv, NEW p \in Peers, PageAsks(p)
  PROVE  OnePath' /\ AskedFor' /\ DialledThroughRegisteredRelay'
<1> DEFINE m == [frame |-> "request", n |-> asked + 1, peer |-> p]
<1>1. /\ asked < MaxRequests /\ asked' = asked + 1 /\ wanted' = [wanted EXCEPT ![asked + 1] = RelayFor(told, p)]
      /\ page' = Append(page, m)
      /\ peerRelays' = peerRelays /\ inbox' = inbox /\ told' = told /\ dialled' = dialled
  BY DEF PageAsks, bridgeVars
<1>2. Base
  BY DEF RelayInv
<1>3. asked \in Nat /\ asked + 1 \in Requests
  BY <1>1, <1>2, RelayTyped, BoundsAssumption DEF Requests
<1>4. m \in Frames /\ m.frame = "request" /\ m.peer = p /\ m.n = asked + 1
  BY <1>3 DEF Frames, RequestFrames
<1> HIDE DEF m
<1>5. /\ Len(page) \in Nat /\ Len(page') = Len(page) + 1 /\ page'[Len(page) + 1] = m
      /\ \A i \in 1 .. Len(page) : page'[i] = page[i]
  BY <1>1, <1>2, <1>4, RelayTyped, Appended
<1>6. \A k \in Requests : k # asked + 1 => wanted'[k] = wanted[k]
  BY <1>1, <1>2, RelayTyped
<1>7. wanted'[asked + 1] = RelayFor(told, p)
  BY <1>1, <1>2, <1>3, RelayTyped
<1>8. PICK fwd \in Registrations : Leads(peerRelays, inbox, wanted, fwd) /\ Leads(fwd, page, wanted, told)
  BY DEF RelayInv, OnePath
<1>9. ASSUME NEW s \in Seq(Frames), \A i \in 1 .. Len(s) : s[i].frame = "request" => s[i].n <= asked, NEW i \in 1 .. Len(s),
             s[i].frame = "request"
      PROVE  wanted'[s[i].n] = wanted[s[i].n]
  <2>1. s[i].n \in Requests /\ s[i].n <= asked
    BY <1>9, FrameFacts, ElementOfSeq
  <2> QED BY <1>3, <1>6, <2>1 DEF Requests
<1>10. Leads(peerRelays, inbox, wanted', fwd)
  <2>1. \A i \in 1 .. Len(inbox) : inbox[i].frame = "request" => wanted'[inbox[i].n] = wanted[inbox[i].n]
    BY <1>2, <1>9, RelayTyped DEF RelayInv, AskedFor
  <2> QED BY <1>8, <2>1, LeadsWant
<1>11. Leads(fwd, page, wanted', told)
  <2>1. \A i \in 1 .. Len(page) : page[i].frame = "request" => wanted'[page[i].n] = wanted[page[i].n]
    BY <1>2, <1>9, RelayTyped DEF RelayInv, AskedFor
  <2> QED BY <1>8, <2>1, LeadsWant
<1>12. Leads(fwd, page', wanted', told)
  BY <1>1, <1>2, <1>4, <1>7, <1>11, RelayTyped, LeadsAppendRequest
<1>13. OnePath'
  BY <1>1, <1>8, <1>10, <1>12 DEF OnePath
<1>14. \A i \in 1 .. Len(page') : page'[i].frame = "request" => page'[i].n <= asked'
  <2>1. ASSUME NEW i \in 1 .. Len(page'), page'[i].frame = "request" PROVE page'[i].n <= asked'
    <3>1. CASE i = Len(page) + 1
      BY <1>1, <1>3, <1>4, <1>5, <3>1
    <3>2. CASE i # Len(page) + 1
      <4>1. i \in 1 .. Len(page) /\ page'[i] = page[i] /\ page[i].n <= asked /\ page[i].n \in Requests
        BY <1>2, <1>5, <2>1, <3>2, RelayTyped, ElementOfSeq, FrameFacts DEF RelayInv, AskedFor
      <4> QED BY <1>1, <1>3, <4>1 DEF Requests
    <3> QED BY <3>1, <3>2
  <2> QED BY <2>1
<1>15. \A i \in 1 .. Len(inbox') : inbox'[i].frame = "request" => inbox'[i].n <= asked'
  <2>1. ASSUME NEW i \in 1 .. Len(inbox), inbox[i].frame = "request" PROVE inbox[i].n <= asked'
    <3>1. inbox[i].n <= asked /\ inbox[i].n \in Requests
      BY <1>2, <2>1, RelayTyped, ElementOfSeq, FrameFacts DEF RelayInv, AskedFor
    <3> QED BY <1>1, <1>3, <3>1 DEF Requests
  <2> QED BY <1>1, <2>1
<1>16. AskedFor'
  <2>1. \A k \in Requests : k > asked' => k > asked
    BY <1>1, <1>3 DEF Requests
  <2> QED BY <1>1, <1>14, <1>15, <2>1 DEF RelayInv, AskedFor
<1>17. DialledThroughRegisteredRelay'
  <2>1. dialled[asked + 1] = NoRelay
    BY <1>3 DEF RelayInv, AskedFor
  <2> QED BY <1>1, <1>6, <2>1 DEF RelayInv, DialledThroughRegisteredRelay
<1> QED BY <1>13, <1>16, <1>17

\* The head of page is passed on: the inbox grows by what the page shrinks.
LEMMA ForwardRelay ==
  ASSUME RelayInv, ShimForwards
  PROVE  OnePath' /\ AskedFor' /\ DialledThroughRegisteredRelay'
<1> DEFINE m == Head(page)
<1>1. /\ page # <<>> /\ m.frame = "peer" /\ inbox' = Append(inbox, m) /\ page' = Tail(page)
      /\ peerRelays' = peerRelays /\ told' = told /\ wanted' = wanted /\ asked' = asked /\ dialled' = dialled
  BY DEF ShimForwards
<1>2. /\ page \in Seq(Frames) /\ inbox \in Seq(Frames) /\ told \in Registrations /\ peerRelays \in Registrations
  BY RelayTyped DEF RelayInv
<1>3. m \in Frames /\ m.peer \in Peers /\ m.relay \in Relays \cup {NoRelay}
  BY <1>1, <1>2, HeadTail, FrameFacts
<1>4. PICK fwd \in Registrations : Leads(peerRelays, inbox, wanted, fwd) /\ Leads(fwd, page, wanted, told)
  BY DEF RelayInv, OnePath
<1> DEFINE fwd2 == [fwd EXCEPT ![m.peer] = m.relay]
<1>5. fwd2 \in Registrations /\ \A p \in Peers : fwd2[p] = IF IsPeer(m, p) THEN m.relay ELSE fwd[p]
  BY <1>1, <1>3 DEF Registrations, IsPeer
<1>6. Leads(peerRelays, inbox', wanted, fwd2)
  BY <1>1, <1>2, <1>3, <1>4, LeadsAppendPeer
<1>7. Leads(fwd2, page', wanted, told)
  <2> HIDE DEF fwd2
  <2> QED BY <1>1, <1>2, <1>4, <1>5, LeadsTail
<1>8. OnePath'
  BY <1>1, <1>5, <1>6, <1>7 DEF OnePath
<1>9. AskedFor'
  <2>1. \A i \in 1 .. Len(page') : page'[i].frame = "request" => page'[i].n <= asked
    <3>1. /\ Len(page) \in Nat \ {0} /\ Len(page') = Len(page) - 1 /\ \A i \in 1 .. Len(page) - 1 : page'[i] = page[i + 1]
      BY <1>1, <1>2, HeadTail
    <3>2. \A i \in 1 .. Len(page') : i + 1 \in 1 .. Len(page) /\ page'[i] = page[i + 1]
      BY <3>1
    <3> QED BY <3>2 DEF RelayInv, AskedFor
  <2>2. \A i \in 1 .. Len(inbox') : inbox'[i].frame = "request" => inbox'[i].n <= asked
    <3>1. /\ Len(inbox) \in Nat /\ Len(inbox') = Len(inbox) + 1 /\ inbox'[Len(inbox) + 1] = m
          /\ \A i \in 1 .. Len(inbox) : inbox'[i] = inbox[i]
      BY <1>1, <1>2, <1>3, Appended
    <3>2. \A i \in 1 .. Len(inbox') : i = Len(inbox) + 1 \/ i \in 1 .. Len(inbox)
      BY <3>1
    <3> QED BY <1>1, <3>1, <3>2 DEF RelayInv, AskedFor
  <2> QED BY <1>1, <2>1, <2>2 DEF RelayInv, AskedFor
<1>10. DialledThroughRegisteredRelay'
  BY <1>1 DEF RelayInv, DialledThroughRegisteredRelay
<1> QED BY <1>8, <1>9, <1>10

\* The request at the head of page is posted; it leaves page when XHR.send returns.
LEMMA PostRelay ==
  ASSUME RelayInv, ShimPosts
  PROVE  OnePath' /\ AskedFor' /\ DialledThroughRegisteredRelay'
<1> DEFINE m == Head(page)
<1>1. /\ page # <<>> /\ m.frame = "request" /\ inbox' = Append(inbox, m)
      /\ page' = page /\ peerRelays' = peerRelays /\ told' = told /\ wanted' = wanted /\ asked' = asked /\ dialled' = dialled
  BY DEF ShimPosts, RelayInv, Base, Placed, pageVars
<1>2. /\ page \in Seq(Frames) /\ inbox \in Seq(Frames) /\ told \in Registrations /\ peerRelays \in Registrations
  BY RelayTyped DEF RelayInv
<1>3. m \in Frames /\ m = page[1] /\ 1 \in 1 .. Len(page)
  BY <1>1, <1>2, HeadTail
<1>4. PICK fwd \in Registrations : Leads(peerRelays, inbox, wanted, fwd) /\ Leads(fwd, page, wanted, told)
  BY DEF RelayInv, OnePath
<1>5. wanted[m.n] = RelayFor(fwd, m.peer)
  BY <1>1, <1>2, <1>4, LeadsHeadRequest
<1>6. Leads(peerRelays, inbox', wanted, fwd)
  BY <1>1, <1>2, <1>3, <1>4, <1>5, LeadsAppendRequest
<1>7. OnePath'
  BY <1>1, <1>4, <1>6 DEF OnePath
<1>8. AskedFor'
  <2>1. m.n <= asked
    BY <1>1, <1>3 DEF RelayInv, AskedFor
  <2>2. /\ Len(inbox) \in Nat /\ Len(inbox') = Len(inbox) + 1 /\ inbox'[Len(inbox) + 1] = m
        /\ \A i \in 1 .. Len(inbox) : inbox'[i] = inbox[i]
    BY <1>1, <1>2, <1>3, Appended
  <2>3. \A i \in 1 .. Len(inbox') : i = Len(inbox) + 1 \/ i \in 1 .. Len(inbox)
    BY <2>2
  <2> QED BY <1>1, <2>1, <2>2, <2>3 DEF RelayInv, AskedFor
<1>9. DialledThroughRegisteredRelay'
  BY <1>1 DEF RelayInv, DialledThroughRegisteredRelay
<1> QED BY <1>7, <1>8, <1>9

\* XHR.send returns: the request leaves page.
LEMMA FinishRelay ==
  ASSUME RelayInv, spc # "loop", NEW o, Finish(o), UNCHANGED bridgeVars, UNCHANGED <<asked, frames, told, wanted>>
  PROVE  OnePath' /\ AskedFor' /\ DialledThroughRegisteredRelay'
<1>1. /\ page # <<>> /\ Head(page).frame = "request" /\ page' = Tail(page)
      /\ inbox' = inbox /\ peerRelays' = peerRelays /\ told' = told /\ wanted' = wanted /\ asked' = asked /\ dialled' = dialled
  BY DEF Finish, RelayInv, Base, Placed, bridgeVars
<1>2. page \in Seq(Frames) /\ told \in Registrations
  BY RelayTyped DEF RelayInv
<1>3. PICK fwd \in Registrations : Leads(peerRelays, inbox, wanted, fwd) /\ Leads(fwd, page, wanted, told)
  BY DEF RelayInv, OnePath
<1>4. Leads(fwd, page', wanted, told)
  <2>1. \A p \in Peers : fwd[p] = IF IsPeer(Head(page), p) THEN Head(page).relay ELSE fwd[p]
    BY <1>1 DEF IsPeer
  <2> QED BY <1>1, <1>2, <1>3, <2>1, LeadsTail
<1>5. OnePath'
  BY <1>1, <1>3, <1>4 DEF OnePath
<1>6. AskedFor'
  <2>1. /\ Len(page) \in Nat \ {0} /\ Len(page') = Len(page) - 1 /\ \A i \in 1 .. Len(page) - 1 : page'[i] = page[i + 1]
    BY <1>1, <1>2, HeadTail
  <2>2. \A i \in 1 .. Len(page') : i + 1 \in 1 .. Len(page) /\ page'[i] = page[i + 1]
    BY <2>1
  <2> QED BY <1>1, <2>2 DEF RelayInv, AskedFor
<1>7. DialledThroughRegisteredRelay'
  BY <1>1 DEF RelayInv, DialledThroughRegisteredRelay
<1> QED BY <1>5, <1>6, <1>7

\* The bridge reads a message: what was registered before it is in peerRelays.
LEMMA ReceiveRelay ==
  ASSUME RelayInv, BridgeReceives
  PROVE  OnePath' /\ AskedFor' /\ DialledThroughRegisteredRelay'
<1> DEFINE m == Head(inbox)
<1>1. /\ inbox # <<>> /\ inbox' = Tail(inbox) /\ page' = page /\ told' = told /\ wanted' = wanted /\ asked' = asked
  BY DEF BridgeReceives, pageVars
<1>2. /\ inbox \in Seq(Frames) /\ told \in Registrations /\ peerRelays \in Registrations
      /\ dialled \in [Requests -> Relays \cup {NoRelay, DefaultRelay}]
  BY RelayTyped DEF RelayInv
<1>3. m \in Frames /\ m = inbox[1] /\ 1 \in 1 .. Len(inbox)
  BY <1>1, <1>2, HeadTail
<1>4. PICK fwd \in Registrations : Leads(peerRelays, inbox, wanted, fwd) /\ Leads(fwd, page, wanted, told)
  BY DEF RelayInv, OnePath
<1>5. /\ peerRelays' \in Registrations
      /\ \A p \in Peers : peerRelays'[p] = IF IsPeer(m, p) THEN m.relay ELSE peerRelays[p]
  <2>1. CASE m.frame = "peer" /\ peerRelays' = Registered(m)
    BY <1>2, <1>3, <2>1, FrameFacts DEF Registered, Registrations, IsPeer
  <2>2. CASE m.frame = "request" /\ peerRelays' = peerRelays
    BY <1>2, <2>2 DEF IsPeer
  <2> QED BY <2>1, <2>2 DEF BridgeReceives
<1>6. Leads(peerRelays', inbox', wanted, fwd)
  BY <1>1, <1>2, <1>4, <1>5, LeadsTail
<1>7. OnePath'
  BY <1>1, <1>4, <1>5, <1>6 DEF OnePath
<1>8. \/ dialled' = dialled
      \/ /\ m.frame = "request" /\ m.n \in Requests /\ m.n <= asked
         /\ dialled' = [dialled EXCEPT ![m.n] = wanted[m.n]]
  <2>1. CASE m.frame = "request" /\ dialled' = [dialled EXCEPT ![m.n] = RelayFor(peerRelays, m.peer)]
    <3>1. wanted[m.n] = RelayFor(peerRelays, m.peer)
      BY <1>1, <1>2, <1>4, <2>1, LeadsHeadRequest
    <3>2. m.n \in Requests /\ m.n <= asked
      BY <1>3, <2>1, FrameFacts DEF RelayInv, AskedFor
    <3> QED BY <2>1, <3>1, <3>2
  <2>2. dialled' = dialled \/ (m.frame = "request" /\ dialled' = [dialled EXCEPT ![m.n] = RelayFor(peerRelays, m.peer)])
    BY DEF BridgeReceives
  <2> QED BY <2>1, <2>2
<1>9. DialledThroughRegisteredRelay'
  BY <1>1, <1>2, <1>8 DEF RelayInv, DialledThroughRegisteredRelay
<1>10. \A n \in Requests : n > asked => dialled'[n] = NoRelay
  <2>1. asked \in Nat
    BY RelayTyped, BoundsAssumption DEF RelayInv
  <2>2. ASSUME NEW n \in Requests, n > asked, m.n \in Requests, m.n <= asked PROVE n # m.n
    BY <2>1, <2>2 DEF Requests
  <2> QED BY <1>2, <1>8, <2>2 DEF RelayInv, AskedFor
<1>11. AskedFor'
  <2>1. /\ Len(inbox) \in Nat \ {0} /\ Len(inbox') = Len(inbox) - 1 /\ \A i \in 1 .. Len(inbox) - 1 : inbox'[i] = inbox[i + 1]
    BY <1>1, <1>2, HeadTail
  <2>2. \A i \in 1 .. Len(inbox') : i + 1 \in 1 .. Len(inbox) /\ inbox'[i] = inbox[i + 1]
    BY <2>1
  <2> QED BY <1>1, <1>10, <2>2 DEF RelayInv, AskedFor
<1> QED BY <1>7, <1>9, <1>11

LEMMA NextRelay == RelayInv /\ [Next]_vars => RelayInv'
<1> SUFFICES ASSUME RelayInv, [Next]_vars PROVE OnePath' /\ AskedFor' /\ DialledThroughRegisteredRelay'
  BY NextBase DEF RelayInv
<1>1. ASSUME UNCHANGED <<page, asked, told, wanted, inbox, peerRelays, dialled>>
      PROVE  OnePath' /\ AskedFor' /\ DialledThroughRegisteredRelay'
  BY <1>1 DEF RelayInv, OnePath, AskedFor, DialledThroughRegisteredRelay
<1>2. ASSUME NEW p \in Peers, PageAsks(p) \/ \E relay \in Relays \cup {NoRelay} : PageRegisters(p, relay)
      PROVE  OnePath' /\ AskedFor' /\ DialledThroughRegisteredRelay'
  BY <1>2, AskRelay, RegisterRelay
<1>3. CASE ShimFindsNoBridge \/ ShimGivesUp
  BY <1>3, FinishRelay DEF ShimFindsNoBridge, ShimGivesUp
<1>4. CASE ShimReleases
  <2>1. CASE UNCHANGED page
    BY <1>1, <1>4, <2>1 DEF ShimReleases, bridgeVars
  <2>2. CASE \E o : Finish(o)
    BY <1>4, <2>2, FinishRelay DEF ShimReleases
  <2> QED BY <1>4, <2>1, <2>2 DEF ShimReleases
<1>5. CASE ShimSends \/ ShimObserves \/ ShimCopies
  BY <1>1, <1>5 DEF ShimSends, ShimObserves, ShimCopies, pageVars, bridgeVars
<1>6. CASE BridgeWrites \/ BridgeStarts \/ BridgeDies \/ ShimHearsError \/ \E n \in Requests : BridgeSettles(n)
  BY <1>1, <1>6 DEF BridgeWrites, BridgeSeesIdle, BridgeFills, BridgeFlags, BridgePublishes, BridgeStarts, BridgeDies,
                    ShimHearsError, BridgeSettles, pageVars, bridgeVars
<1>7. CASE UNCHANGED vars
  BY <1>1, <1>7 DEF vars, pageVars, bridgeVars
<1>8. CASE ShimStep
  BY <1>3, <1>4, <1>5, <1>8, ForwardRelay, PostRelay DEF ShimStep
<1>9. CASE BridgeStep
  BY <1>6, <1>9, ReceiveRelay DEF BridgeStep
<1> QED BY <1>2, <1>6, <1>7, <1>8, <1>9 DEF Next

\* Every dial uses the relay the page had last registered for the peer when
\* it asked for the request (protocol.js: registrations and requests travel
\* one path), whether or not the bridge makes the deadline.
THEOREM DialledThroughRegisteredRelayHolds == Spec => []DialledThroughRegisteredRelay
<1>1. RelayInv => DialledThroughRegisteredRelay
  BY DEF RelayInv
<1> QED BY <1>1, InitRelay, NextRelay, PTL DEF Spec

-----------------------------------------------------------------------------
(* Answers, while a live bridge always makes the deadline.                 *)

Posted == spc \in {"wait", "copy", "release"}

OnlyPeers(s) == \A i \in 1 .. Len(s) : s[i].frame = "peer"

\* The request is the only one in s.
OnlyRequest(s, n) ==
  \E i \in 1 .. Len(s) : /\ s[i].frame = "request" /\ s[i].n = n
                         /\ \A j \in 1 .. Len(s) : j # i => s[j].frame = "peer"

\* How much of the answer the shim has.
Delivered == IF meta = NoChunk THEN 0 ELSE 1 + Len(body)

SentIsAnswer == \A n \in Requests : sent[n] \in {<<>>} \cup Answers(n)

\* The page's requests are asked for in order, and what is still to be posted
\* has no answer yet.
Fresh ==
  /\ \A i, j \in 1 .. Len(page) :
       page[i].frame = "request" /\ page[j].frame = "request" /\ i < j => page[i].n < page[j].n
  /\ \A i \in 1 .. Len(page) : page[i].frame = "request" =>
       /\ page[i].n <= asked
       /\ answer[page[i].n] = None
       /\ i # 1 \/ ~Posted => sent[page[i].n] = <<>>
  /\ \A n \in Requests : n > asked => answer[n] = None /\ sent[n] = <<>>

\* What the shim has, and then what STATE publishes, begin the answer.
Delivery ==
  /\ ~Posted => state = "IDLE" /\ meta = NoChunk
  /\ meta = NoChunk => body = <<>>
  /\ Posted =>
       /\ meta # NoChunk => meta = sent[cur][1]
       /\ Delivered <= Len(sent[cur])
       /\ sent[cur] # <<>> => Delivered < Len(sent[cur])
       /\ \A i \in 1 .. Len(body) : body[i] = sent[cur][i + 1]
       /\ state # "IDLE" => Delivered < Len(sent[cur]) /\ data = sent[cur][Delivered + 1]

\* Nothing of the answer is there yet.
Unanswered == sent[cur] = <<>> /\ bpc = "loop" /\ out = <<>> /\ state = "IDLE" /\ meta = NoChunk

OnItsWay == Unanswered /\ pending = {} /\ OnlyRequest(inbox, cur)
Performed == Unanswered /\ pending = {cur} /\ OnlyPeers(inbox)
Written ==
  /\ OnlyPeers(inbox) /\ pending = {} /\ sent[cur] # <<>>
  /\ out = <<>> => bpc = "loop"
  /\ Len(out) + Delivered + (IF state = "IDLE" THEN 0 ELSE 1) = Len(sent[cur])
  /\ \A i \in 1 .. Len(out) : out[i] = sent[cur][Len(sent[cur]) - Len(out) + i]

\* A live bridge has the shim's request, on its way in, under way or being
\* written out, and no other.
Turns ==
  alive =>
    /\ ~Posted => OnlyPeers(inbox) /\ pending = {} /\ bpc = "loop" /\ out = <<>>
    /\ Posted => OnItsWay \/ Performed \/ Written

AnswerInv == Base /\ SentIsAnswer /\ Fresh /\ Delivery /\ Turns /\ AnswersMatch

LEMMA AnswerTyped ==
  Base => /\ page \in Seq(Frames) /\ inbox \in Seq(Frames) /\ asked \in 0 .. MaxRequests
          /\ sent \in [Requests -> Seq(Chunks)] /\ out \in Seq(Chunks) /\ body \in Seq(Chunks)
          /\ meta \in Chunks /\ payload \in Chunks /\ data \in Chunks
          /\ DOMAIN answer = Requests /\ pending \in SUBSET Requests
          /\ spc # "loop" => cur \in Requests /\ page # <<>> /\ page[1].frame = "request" /\ cur = page[1].n /\ 1 \in 1 .. Len(page)
<1> SUFFICES ASSUME Base
             PROVE  spc # "loop" => cur \in Requests /\ page # <<>> /\ page[1].frame = "request" /\ cur = page[1].n /\ 1 \in 1 .. Len(page)
  BY DEF Base, TypeOK, Frames
<1>1. page \in Seq(Frames)
  BY DEF Base, TypeOK, Frames
<1> QED BY <1>1, HeadTail, FrameFacts DEF Base, Placed

LEMMA InitAnswers == Init => AnswerInv
<1> SUFFICES ASSUME Init PROVE AnswerInv
  OBVIOUS
<1>1. Base /\ SentIsAnswer
  BY InitBase DEF Init, SentIsAnswer
<1>2. Fresh /\ Delivery
  BY DEF Init, Fresh, Delivery, Posted
<1>3. Turns
  BY DEF Init, Turns, Posted, OnlyPeers
<1>4. AnswersMatch
  BY DEF Init, AnswersMatch, None
<1> QED BY <1>1, <1>2, <1>3, <1>4 DEF AnswerInv

\* A page with one message more.
LEMMA PageAnswers ==
  ASSUME AnswerInv, NEW p \in Peers, PageAsks(p) \/ \E relay \in Relays \cup {NoRelay} : PageRegisters(p, relay)
  PROVE  SentIsAnswer' /\ Fresh' /\ Delivery' /\ Turns' /\ AnswersMatch'
<1> USE DEF AnswerInv
<1>1. UNCHANGED shimVars /\ UNCHANGED memory /\ UNCHANGED bridgeVars
  BY DEF PageAsks, PageRegisters
<1>2. SentIsAnswer' /\ AnswersMatch'
  BY <1>1 DEF SentIsAnswer, AnswersMatch, shimVars, bridgeVars
<1>3. Delivery' /\ Turns'
  BY <1>1 DEF Delivery, Turns, Posted, Delivered, Unanswered, OnItsWay, Performed, Written, shimVars, memory, bridgeVars
<1>4. PICK m : /\ m \in Frames /\ page' = Append(page, m)
               /\ \/ m.frame = "peer" /\ asked' = asked
                  \/ m.frame = "request" /\ m.n = asked + 1 /\ asked' = asked + 1 /\ asked + 1 \in Requests
  <2>1. CASE PageAsks(p)
    <3>1. asked \in 0 .. MaxRequests /\ asked < MaxRequests
      BY <2>1, AnswerTyped DEF PageAsks
    <3>2. asked + 1 \in Requests
      BY <3>1, BoundsAssumption DEF Requests
    <3> DEFINE m == [frame |-> "request", n |-> asked + 1, peer |-> p]
    <3>3. m \in Frames /\ m.frame = "request" /\ m.n = asked + 1
      BY <3>2 DEF Frames, RequestFrames
    <3>4. page' = Append(page, m) /\ asked' = asked + 1
      BY <2>1 DEF PageAsks
    <3> HIDE DEF m
    <3> QED BY <3>2, <3>3, <3>4
  <2>2. CASE \E relay \in Relays \cup {NoRelay} : PageRegisters(p, relay)
    <3>1. PICK relay \in Relays \cup {NoRelay} : PageRegisters(p, relay)
      BY <2>2
    <3> DEFINE m == [frame |-> "peer", peer |-> p, relay |-> relay]
    <3>2. m \in Frames /\ m.frame = "peer"
      BY DEF Frames, PeerFrames
    <3>3. page' = Append(page, m) /\ asked' = asked
      BY <3>1 DEF PageRegisters
    <3> HIDE DEF m
    <3> QED BY <3>2, <3>3
  <2> QED BY <2>1, <2>2
<1>5. /\ Len(page) \in Nat /\ Len(page') = Len(page) + 1 /\ page'[Len(page) + 1] = m
      /\ \A i \in 1 .. Len(page) : page'[i] = page[i]
  BY <1>4, AnswerTyped, Appended
<1>6. \A i \in 1 .. Len(page') : i = Len(page) + 1 \/ i \in 1 .. Len(page)
  BY <1>5
<1>7. asked \in Nat
  BY AnswerTyped, BoundsAssumption
<1>8. \A i \in 1 .. Len(page) : page[i].frame = "request" => page[i].n \in Requests /\ page[i].n <= asked
  BY AnswerTyped, ElementOfSeq, FrameFacts DEF Fresh
<1>9. answer' = answer /\ sent' = sent /\ spc' = spc
  BY <1>1 DEF shimVars, bridgeVars
<1>10. \A i, j \in 1 .. Len(page') :
         page'[i].frame = "request" /\ page'[j].frame = "request" /\ i < j => page'[i].n < page'[j].n
  <2>1. ASSUME NEW i \in 1 .. Len(page'), NEW j \in 1 .. Len(page'),
               page'[i].frame = "request", page'[j].frame = "request", i < j
        PROVE  page'[i].n < page'[j].n
    <3>1. i \in 1 .. Len(page) /\ page'[i] = page[i]
      BY <1>5, <2>1
    <3>2. CASE j = Len(page) + 1
      <4>1. page[i].n \in Requests /\ page[i].n <= asked /\ m.n = asked + 1
        BY <1>4, <1>5, <1>8, <2>1, <3>1, <3>2
      <4> QED BY <1>5, <1>7, <3>1, <3>2, <4>1 DEF Requests
    <3>3. CASE j \in 1 .. Len(page)
      BY <1>5, <2>1, <3>1, <3>3 DEF Fresh
    <3> QED BY <1>6, <3>2, <3>3
  <2> QED BY <2>1
<1>11. \A i \in 1 .. Len(page') : page'[i].frame = "request" =>
         page'[i].n <= asked' /\ answer[page'[i].n] = None /\ (i # 1 \/ ~Posted => sent[page'[i].n] = <<>>)
  <2>1. ASSUME NEW i \in 1 .. Len(page'), page'[i].frame = "request"
        PROVE  page'[i].n <= asked' /\ answer[page'[i].n] = None /\ (i # 1 \/ ~Posted => sent[page'[i].n] = <<>>)
    <3>1. CASE i = Len(page) + 1
      <4>1. page'[i].n = asked + 1 /\ asked' = asked + 1 /\ asked + 1 \in Requests
        BY <1>4, <1>5, <2>1, <3>1
      <4>2. asked + 1 > asked
        BY <1>7
      <4> QED BY <1>7, <4>1, <4>2 DEF Fresh
    <3>2. CASE i \in 1 .. Len(page)
      <4>1. page'[i] = page[i] /\ page[i].n \in Requests /\ page[i].n <= asked
        BY <1>5, <1>8, <2>1, <3>2
      <4>2. page[i].n <= asked'
        BY <1>4, <1>7, <4>1 DEF Requests
      <4> QED BY <2>1, <3>2, <4>1, <4>2 DEF Fresh
    <3> QED BY <1>6, <3>1, <3>2
  <2> QED BY <2>1
<1>12. \A n \in Requests : n > asked' => n > asked
  <2>1. asked' \in Nat /\ asked <= asked'
    BY <1>4, <1>7
  <2> QED BY <1>7, <2>1 DEF Requests
<1>13. Fresh'
  BY <1>9, <1>10, <1>11, <1>12 DEF Fresh, Posted
<1> QED BY <1>2, <1>3, <1>13

\* A page with one message less, its answer given when it is a request.
LEMMA FreshTail ==
  ASSUME AnswerInv, page # <<>>, page' = Tail(page), asked' = asked, sent' = sent, ~Posted',
         answer' = answer \/ (spc # "loop" /\ \E o : answer' = [answer EXCEPT ![cur] = o])
  PROVE  Fresh'
<1> USE DEF AnswerInv
<1>1. /\ Len(page) \in Nat \ {0} /\ Len(page') = Len(page) - 1 /\ \A i \in 1 .. Len(page) - 1 : page'[i] = page[i + 1]
  BY AnswerTyped, HeadTail
<1>2. \A i \in 1 .. Len(page') : i + 1 \in 1 .. Len(page) /\ i + 1 # 1 /\ page'[i] = page[i + 1]
  BY <1>1
<1>3. \A i, j \in 1 .. Len(page') :
        page'[i].frame = "request" /\ page'[j].frame = "request" /\ i < j => page'[i].n < page'[j].n
  <2>1. ASSUME NEW i \in 1 .. Len(page'), NEW j \in 1 .. Len(page'), i < j PROVE i + 1 < j + 1
    BY <1>1, <2>1
  <2> QED BY <1>2, <2>1 DEF Fresh
<1>4. asked \in Nat
  BY AnswerTyped, BoundsAssumption
<1>5. ASSUME NEW n \in Requests, answer[n] = None, spc # "loop" => n # cur PROVE answer'[n] = None
  BY <1>5, AnswerTyped
<1>6. \A i \in 1 .. Len(page') : page'[i].frame = "request" =>
         page'[i].n <= asked /\ answer'[page'[i].n] = None /\ sent[page'[i].n] = <<>>
  <2>1. ASSUME NEW i \in 1 .. Len(page'), page'[i].frame = "request"
        PROVE  page'[i].n <= asked /\ answer'[page'[i].n] = None /\ sent[page'[i].n] = <<>>
    <3>1. page'[i].n <= asked /\ answer[page'[i].n] = None /\ sent[page'[i].n] = <<>>
      BY <1>2, <2>1 DEF Fresh
    <3>2. page'[i].n \in Requests
      BY <1>2, <2>1, AnswerTyped, ElementOfSeq, FrameFacts
    <3>3. ASSUME spc # "loop" PROVE page'[i].n # cur
      <4>1. page[1].frame = "request" /\ cur = page[1].n /\ cur \in Requests /\ 1 < i + 1 /\ 1 \in 1 .. Len(page)
        BY <1>1, <3>3, AnswerTyped
      <4>2. cur < page[i + 1].n
        BY <1>2, <2>1, <4>1 DEF Fresh
      <4> QED BY <1>2, <3>2, <4>1, <4>2 DEF Requests
    <3> QED BY <1>5, <3>1, <3>2, <3>3
  <2> QED BY <2>1
<1>7. \A n \in Requests : n > asked => answer'[n] = None /\ sent[n] = <<>>
  <2>1. ASSUME NEW n \in Requests, n > asked, spc # "loop" PROVE n # cur
    <3>1. cur \in Requests /\ cur <= asked
      BY <2>1, AnswerTyped DEF Fresh
    <3> QED BY <1>4, <2>1, <3>1 DEF Requests
  <2> QED BY <1>5, <2>1 DEF Fresh
<1> QED BY <1>3, <1>6, <1>7 DEF Fresh

LEMMA OnlyPeersAppend ==
  ASSUME NEW s \in Seq(Frames), NEW m \in Frames, OnlyPeers(s)
  PROVE  /\ m.frame = "peer" => OnlyPeers(Append(s, m))
         /\ m.frame = "request" => OnlyRequest(Append(s, m), m.n)
<1> DEFINE t == Append(s, m)
<1>1. Len(s) \in Nat /\ Len(t) = Len(s) + 1 /\ t[Len(s) + 1] = m /\ \A i \in 1 .. Len(s) : t[i] = s[i]
  BY Appended
<1>2. \A i \in 1 .. Len(t) : i = Len(s) + 1 \/ i \in 1 .. Len(s)
  BY <1>1
<1>3. Len(s) + 1 \in 1 .. Len(t)
  BY <1>1
<1> HIDE DEF t
<1>4. \A j \in 1 .. Len(t) : j # Len(s) + 1 => t[j].frame = "peer"
  BY <1>1, <1>2 DEF OnlyPeers
<1>5. m.frame = "peer" => OnlyPeers(t)
  BY <1>1, <1>2 DEF OnlyPeers
<1>6. m.frame = "request" => OnlyRequest(t, m.n)
  BY <1>1, <1>3, <1>4 DEF OnlyRequest
<1> QED BY <1>5, <1>6 DEF t

LEMMA OnlyPeersTail ==
  ASSUME NEW s \in Seq(Frames), s # <<>>
  PROVE  /\ OnlyPeers(s) => OnlyPeers(Tail(s)) /\ Head(s).frame = "peer"
         /\ \A n : OnlyRequest(s, n) =>
              \/ Head(s).frame = "request" /\ Head(s).n = n /\ OnlyPeers(Tail(s))
              \/ Head(s).frame = "peer" /\ OnlyRequest(Tail(s), n)
<1> DEFINE t == Tail(s)
<1>1. /\ Len(s) \in Nat \ {0} /\ Head(s) = s[1] /\ 1 \in 1 .. Len(s) /\ Len(t) = Len(s) - 1
      /\ \A i \in 1 .. Len(s) - 1 : t[i] = s[i + 1]
  BY HeadTail
<1>2. \A i \in 1 .. Len(t) : i + 1 \in 1 .. Len(s) /\ i + 1 # 1 /\ t[i] = s[i + 1]
  BY <1>1
<1> HIDE DEF t
<1>3. ASSUME OnlyPeers(s) PROVE OnlyPeers(t) /\ Head(s).frame = "peer"
  BY <1>1, <1>2, <1>3 DEF OnlyPeers
<1>4. ASSUME NEW n, OnlyRequest(s, n)
      PROVE  \/ Head(s).frame = "request" /\ Head(s).n = n /\ OnlyPeers(t)
             \/ Head(s).frame = "peer" /\ OnlyRequest(t, n)
  <2>1. PICK i \in 1 .. Len(s) : /\ s[i].frame = "request" /\ s[i].n = n
                                 /\ \A j \in 1 .. Len(s) : j # i => s[j].frame = "peer"
    BY <1>4 DEF OnlyRequest
  <2>2. CASE i = 1
    BY <1>1, <1>2, <2>1, <2>2 DEF OnlyPeers
  <2>3. CASE i # 1
    <3>1. i - 1 \in 1 .. Len(t) /\ (i - 1) + 1 = i /\ t[i - 1] = s[i]
      BY <1>1, <2>3
    <3>2. ASSUME NEW j \in 1 .. Len(t), j # i - 1 PROVE t[j].frame = "peer"
      <4>1. j + 1 # i
        BY <3>2
      <4> QED BY <1>2, <2>1, <4>1
    <3>3. OnlyRequest(t, n)
      BY <2>1, <3>1, <3>2 DEF OnlyRequest
    <3> QED BY <1>1, <2>1, <2>3, <3>3
  <2> QED BY <2>2, <2>3
<1> QED BY <1>3, <1>4 DEF t

\* XHR.send returns a failure of the exchange itself: no answer to match.
LEMMA FailAnswers ==
  ASSUME AnswerInv, NEW kind \in {"timeout", "no bridge"}, Finish([kind |-> kind]), spc # "loop",
         spc = "ready" \/ ~alive, state = "IDLE",
         UNCHANGED <<asked, frames, told, wanted, memory, bridgeVars, seen, payload>>
  PROVE  SentIsAnswer' /\ Fresh' /\ Delivery' /\ Turns' /\ AnswersMatch'
<1> USE DEF AnswerInv
<1>1. /\ spc' = "loop" /\ ~Posted' /\ page # <<>> /\ page' = Tail(page) /\ asked' = asked /\ sent' = sent
      /\ meta' = NoChunk /\ body' = <<>> /\ state' = state /\ answer' = [answer EXCEPT ![cur] = [kind |-> kind]]
      /\ alive' = alive /\ inbox' = inbox /\ pending' = pending /\ bpc' = bpc /\ out' = out
  BY AnswerTyped DEF Finish, Posted, memory, bridgeVars
<1>2. Fresh'
  BY <1>1, FreshTail
<1>3. SentIsAnswer'
  BY <1>1 DEF SentIsAnswer
<1>4. Delivery'
  BY <1>1 DEF Delivery
<1>5. Turns'
  BY <1>1 DEF Turns, Posted
<1>6. AnswersMatch'
  <2>1. cur \in Requests /\ DOMAIN answer = Requests
    BY AnswerTyped
  <2>2. ASSUME NEW n \in Requests
        PROVE  answer'[n].kind \in {"timeout", "no bridge"} \/ answer'[n] = answer[n]
    BY <1>1, <2>1
  <2> QED BY <1>1, <2>2 DEF AnswersMatch
<1> QED BY <1>2, <1>3, <1>4, <1>5, <1>6

LEMMA ForwardAnswers ==
  ASSUME AnswerInv, ShimForwards
  PROVE  SentIsAnswer' /\ Fresh' /\ Delivery' /\ Turns' /\ AnswersMatch'
<1> USE DEF AnswerInv
<1>1. /\ spc = "loop" /\ ~Posted /\ page # <<>> /\ page' = Tail(page) /\ inbox' = Append(inbox, Head(page))
      /\ Head(page).frame = "peer" /\ asked' = asked /\ sent' = sent /\ answer' = answer
      /\ UNCHANGED shimVars /\ UNCHANGED memory /\ alive' = alive /\ pending' = pending /\ bpc' = bpc /\ out' = out
  BY DEF ShimForwards, Posted, shimVars
<1>2. ~Posted'
  BY <1>1 DEF Posted, shimVars
<1>3. Fresh'
  BY <1>1, <1>2, FreshTail
<1>4. SentIsAnswer' /\ AnswersMatch' /\ Delivery'
  BY <1>1, <1>2 DEF SentIsAnswer, AnswersMatch, Delivery, shimVars, memory
<1>5. alive => OnlyPeers(inbox')
  <2>1. Head(page) \in Frames
    BY <1>1, AnswerTyped, HeadTail
  <2> QED BY <1>1, <2>1, AnswerTyped, OnlyPeersAppend DEF Turns
<1>6. Turns'
  BY <1>1, <1>2, <1>5 DEF Turns
<1> QED BY <1>3, <1>4, <1>6

LEMMA SendAnswers ==
  ASSUME AnswerInv, ShimSends
  PROVE  SentIsAnswer' /\ Fresh' /\ Delivery' /\ Turns' /\ AnswersMatch'
<1> USE DEF AnswerInv
<1>1. /\ ~Posted /\ ~Posted' /\ UNCHANGED <<page, asked, answer, sent, meta, body, state, alive, inbox, pending, bpc, out>>
  BY DEF ShimSends, Posted, pageVars, memory, bridgeVars
<1>2. Fresh'
  BY <1>1 DEF Fresh
<1>3. SentIsAnswer' /\ AnswersMatch' /\ Delivery'
  BY <1>1 DEF SentIsAnswer, AnswersMatch, Delivery
<1>4. Turns'
  BY <1>1 DEF Turns
<1> QED BY <1>2, <1>3, <1>4

\* The request is posted: the bridge, if it lives, had nothing to do.
LEMMA PostAnswers ==
  ASSUME AnswerInv, ShimPosts
  PROVE  SentIsAnswer' /\ Fresh' /\ Delivery' /\ Turns' /\ AnswersMatch'
<1> USE DEF AnswerInv
<1>1. /\ ~Posted /\ Posted' /\ spc # "loop" /\ inbox' = Append(inbox, Head(page)) /\ state' = "IDLE"
      /\ UNCHANGED <<page, asked, answer, sent, meta, body, cur, data, alive, pending, bpc, out>>
  BY DEF ShimPosts, Posted, pageVars
<1>2. /\ cur \in Requests /\ page[1].frame = "request" /\ cur = page[1].n /\ Head(page) = page[1] /\ Head(page) \in Frames
      /\ 1 \in 1 .. Len(page)
  BY <1>1, AnswerTyped, HeadTail
<1>3. sent[cur] = <<>> /\ meta = NoChunk /\ body = <<>> /\ state = "IDLE"
  BY <1>1, <1>2 DEF Fresh, Delivery
<1>4. Fresh'
  BY <1>1 DEF Fresh
<1>5. SentIsAnswer' /\ AnswersMatch'
  BY <1>1 DEF SentIsAnswer, AnswersMatch
<1>6. Delivery'
  BY <1>1, <1>3 DEF Delivery, Delivered
<1>7. Turns'
  <2>1. alive => OnlyRequest(inbox', cur)
    BY <1>1, <1>2, AnswerTyped, OnlyPeersAppend DEF Turns
  <2> QED BY <1>1, <1>3, <2>1 DEF Turns, OnItsWay, Unanswered
<1> QED BY <1>4, <1>5, <1>6, <1>7

LEMMA LookAnswers ==
  ASSUME AnswerInv, ShimObserves \/ ShimCopies
  PROVE  SentIsAnswer' /\ Fresh' /\ Delivery' /\ Turns' /\ AnswersMatch'
<1> USE DEF AnswerInv
<1>1. /\ Posted /\ Posted' /\ UNCHANGED <<page, asked, answer, cur, meta, body>> /\ UNCHANGED memory /\ UNCHANGED bridgeVars
  BY DEF ShimObserves, ShimCopies, Posted, pageVars
<1>2. SentIsAnswer' /\ AnswersMatch' /\ Fresh'
  BY <1>1 DEF SentIsAnswer, AnswersMatch, Fresh, bridgeVars
<1>3. Delivery' /\ Turns'
  BY <1>1 DEF Delivery, Turns, Delivered, Unanswered, OnItsWay, Performed, Written, memory, bridgeVars
<1> QED BY <1>2, <1>3

\* What the shim is acting on is the next chunk of its request's answer.
LEMMA NextChunk ==
  ASSUME AnswerInv, spc = "release"
  PROVE  /\ cur \in Requests /\ sent[cur] \in Answers(cur) /\ sent[cur] \in Seq(Chunks)
         /\ Delivered \in Nat /\ Delivered + 1 \in 1 .. Len(sent[cur]) /\ Len(sent[cur]) \in Nat
         /\ payload = sent[cur][Delivered + 1] /\ payload # NoChunk
         /\ seen.state = payload.state /\ seen.flags = payload.flags
         /\ alive => Written
<1> USE DEF AnswerInv
<1>1. cur \in Requests /\ body \in Seq(Chunks) /\ sent[cur] \in Seq(Chunks)
  BY AnswerTyped
<1>2. state # "IDLE" /\ seen = [state |-> state, flags |-> flags] /\ payload = data /\ state = data.state /\ flags = data.flags
  BY DEF Base, Handover
<1>3. Delivered < Len(sent[cur]) /\ data = sent[cur][Delivered + 1]
  BY <1>2 DEF Delivery, Posted
<1>4. Delivered \in Nat /\ Len(sent[cur]) \in Nat
  BY <1>1, LenProperties DEF Delivered
<1>5. Delivered + 1 \in 1 .. Len(sent[cur])
  BY <1>3, <1>4
<1>6. sent[cur] \in Answers(cur)
  <2>1. sent[cur] # <<>>
    BY <1>3, <1>4
  <2> QED BY <1>1, <2>1 DEF SentIsAnswer
<1>7. payload # NoChunk
  BY <1>1, <1>2, <1>3, <1>5, <1>6, AnswerIs
<1>8. alive => Written
  BY <1>2 DEF Turns, Posted, OnItsWay, Performed, Unanswered
<1> QED BY <1>1, <1>2, <1>3, <1>4, <1>5, <1>6, <1>7, <1>8

\* The last chunk, or the error: XHR.send returns the whole answer.
LEMMA LastChunkAnswers ==
  ASSUME AnswerInv, spc = "release", state' = "IDLE", NEW o, Finish(o), Delivered + 1 = Len(sent[cur]),
         UNCHANGED <<asked, frames, told, wanted, seen, payload, ready, flags, data, bridgeVars>>,
         \/ o.kind = "error" /\ <<o.text>> = sent[cur]
         \/ o.kind = "ok" /\ <<o.meta>> \o o.body = sent[cur]
  PROVE  SentIsAnswer' /\ Fresh' /\ Delivery' /\ Turns' /\ AnswersMatch'
<1> USE DEF AnswerInv
<1>1. /\ spc' = "loop" /\ ~Posted' /\ page # <<>> /\ page' = Tail(page) /\ asked' = asked /\ sent' = sent
      /\ meta' = NoChunk /\ body' = <<>> /\ answer' = [answer EXCEPT ![cur] = o]
      /\ alive' = alive /\ inbox' = inbox /\ pending' = pending /\ bpc' = bpc /\ out' = out
  BY AnswerTyped DEF Finish, Posted, bridgeVars
<1>2. Fresh'
  BY <1>1, FreshTail
<1>3. SentIsAnswer' /\ Delivery'
  BY <1>1 DEF SentIsAnswer, Delivery
<1>4. ASSUME alive PROVE OnlyPeers(inbox) /\ pending = {} /\ bpc = "loop" /\ out = <<>>
  <2>1. Written /\ state # "IDLE" /\ Delivered \in Nat /\ Len(sent[cur]) \in Nat
    BY <1>4, NextChunk DEF Base, Handover
  <2>2. out \in Seq(Chunks) /\ Len(out) \in Nat
    BY AnswerTyped, LenProperties
  <2>3. Len(out) = 0
    BY <2>1, <2>2 DEF Written
  <2>4. out = <<>>
    BY <2>2, <2>3
  <2> QED BY <2>1, <2>4 DEF Written
<1>5. Turns'
  BY <1>1, <1>4 DEF Turns
<1>6. AnswersMatch'
  <2>1. cur \in Requests /\ DOMAIN answer = Requests
    BY AnswerTyped
  <2>2. answer'[cur] = o /\ \A n \in Requests : n # cur => answer'[n] = answer[n]
    BY <1>1, <2>1
  <2> QED BY <1>1, <2>2 DEF AnswersMatch
<1> QED BY <1>2, <1>3, <1>5, <1>6

\* Any chunk but the last: the shim has one chunk more.
LEMMA ChunkAnswers ==
  ASSUME AnswerInv, spc = "release", state' = "IDLE", spc' = "wait",
         UNCHANGED <<cur, answer, page, asked, frames, told, wanted, seen, payload, ready, flags, data, bridgeVars>>,
         \/ meta = NoChunk /\ meta' = payload /\ body' = body
         \/ meta # NoChunk /\ meta' = meta /\ body' = Append(body, payload),
         Delivered + 1 < Len(sent[cur])
  PROVE  SentIsAnswer' /\ Fresh' /\ Delivery' /\ Turns' /\ AnswersMatch'
<1> USE DEF AnswerInv
<1>1. /\ Posted /\ Posted' /\ sent' = sent
      /\ alive' = alive /\ inbox' = inbox /\ pending' = pending /\ bpc' = bpc /\ out' = out
  BY DEF Posted, bridgeVars
<1>2. SentIsAnswer' /\ AnswersMatch' /\ Fresh'
  BY <1>1 DEF SentIsAnswer, AnswersMatch, Fresh
<1>3. /\ Delivered \in Nat /\ Delivered + 1 \in 1 .. Len(sent[cur]) /\ Len(sent[cur]) \in Nat
      /\ payload = sent[cur][Delivered + 1] /\ payload # NoChunk /\ state # "IDLE"
  BY NextChunk DEF Base, Handover
<1>4. body \in Seq(Chunks) /\ payload \in Chunks /\ Len(body) \in Nat /\ (meta = NoChunk => Len(body) = 0)
  BY AnswerTyped, LenProperties DEF Delivery
<1>5. /\ Delivered' = Delivered + 1 /\ meta' = sent[cur][1]
      /\ \A i \in 1 .. Len(body') : body'[i] = sent[cur][i + 1]
  <2>1. CASE meta = NoChunk /\ meta' = payload /\ body' = body
    <3>1. Delivered = 0 /\ Delivered' = 1
      BY <1>3, <1>4, <2>1 DEF Delivered
    <3> QED BY <1>3, <1>4, <2>1, <3>1
  <2>2. CASE meta # NoChunk /\ meta' = meta /\ body' = Append(body, payload)
    <3>1. /\ Len(body') = Len(body) + 1 /\ body'[Len(body) + 1] = payload
          /\ \A i \in 1 .. Len(body) : body'[i] = body[i]
      BY <1>4, <2>2, Appended
    <3>2. Delivered = Len(body) + 1 /\ Delivered' = Delivered + 1
      BY <1>4, <2>2, <3>1 DEF Delivered
    <3>3. \A i \in 1 .. Len(body') : i = Len(body) + 1 \/ i \in 1 .. Len(body)
      BY <1>4, <3>1
    <3>4. meta = sent[cur][1] /\ \A i \in 1 .. Len(body) : body[i] = sent[cur][i + 1]
      BY <1>1, <2>2 DEF Delivery
    <3> QED BY <1>3, <2>2, <3>1, <3>2, <3>3, <3>4
  <2> QED BY <2>1, <2>2
<1>6. meta' # NoChunk
  BY <1>3
<1>7. Delivery'
  BY <1>1, <1>3, <1>5, <1>6 DEF Delivery
<1>8. ASSUME alive PROVE Written'
  <2>1. Written /\ Len(out) \in Nat
    BY <1>8, NextChunk, AnswerTyped, LenProperties
  <2>2. Len(out) + Delivered' + 0 = Len(sent[cur])
    BY <1>3, <1>5, <2>1 DEF Written
  <2> QED BY <1>1, <2>1, <2>2 DEF Written
<1>9. Turns'
  BY <1>1, <1>8 DEF Turns
<1> QED BY <1>2, <1>7, <1>9

LEMMA ReleaseAnswers ==
  ASSUME AnswerInv, ShimReleases
  PROVE  SentIsAnswer' /\ Fresh' /\ Delivery' /\ Turns' /\ AnswersMatch'
<1> USE DEF AnswerInv
<1> DEFINE k == Delivered + 1
           s == sent[cur]
<1>1. /\ spc = "release" /\ state' = "IDLE"
      /\ UNCHANGED <<asked, frames, told, wanted, seen, payload, ready, flags, data, bridgeVars>>
  BY DEF ShimReleases, Released
<1>2. /\ cur \in Requests /\ s \in Answers(cur) /\ s \in Seq(Chunks) /\ Len(s) \in Nat /\ Delivered \in Nat
      /\ k \in 1 .. Len(s) /\ payload = s[k] /\ payload # NoChunk
      /\ seen.state = payload.state /\ seen.flags = payload.flags
  BY <1>1, NextChunk
<1>3. /\ payload.state = "ERROR" => Len(s) = 1
      /\ payload.state # "ERROR" => ("META" \in payload.flags <=> k = 1)
      /\ payload.state # "ERROR" /\ payload.flags = {} => k = Len(s) /\ k # 1
      /\ payload.state # "ERROR" /\ payload.flags # {} => k < Len(s)
  <2> HIDE DEF k, s
  <2>1. s[k] \in Chunks /\ (s[k].state = "ERROR" => Len(s) = 1)
        /\ (s[k].state # "ERROR" => ("META" \in s[k].flags <=> k = 1))
        /\ (s[k].state # "ERROR" /\ s[k].flags = {} => k = Len(s) /\ k # 1)
        /\ (s[k].state # "ERROR" /\ s[k].flags # {} => k < Len(s))
    BY <1>2, AnswerIs
  <2> QED BY <1>2, <2>1
<1>4. (meta = NoChunk <=> k = 1) /\ body \in Seq(Chunks) /\ Len(body) \in Nat
  <2>1. body \in Seq(Chunks) /\ Len(body) \in Nat
    BY AnswerTyped, LenProperties
  <2> QED BY <2>1 DEF Delivered
<1>5. CASE seen.state = "ERROR" /\ Finish([kind |-> "error", text |-> payload])
  <2>1. Len(s) = 1 /\ k = 1
    BY <1>2, <1>3, <1>5
  <2>2. s = <<payload>>
    <3> HIDE DEF s, k
    <3> QED BY <1>2, <2>1
  <2> QED BY <1>1, <1>5, <2>1, <2>2, LastChunkAnswers
<1>6. CASE /\ seen.state # "ERROR" /\ "META" \in seen.flags
           /\ meta' = payload /\ spc' = "wait" /\ UNCHANGED <<cur, body, answer, page>>
  <2>1. meta = NoChunk
    BY <1>2, <1>3, <1>4, <1>6
  <2>2. k < Len(s)
    BY <1>2, <1>3, <1>6
  <2> QED BY <1>1, <1>6, <2>1, <2>2, ChunkAnswers
<1>7. CASE /\ seen.state # "ERROR" /\ "META" \notin seen.flags /\ "MORE" \in seen.flags
           /\ body' = Append(body, payload) /\ spc' = "wait" /\ UNCHANGED <<cur, meta, answer, page>>
  <2>1. meta # NoChunk
    BY <1>2, <1>3, <1>4, <1>7
  <2>2. k < Len(s)
    BY <1>2, <1>3, <1>7
  <2> QED BY <1>1, <1>7, <2>1, <2>2, ChunkAnswers
<1>8. CASE /\ seen.state # "ERROR" /\ seen.flags = {}
           /\ Finish(IF meta = NoChunk THEN [kind |-> "error", text |-> NoChunk]
                     ELSE [kind |-> "ok", meta |-> meta, body |-> Append(body, payload)])
  <2>1. k = Len(s) /\ k # 1 /\ meta # NoChunk
    BY <1>2, <1>3, <1>4, <1>8
  <2> DEFINE b == Append(body, payload)
             o == [kind |-> "ok", meta |-> meta, body |-> b]
  <2>2. o.kind = "ok" /\ o.meta = meta /\ o.body = b /\ Finish(o)
    BY <1>8, <2>1
  <2>3. <<meta>> \o b = s
    <3>1. /\ payload \in Chunks /\ b \in Seq(Chunks) /\ Len(b) = Len(body) + 1 /\ b[Len(body) + 1] = payload
          /\ \A i \in 1 .. Len(body) : b[i] = body[i]
      BY <1>4, AnswerTyped, Appended
    <3>2. Len(s) = Len(body) + 2 /\ k = Len(body) + 2
      BY <1>2, <1>4, <2>1 DEF Delivered
    <3>3. s[1] = meta /\ \A i \in 1 .. Len(body) : body[i] = s[i + 1]
      BY <1>1, <2>1 DEF Delivery, Posted
    <3> HIDE DEF b, s, k
    <3>4. meta \in Chunks /\ <<meta>> \in Seq(Chunks) /\ Len(<<meta>>) = 1 /\ <<meta>>[1] = meta
      BY AnswerTyped
    <3>5. /\ <<meta>> \o b \in Seq(Chunks) /\ Len(<<meta>> \o b) = Len(body) + 2
          /\ \A i \in 1 .. Len(body) + 2 : (<<meta>> \o b)[i] = IF i <= 1 THEN meta ELSE b[i - 1]
      BY <1>4, <3>1, <3>4, ConcatProperties
    <3>6. ASSUME NEW i \in 1 .. Len(s) PROVE (<<meta>> \o b)[i] = s[i]
      <4>1. CASE i = 1
        BY <3>2, <3>3, <3>5, <4>1
      <4>2. CASE i = Len(body) + 2
        <5>1. (<<meta>> \o b)[i] = b[i - 1] /\ i - 1 = Len(body) + 1
          BY <1>4, <3>5, <4>2
        <5> QED BY <1>2, <3>1, <3>2, <4>2, <5>1
      <4>3. CASE i # 1 /\ i # Len(body) + 2
        <5>1. i - 1 \in 1 .. Len(body) /\ (i - 1) + 1 = i /\ (<<meta>> \o b)[i] = b[i - 1]
          BY <1>4, <3>2, <3>5, <4>3
        <5> QED BY <3>1, <3>3, <5>1
      <4> QED BY <4>1, <4>2, <4>3
    <3> QED BY <1>2, <3>2, <3>5, <3>6, SeqEqual
  <2> HIDE DEF o, b
  <2> QED BY <1>1, <2>1, <2>2, <2>3, LastChunkAnswers
<1> QED BY <1>5, <1>6, <1>7, <1>8 DEF ShimReleases

\* The bridge reads a message: the request it meets is the shim's.
LEMMA ReceiveAnswers ==
  ASSUME AnswerInv, BridgeReceives
  PROVE  SentIsAnswer' /\ Fresh' /\ Delivery' /\ Turns' /\ AnswersMatch'
<1> USE DEF AnswerInv
<1>1. /\ alive /\ bpc = "loop" /\ inbox # <<>> /\ inbox' = Tail(inbox) /\ alive' = alive
      /\ UNCHANGED <<page, asked, answer, sent, spc, cur, meta, body, state, data, bpc, out>>
  BY DEF BridgeReceives, pageVars, shimVars, memory
<1>2. SentIsAnswer' /\ AnswersMatch' /\ Fresh' /\ Delivery'
  BY <1>1 DEF SentIsAnswer, AnswersMatch, Fresh, Delivery, Delivered, Posted
<1>3. /\ OnlyPeers(inbox) => OnlyPeers(inbox') /\ Head(inbox).frame = "peer"
      /\ \A n : OnlyRequest(inbox, n) => \/ Head(inbox).frame = "request" /\ Head(inbox).n = n /\ OnlyPeers(inbox')
                                         \/ Head(inbox).frame = "peer" /\ OnlyRequest(inbox', n)
  BY <1>1, AnswerTyped, OnlyPeersTail
<1>4. \/ Head(inbox).frame = "peer" /\ pending' = pending
      \/ Head(inbox).frame = "request" /\ pending' = pending \cup {Head(inbox).n}
  BY DEF BridgeReceives
<1>5. Unanswered' <=> Unanswered
  BY <1>1 DEF Unanswered
<1>6. ASSUME ~Posted PROVE Turns'
  BY <1>1, <1>3, <1>4, <1>6 DEF Turns, Posted
<1>7. ASSUME Posted, OnItsWay PROVE Turns'
  <2>1. OnItsWay' \/ Performed'
    BY <1>1, <1>3, <1>4, <1>5, <1>7 DEF OnItsWay, Performed
  <2> QED BY <1>1, <1>7, <2>1 DEF Turns, Posted
<1>8. ASSUME Posted, Performed PROVE Turns'
  <2>1. Performed'
    BY <1>1, <1>3, <1>4, <1>5, <1>8 DEF Performed
  <2> QED BY <1>1, <1>8, <2>1 DEF Turns, Posted
<1>9. ASSUME Posted, Written PROVE Turns'
  <2>1. Written'
    BY <1>1, <1>3, <1>4, <1>9 DEF Written, Delivered
  <2> QED BY <1>1, <1>9, <2>1 DEF Turns, Posted
<1> QED BY <1>1, <1>2, <1>6, <1>7, <1>8, <1>9 DEF Turns

\* The request settles: its answer is to be written, from the first chunk on.
LEMMA SettleAnswers ==
  ASSUME AnswerInv, NEW n \in Requests, BridgeSettles(n)
  PROVE  SentIsAnswer' /\ Fresh' /\ Delivery' /\ Turns' /\ AnswersMatch'
<1> USE DEF AnswerInv
<1>1. /\ alive /\ bpc = "loop" /\ n \in pending /\ pending' = pending \ {n} /\ bpc' = "wait" /\ alive' = alive
      /\ UNCHANGED <<page, asked, answer, spc, cur, meta, body, state, data, inbox>>
  BY DEF BridgeSettles, pageVars, shimVars, memory
<1>2. PICK a \in Answers(n) : sent' = [sent EXCEPT ![n] = a] /\ out' = a
  BY DEF BridgeSettles
<1>3. Posted /\ Performed /\ n = cur
  BY <1>1 DEF Turns, OnItsWay, Performed, Written
<1>4. /\ cur \in Requests /\ cur = page[1].n /\ page[1].frame = "request" /\ 1 \in 1 .. Len(page) /\ Posted'
  BY <1>1, <1>3, AnswerTyped DEF Posted
<1>5. sent'[cur] = a /\ \A k \in Requests : k # cur => sent'[k] = sent[k]
  BY <1>2, <1>3, AnswerTyped
<1>6. a # <<>> /\ Len(a) \in Nat /\ a \in Answers(cur)
  BY <1>2, <1>3, AnswerIs
<1>7. SentIsAnswer'
  BY <1>5, <1>6 DEF SentIsAnswer
<1>8. meta = NoChunk /\ body = <<>> /\ state = "IDLE" /\ Delivered = 0 /\ Delivered' = 0
  BY <1>1, <1>3 DEF Performed, Unanswered, Delivery, Delivered
<1>9. Fresh'
  <2>1. ASSUME NEW i \in 1 .. Len(page), page[i].frame = "request", i # 1 PROVE sent'[page[i].n] = <<>>
    <3>1. page[i].n \in Requests /\ i > 1
      BY <2>1, AnswerTyped, ElementOfSeq, FrameFacts, LenProperties
    <3>2. cur < page[i].n /\ sent[page[i].n] = <<>>
      BY <1>4, <2>1, <3>1 DEF Fresh
    <3> QED BY <1>4, <1>5, <3>1, <3>2 DEF Requests
  <2>2. ASSUME NEW k \in Requests, k > asked PROVE answer[k] = None /\ sent'[k] = <<>>
    <3>1. cur <= asked /\ asked \in Nat
      BY <1>4, AnswerTyped, BoundsAssumption DEF Fresh
    <3>2. k # cur
      BY <1>4, <2>2, <3>1 DEF Requests
    <3> QED BY <1>5, <2>2, <3>2 DEF Fresh
  <2> QED BY <1>1, <1>4, <2>1, <2>2 DEF Fresh
<1>10. Delivery'
  BY <1>1, <1>4, <1>5, <1>6, <1>8 DEF Delivery
<1>11. Written'
  <2>1. OnlyPeers(inbox') /\ pending' = {}
    BY <1>1, <1>3 DEF Performed
  <2>2. \A i \in 1 .. Len(a) : a[i] = a[Len(a) - Len(a) + i]
    BY <1>6
  <2> QED BY <1>1, <1>2, <1>5, <1>6, <1>8, <2>1, <2>2 DEF Written
<1>12. Turns'
  BY <1>1, <1>4, <1>11 DEF Turns
<1>13. AnswersMatch'
  <2>1. answer[cur].kind = "none"
    BY <1>4 DEF Fresh, None
  <2> QED BY <1>1, <1>5, <2>1 DEF AnswersMatch
<1> QED BY <1>7, <1>9, <1>10, <1>12, <1>13

\* A chunk is being put together: nothing is published.
LEMMA FillAnswers ==
  ASSUME AnswerInv, BridgeSeesIdle \/ BridgeFills \/ BridgeFlags
  PROVE  SentIsAnswer' /\ Fresh' /\ Delivery' /\ Turns' /\ AnswersMatch'
<1> USE DEF AnswerInv
<1>1. /\ alive /\ bpc # "loop" /\ bpc' # "loop" /\ state = "IDLE" /\ alive' = alive
      /\ UNCHANGED <<page, asked, answer, sent, spc, cur, meta, body, state, inbox, pending, out>>
  BY DEF BridgeSeesIdle, BridgeFills, BridgeFlags, Base, Handover, pageVars, shimVars, memory
<1>2. SentIsAnswer' /\ AnswersMatch' /\ Fresh' /\ Delivery'
  BY <1>1 DEF SentIsAnswer, AnswersMatch, Fresh, Delivery, Delivered, Posted
<1>3. Posted /\ Written /\ out # <<>>
  BY <1>1 DEF Turns, OnItsWay, Performed, Unanswered, Base, Placed
<1>4. Written'
  BY <1>1, <1>3 DEF Written, Delivered
<1> QED BY <1>1, <1>2, <1>3, <1>4 DEF Turns, Posted

LEMMA PublishAnswers ==
  ASSUME AnswerInv, BridgePublishes
  PROVE  SentIsAnswer' /\ Fresh' /\ Delivery' /\ Turns' /\ AnswersMatch'
<1> USE DEF AnswerInv
<1>1. /\ alive /\ bpc = "publish" /\ state = "IDLE" /\ alive' = alive /\ data = Head(out) /\ out # <<>>
      /\ state' = Head(out).state /\ out' = Tail(out) /\ bpc' = IF out' = <<>> THEN "loop" ELSE "wait"
      /\ UNCHANGED <<page, asked, answer, sent, spc, cur, meta, body, data, inbox, pending>>
  BY DEF BridgePublishes, Base, Placed, Handover, pageVars, shimVars
<1>2. SentIsAnswer' /\ AnswersMatch' /\ Fresh'
  BY <1>1 DEF SentIsAnswer, AnswersMatch, Fresh, Posted
<1>3. Posted /\ Written /\ Posted' /\ Delivered' = Delivered
  BY <1>1 DEF Turns, OnItsWay, Performed, Unanswered, Posted, Delivered
<1>4. /\ Len(out) \in Nat \ {0} /\ Head(out) = out[1] /\ 1 \in 1 .. Len(out) /\ Head(out) \in Chunks /\ Head(out) # NoChunk
      /\ Len(out') = Len(out) - 1 /\ \A i \in 1 .. Len(out) - 1 : out'[i] = out[i + 1]
  <2>1. out \in Seq(Chunks)
    BY AnswerTyped
  <2>2. /\ Len(out) \in Nat \ {0} /\ Head(out) = out[1] /\ 1 \in 1 .. Len(out) /\ Head(out) \in Chunks
        /\ Len(out') = Len(out) - 1 /\ \A i \in 1 .. Len(out) - 1 : out'[i] = out[i + 1]
    BY <1>1, <2>1, HeadTail
  <2> QED BY <2>2 DEF Base, Placed
<1>5. state' # "IDLE"
  BY <1>1, <1>4, ChunkFacts
<1>6. cur \in Requests /\ sent[cur] \in Seq(Chunks) /\ body \in Seq(Chunks)
  BY <1>3, AnswerTyped DEF Posted
<1>7. Len(sent[cur]) \in Nat /\ Delivered \in Nat
  BY <1>6, LenProperties DEF Delivered
<1> DEFINE L == Len(sent[cur])
<1>8. Len(out) + Delivered = L /\ L - Len(out) + 1 = Delivered + 1 /\ Delivered < L
  <2>1. Len(out) + Delivered + 0 = L
    BY <1>1, <1>3 DEF Written
  <2> HIDE DEF L
  <2>2. L \in Nat
    BY <1>7 DEF L
  <2>3. Len(out) \in Nat \ {0} /\ Delivered \in Nat
    BY <1>4, <1>7
  <2> HIDE DEF Delivered
  <2> QED BY <2>1, <2>2, <2>3
<1>9. data = sent[cur][Delivered + 1]
  <2>1. out[1] = sent[cur][L - Len(out) + 1]
    BY <1>3, <1>4 DEF Written
  <2> QED BY <1>1, <1>4, <1>8, <2>1
<1>10. Delivery'
  <2>1. meta = NoChunk => body = <<>>
    BY DEF Delivery
  <2>2. /\ meta # NoChunk => meta = sent[cur][1]
        /\ \A i \in 1 .. Len(body) : body[i] = sent[cur][i + 1]
    BY <1>3 DEF Delivery
  <2> QED BY <1>1, <1>3, <1>7, <1>8, <1>9, <2>1, <2>2 DEF Delivery
<1>11. Written'
  <2>1. \A i \in 1 .. Len(out') : out'[i] = sent[cur][L - Len(out') + i]
    <3>1. ASSUME NEW i \in 1 .. Len(out') PROVE out'[i] = sent[cur][L - Len(out') + i]
      <4>1. i + 1 \in 1 .. Len(out) /\ out'[i] = out[i + 1]
        BY <1>4
      <4>2. out[i + 1] = sent[cur][L - Len(out) + (i + 1)]
        BY <1>3, <4>1 DEF Written
      <4>3. L - Len(out) + (i + 1) = L - Len(out') + i
        <5>1. Len(out') = Len(out) - 1 /\ Len(out) \in Nat /\ L \in Nat
          BY <1>4, <1>7
        <5>2. i \in Nat
          BY <1>4
        <5> HIDE DEF L
        <5> QED BY <5>1, <5>2
      <4> QED BY <4>1, <4>2, <4>3
    <3> QED BY <3>1
  <2>2. Len(out') + Delivered + 1 = L
    BY <1>4, <1>7, <1>8
  <2>3. OnlyPeers(inbox) /\ pending = {} /\ sent[cur] # <<>>
    BY <1>3 DEF Written
  <2> QED BY <1>1, <1>3, <1>5, <2>1, <2>2, <2>3 DEF Written
<1>12. Turns'
  BY <1>1, <1>3, <1>11 DEF Turns
<1> QED BY <1>2, <1>10, <1>12

\* A live bridge that is not at work has nothing left to write, and then
\* roundTrip has its answer.
LEMMA GivesUpOnTheDead ==
  ASSUME AnswerInv, ShimGivesUp, ~late'
  PROVE  ~alive
<1> SUFFICES ASSUME alive PROVE FALSE
  OBVIOUS
<1>1. Posted /\ state = "IDLE" /\ ~AtWork
  BY DEF ShimGivesUp, Posted
<1>2. bpc = "loop" /\ pending = {} /\ \A i \in 1 .. Len(inbox) : inbox[i].frame # "request"
  BY <1>1 DEF AtWork
<1>3. Written
  BY <1>1, <1>2 DEF AnswerInv, Turns, OnItsWay, Performed, OnlyRequest
<1>4. out = <<>>
  BY <1>2 DEF AnswerInv, Base, Placed
<1>5. cur \in Requests /\ sent[cur] \in Seq(Chunks) /\ body \in Seq(Chunks)
  BY <1>1, AnswerTyped DEF AnswerInv, Posted
<1>6. Len(sent[cur]) \in Nat /\ Delivered \in Nat
  BY <1>5, LenProperties DEF Delivered
<1>7. Delivered = Len(sent[cur])
  BY <1>1, <1>3, <1>4, <1>6 DEF Written
<1>8. Delivered < Len(sent[cur])
  BY <1>1, <1>3 DEF AnswerInv, Delivery, Written
<1> QED BY <1>6, <1>7, <1>8

LEMMA NextAnswers ==
  ASSUME AnswerInv, [Next]_vars, ~late'
  PROVE  AnswerInv'
<1> SUFFICES SentIsAnswer' /\ Fresh' /\ Delivery' /\ Turns' /\ AnswersMatch'
  BY NextBase DEF AnswerInv
<1> DEFINE Goal == SentIsAnswer' /\ Fresh' /\ Delivery' /\ Turns' /\ AnswersMatch'
<1>1. ASSUME UNCHANGED <<page, asked, answer, sent, spc, cur, meta, body, state, data, inbox, pending, out, bpc>>, alive' \in {alive, FALSE}
      PROVE  Goal
  <2>1. Unanswered' <=> Unanswered
    BY <1>1 DEF Unanswered
  <2>2. OnItsWay' <=> OnItsWay
    BY <1>1, <2>1 DEF OnItsWay
  <2>3. Performed' <=> Performed
    BY <1>1, <2>1 DEF Performed
  <2>4. Written' <=> Written
    BY <1>1 DEF Written, Delivered
  <2>5. Turns'
    BY <1>1, <2>2, <2>3, <2>4 DEF AnswerInv, Turns, Posted
  <2> QED BY <1>1, <2>5 DEF AnswerInv, SentIsAnswer, AnswersMatch, Fresh, Delivery, Delivered, Posted
<1>2. CASE UNCHANGED vars \/ BridgeStarts \/ BridgeDies \/ ShimHearsError
  BY <1>1, <1>2 DEF vars, BridgeStarts, BridgeDies, ShimHearsError, pageVars, shimVars, memory, bridgeVars
<1>3. ASSUME NEW p \in Peers, PageAsks(p) \/ \E relay \in Relays \cup {NoRelay} : PageRegisters(p, relay)
      PROVE  Goal
  BY <1>3, PageAnswers
<1>4. CASE ShimFindsNoBridge
  <2>1. state = "IDLE" /\ spc = "ready"
    BY <1>4 DEF ShimFindsNoBridge, AnswerInv, Delivery, Posted
  <2> QED BY <1>4, <2>1, FailAnswers DEF ShimFindsNoBridge
<1>5. CASE ShimGivesUp
  <2>1. state = "IDLE" /\ spc = "wait" /\ ~alive
    BY <1>5, GivesUpOnTheDead DEF ShimGivesUp
  <2> QED BY <1>5, <2>1, FailAnswers DEF ShimGivesUp
<1>6. CASE ShimStep
  BY <1>4, <1>5, <1>6, ForwardAnswers, SendAnswers, PostAnswers, LookAnswers, ReleaseAnswers DEF ShimStep
<1>7. CASE BridgeStep
  BY <1>7, ReceiveAnswers, SettleAnswers, FillAnswers, PublishAnswers DEF BridgeStep, BridgeWrites
<1> QED BY <1>2, <1>3, <1>6, <1>7 DEF Next

\* A deadline missed once stays missed.
LEMMA LateStays == TypeOK /\ [Next]_vars /\ ~late' => ~late
<1> SUFFICES ASSUME TypeOK, [Next]_vars PROVE late' = late \/ ShimGivesUp
  BY DEF ShimGivesUp
<1>1. CASE UNCHANGED vars \/ ShimHearsError
  BY <1>1 DEF vars, fate, ShimHearsError
<1>2. CASE ShimStep
  BY <1>2 DEF ShimStep, ShimForwards, ShimSends, ShimFindsNoBridge, ShimPosts, ShimObserves, ShimCopies,
              ShimReleases, fate
<1>3. CASE BridgeStep \/ BridgeStarts \/ BridgeDies
  BY <1>3 DEF BridgeStep, BridgeWrites, BridgeReceives, BridgeSettles, BridgeSeesIdle, BridgeFills,
              BridgeFlags, BridgePublishes, BridgeStarts, BridgeDies, fate
<1>4. CASE \E p \in Peers : PageAsks(p) \/ \E relay \in Relays \cup {NoRelay} : PageRegisters(p, relay)
  BY <1>4 DEF PageAsks, PageRegisters, fate
<1> QED BY <1>1, <1>2, <1>3, <1>4 DEF Next

\* Until a live bridge first misses the deadline, what XHR.send gives back is
\* what the bridge settled on for that very request, whole and in order
\* (shim.js roundTrip; protocol.js on GRACE_MS, without which it does not hold).
THEOREM AnswersMatchHolds == Spec => [](late \/ AnswersMatch)
<1> DEFINE J == Base /\ (late \/ AnswerInv)
<1>1. Init => J
  BY InitBase, InitAnswers
<1>2. J /\ [Next]_vars => J'
  BY NextBase, NextAnswers, LateStays DEF Base
<1>3. J => late \/ AnswersMatch
  BY DEF AnswerInv
<1> QED BY <1>1, <1>2, <1>3, PTL DEF Spec

-----------------------------------------------------------------------------
(* The blocking call.  What the page has asked for and not been answered   *)
(* is still on its way to the shim, in order, so the shim's request is the *)
(* first that has not returned: it has the turn.                           *)

AllOnPage ==
  \A n \in Requests : n <= asked /\ answer[n] = None =>
    \E i \in 1 .. Len(page) : page[i].frame = "request" /\ page[i].n = n

CallInv == AnswerInv /\ AllOnPage

LEMMA TailOnPage ==
  ASSUME AnswerInv, AllOnPage, page # <<>>, page' = Tail(page), asked' = asked,
         \A n \in Requests : answer'[n] = None =>
           answer[n] = None /\ ~(page[1].frame = "request" /\ page[1].n = n)
  PROVE  AllOnPage'
<1> SUFFICES ASSUME NEW n \in Requests, n <= asked, answer'[n] = None
             PROVE  \E i \in 1 .. Len(page') : page'[i].frame = "request" /\ page'[i].n = n
  BY DEF AllOnPage
<1>1. PICK i \in 1 .. Len(page) : page[i].frame = "request" /\ page[i].n = n
  BY DEF AllOnPage
<1>2. /\ Len(page) \in Nat \ {0} /\ Len(page') = Len(page) - 1
      /\ \A j \in 1 .. Len(page) - 1 : page'[j] = page[j + 1]
  BY AnswerTyped, HeadTail DEF AnswerInv
<1>3. i # 1
  BY <1>1
<1>4. i - 1 \in 1 .. Len(page) - 1 /\ (i - 1) + 1 = i
  BY <1>2, <1>3
<1>5. page'[i - 1] = page[i] /\ i - 1 \in 1 .. Len(page')
  BY <1>2, <1>4
<1> QED BY <1>1, <1>5

LEMMA AppendOnPage ==
  ASSUME AnswerInv, AllOnPage, answer' = answer, NEW m \in Frames, page' = Append(page, m),
         \/ asked' = asked
         \/ m.frame = "request" /\ m.n = asked + 1 /\ asked' = asked + 1
  PROVE  AllOnPage'
<1>1. /\ Len(page) \in Nat /\ Len(page') = Len(page) + 1 /\ page'[Len(page) + 1] = m
      /\ \A i \in 1 .. Len(page) : page'[i] = page[i]
  BY AnswerTyped, Appended DEF AnswerInv
<1>2. asked \in Nat
  BY AnswerTyped, BoundsAssumption DEF AnswerInv
<1>3. SUFFICES ASSUME NEW n \in Requests, n <= asked', answer[n] = None
               PROVE  \E i \in 1 .. Len(page') : page'[i].frame = "request" /\ page'[i].n = n
  BY DEF AllOnPage
<1>4. CASE n <= asked
  <2>1. PICK i \in 1 .. Len(page) : page[i].frame = "request" /\ page[i].n = n
    BY <1>3, <1>4 DEF AllOnPage
  <2>2. i \in 1 .. Len(page') /\ page'[i] = page[i]
    BY <1>1
  <2> QED BY <2>1, <2>2
<1>5. CASE ~(n <= asked)
  <2>1. n = asked + 1 /\ m.frame = "request" /\ m.n = asked + 1
    BY <1>2, <1>3, <1>5 DEF Requests
  <2>2. Len(page) + 1 \in 1 .. Len(page')
    BY <1>1
  <2> QED BY <1>1, <2>1, <2>2
<1> QED BY <1>4, <1>5

\* An XHR.send that returns has its outcome, and its request leaves the page.
LEMMA FinishOnPage ==
  ASSUME AnswerInv, AllOnPage, spc # "loop", asked' = asked, NEW outcome, outcome.kind # "none", Finish(outcome)
  PROVE  AllOnPage'
<1>1. cur \in Requests /\ page # <<>> /\ page[1].n = cur /\ DOMAIN answer = Requests
  BY AnswerTyped DEF AnswerInv
<1>2. page' = Tail(page) /\ answer' = [answer EXCEPT ![cur] = outcome] /\ outcome # None
  BY DEF Finish, None
<1>3. ASSUME NEW n \in Requests, answer'[n] = None PROVE n # cur /\ answer[n] = None
  BY <1>1, <1>2, <1>3
<1> QED BY <1>1, <1>2, <1>3, TailOnPage

LEMMA NextOnPage ==
  ASSUME AnswerInv, AllOnPage, [Next]_vars
  PROVE  AllOnPage'
<1>1. CASE UNCHANGED <<page, asked, answer>>
  BY <1>1 DEF AllOnPage
<1>2. ASSUME NEW p \in Peers, PageAsks(p) PROVE AllOnPage'
  <2> DEFINE m == [frame |-> "request", n |-> asked + 1, peer |-> p]
  <2>1. asked \in 0 .. MaxRequests /\ asked < MaxRequests
    BY <1>2, AnswerTyped DEF AnswerInv, PageAsks
  <2>2. asked + 1 \in Requests
    BY <2>1, BoundsAssumption DEF Requests
  <2>3. m \in Frames /\ m.frame = "request" /\ m.n = asked + 1
    BY <2>2 DEF Frames, RequestFrames
  <2>4. page' = Append(page, m) /\ asked' = asked + 1 /\ answer' = answer
    BY <1>2 DEF PageAsks, shimVars
  <2> HIDE DEF m
  <2> QED BY <2>3, <2>4, AppendOnPage
<1>3. ASSUME NEW p \in Peers, NEW relay \in Relays \cup {NoRelay}, PageRegisters(p, relay) PROVE AllOnPage'
  <2> DEFINE m == [frame |-> "peer", peer |-> p, relay |-> relay]
  <2>1. m \in Frames
    BY DEF Frames, PeerFrames
  <2>2. page' = Append(page, m) /\ asked' = asked /\ answer' = answer
    BY <1>3 DEF PageRegisters, shimVars
  <2> HIDE DEF m
  <2> QED BY <2>1, <2>2, AppendOnPage
<1>4. CASE ShimForwards
  <2>1. page # <<>> /\ page' = Tail(page) /\ Head(page).frame = "peer" /\ asked' = asked /\ answer' = answer
    BY <1>4 DEF ShimForwards, shimVars
  <2>2. page[1].frame = "peer"
    BY <2>1, AnswerTyped, HeadTail DEF AnswerInv
  <2> QED BY <2>1, <2>2, TailOnPage
<1>5. CASE ShimFindsNoBridge
  BY <1>5, FinishOnPage DEF ShimFindsNoBridge
<1>6. CASE ShimGivesUp
  BY <1>6, FinishOnPage DEF ShimGivesUp
<1>7. CASE ShimReleases
  <2>1. spc # "loop" /\ asked' = asked
    BY <1>7 DEF ShimReleases
  <2>2. CASE Finish([kind |-> "error", text |-> payload])
    BY <2>1, <2>2, FinishOnPage
  <2>3. CASE UNCHANGED <<page, answer>>
    BY <1>1, <2>1, <2>3
  <2>4. CASE Finish(IF meta = NoChunk THEN [kind |-> "error", text |-> NoChunk]
                    ELSE [kind |-> "ok", meta |-> meta, body |-> Append(body, payload)])
    BY <2>1, <2>4, FinishOnPage
  <2> QED BY <1>7, <2>2, <2>3, <2>4 DEF ShimReleases
<1>8. CASE ShimSends \/ ShimPosts \/ ShimObserves \/ ShimCopies
  <2>1. UNCHANGED <<page, asked, answer>>
    BY <1>8 DEF ShimSends, ShimPosts, ShimObserves, ShimCopies, pageVars
  <2> QED BY <1>1, <2>1
<1>9. CASE BridgeStep \/ BridgeStarts \/ BridgeDies \/ ShimHearsError \/ UNCHANGED vars
  <2>1. UNCHANGED <<pageVars, shimVars>>
    BY <1>9 DEF BridgeStep, BridgeWrites, BridgeReceives, BridgeSettles, BridgeSeesIdle, BridgeFills, BridgeFlags,
                BridgePublishes, BridgeStarts, BridgeDies, ShimHearsError, vars
  <2> QED BY <1>1, <2>1 DEF pageVars, shimVars
<1> QED BY <1>2, <1>3, <1>4, <1>5, <1>6, <1>7, <1>8, <1>9 DEF Next, ShimStep

LEMMA NoneIsFailure == \A k : [kind |-> k] = None <=> k = "none"
BY DEF None

LEMMA GivenNone ==
  ASSUME TypeOK, NEW n \in Requests
  PROVE  Given(answer[n]) = <<>> <=> answer[n] = None
<1>1. PICK a : a = answer[n]
  OBVIOUS
<1>2. \/ a \in [kind : {"none", "timeout", "no bridge"}]
      \/ a \in [kind : {"error"}, text : Chunks]
      \/ a \in [kind : {"ok"}, meta : Chunks, body : Seq(Chunks)]
  BY <1>1 DEF TypeOK
<1>3. CASE a \in [kind : {"none", "timeout", "no bridge"}]
  <2>1. a = [kind |-> a.kind] /\ a.kind \in {"none", "timeout", "no bridge"}
    BY <1>3
  <2>2. a = None <=> a.kind = "none"
    BY <2>1, NoneIsFailure
  <2>3. Given(a) = IF a.kind = "none" THEN <<>> ELSE <<NoChunk>>
    BY <2>1, Zenon DEF Given
  <2>4. <<NoChunk>> # <<>>
    OBVIOUS
  <2> QED BY <1>1, <2>2, <2>3, <2>4
<1>4. CASE a \in [kind : {"error"}, text : Chunks]
  <2>1. a.kind = "error"
    BY <1>4
  <2>2. Given(a) = <<a.text>> /\ a # None
    BY <2>1 DEF Given, None
  <2> QED BY <1>1, <2>2
<1>5. CASE a \in [kind : {"ok"}, meta : Chunks, body : Seq(Chunks)]
  <2>1. a.kind = "ok" /\ a.meta \in Chunks /\ a.body \in Seq(Chunks)
    BY <1>5
  <2>2. Given(a) = <<a.meta>> \o a.body /\ a # None
    BY <2>1 DEF Given, None
  <2>3. <<a.meta>> \in Seq(Chunks) /\ Len(<<a.meta>>) = 1 /\ Len(a.body) \in Nat
    BY <2>1, LenProperties
  <2>4. Len(Given(a)) = 1 + Len(a.body)
    BY <2>1, <2>2, <2>3, ConcatProperties
  <2>5. Given(a) # <<>>
    BY <2>3, <2>4
  <2> QED BY <1>1, <2>2, <2>5
<1> QED BY <1>2, <1>3, <1>4, <1>5

\* The request the shim is at is the first that has not returned.
LEMMA HasTheTurn ==
  ASSUME CallInv, spc # "loop"
  PROVE  cur \in Requests /\ Abstract!Turn(cur)
<1> USE DEF CallInv, AnswerInv
<1>1. cur \in Requests /\ page[1].frame = "request" /\ cur = page[1].n /\ 1 \in 1 .. Len(page) /\ asked \in Nat
  BY AnswerTyped, BoundsAssumption
<1>0. \A n : n \in Requests <=> n \in Nat /\ 1 <= n /\ n <= MaxRequests
  BY BoundsAssumption DEF Requests
<1>2. cur <= asked /\ answer[cur] = None
  BY <1>1 DEF Fresh
<1>3. ASSUME NEW m \in 1 .. cur - 1, answer[m] = None PROVE FALSE
  <2>1. m \in Requests /\ m <= asked /\ m < cur
    <3>1. m \in Nat /\ m <= cur - 1 /\ cur \in Nat /\ cur <= MaxRequests /\ MaxRequests \in Nat
      BY <1>0, <1>1, BoundsAssumption
    <3> QED BY <1>0, <1>1, <1>2, <3>1
  <2>2. PICK i \in 1 .. Len(page) : page[i].frame = "request" /\ page[i].n = m
    BY <1>3, <2>1 DEF AllOnPage
  <2>3. 1 < i
    BY <1>1, <2>1, <2>2 DEF Requests
  <2>4. cur < m
    BY <1>1, <2>2, <2>3 DEF Fresh
  <2> QED BY <1>1, <2>1, <2>4 DEF Requests
<1>4. \A m \in 1 .. cur - 1 : m \in Requests
  <2>1. cur \in Nat /\ cur <= MaxRequests /\ MaxRequests \in Nat
    BY <1>0, <1>1, BoundsAssumption
  <2> QED BY <1>0, <2>1
<1>5. TypeOK
  BY DEF Base
<1> QED BY <1>1, <1>2, <1>3, <1>4, <1>5, GivenNone DEF Abstract!Turn

LEMMA InitRefines == Init => Abstract!Init
BY DEF Init, Abstract!Init, Abstract!Calls, Requests, Given, None

\* What neither asks, performs, settles, returns nor goes down is not seen.
LEMMA StutterRefines ==
  ASSUME UNCHANGED <<asked, answer, pending, sent, alive>>
  PROVE  UNCHANGED Abstract!callVars
BY DEF Abstract!callVars

LEMMA PageRefines ==
  ASSUME NEW p \in Peers, PageAsks(p) \/ \E relay \in Relays \cup {NoRelay} : PageRegisters(p, relay)
  PROVE  Abstract!Ask \/ UNCHANGED Abstract!callVars
<1>1. UNCHANGED <<answer, pending, sent, alive>>
  BY DEF PageAsks, PageRegisters, shimVars, bridgeVars
<1>2. CASE PageAsks(p)
  BY <1>1, <1>2 DEF PageAsks, Abstract!Ask
<1>3. CASE \E relay \in Relays \cup {NoRelay} : PageRegisters(p, relay)
  BY <1>1, <1>3, StutterRefines DEF PageRegisters
<1> QED BY <1>2, <1>3

\* XHR.send returns: only the result of its own request changes.
LEMMA ResultOf ==
  ASSUME CallInv, spc # "loop", NEW outcome, Finish(outcome)
  PROVE  [n \in Requests |-> Given(answer[n])]' = [[n \in Requests |-> Given(answer[n])] EXCEPT ![cur] = Given(outcome)]
<1>1. cur \in Requests /\ DOMAIN answer = Requests /\ answer' = [answer EXCEPT ![cur] = outcome]
  BY AnswerTyped DEF CallInv, AnswerInv, Finish
<1>2. answer'[cur] = outcome /\ \A n \in Requests \ {cur} : answer'[n] = answer[n]
  BY <1>1
<1> QED BY <1>1, <1>2

LEMMA FailRefines ==
  ASSUME CallInv, ShimFindsNoBridge \/ ShimGivesUp, ~late'
  PROVE  \E n \in Requests : Abstract!Fail(n)
<1>1. spc # "loop" /\ UNCHANGED <<asked, bridgeVars>>
  BY DEF ShimFindsNoBridge, ShimGivesUp
<1>2. PICK kind \in {"timeout", "no bridge"} : Finish([kind |-> kind])
  BY DEF ShimFindsNoBridge, ShimGivesUp
<1>3. Given([kind |-> kind]) = <<NoChunk>>
  BY DEF Given
<1>4. cur \in Requests /\ Abstract!Turn(cur)
  BY <1>1, HasTheTurn
<1>5. ~alive \/ cur \notin pending \cup {n \in Requests : sent[n] # <<>>}
  <2>1. CASE ShimFindsNoBridge
    <3>1. ~Posted /\ page[1].frame = "request" /\ cur = page[1].n /\ 1 \in 1 .. Len(page)
      BY <1>1, <2>1, AnswerTyped DEF ShimFindsNoBridge, Posted, CallInv, AnswerInv
    <3> QED BY <3>1 DEF CallInv, AnswerInv, Fresh, Turns
  <2>2. CASE ShimGivesUp
    BY <2>2, GivesUpOnTheDead DEF CallInv
  <2> QED BY <2>1, <2>2
<1>6. [n \in Requests |-> Given(answer[n])]' = [[n \in Requests |-> Given(answer[n])] EXCEPT ![cur] = <<NoChunk>>]
  BY <1>1, <1>2, <1>3, ResultOf
<1>7. UNCHANGED <<asked, pending, sent, alive>>
  BY <1>1 DEF bridgeVars
<1> QED BY <1>4, <1>5, <1>6, <1>7 DEF Abstract!Fail

\* The last chunk, or the error: the whole answer.
LEMMA ReturnRefines ==
  ASSUME CallInv, AnswerInv', ShimReleases
  PROVE  (\E n \in Requests : Abstract!Return(n)) \/ UNCHANGED Abstract!callVars
<1>1. spc = "release" /\ UNCHANGED <<asked, bridgeVars>>
  BY DEF ShimReleases
<1>2. UNCHANGED <<asked, pending, sent, alive>>
  BY <1>1 DEF bridgeVars
<1>3. CASE UNCHANGED answer
  BY <1>2, <1>3, StutterRefines
<1>4. ASSUME NEW outcome, outcome.kind = "error" \/ outcome.kind = "ok", Finish(outcome)
      PROVE  \E n \in Requests : Abstract!Return(n)
  <2>1. cur \in Requests /\ sent[cur] \in Answers(cur) /\ sent[cur] # <<>>
    BY <1>1, NextChunk, AnswerIs DEF CallInv
  <2>2. Abstract!Turn(cur)
    BY <1>1, HasTheTurn
  <2>3. answer'[cur] = outcome
    BY <1>4, <2>1, AnswerTyped DEF CallInv, AnswerInv, Finish
  <2>4. Given(outcome) = sent[cur]
    <3>1. /\ outcome.kind = "ok" => <<outcome.meta>> \o outcome.body = sent[cur]
          /\ outcome.kind = "error" => <<outcome.text>> = sent[cur]
      BY <1>2, <2>1, <2>3 DEF AnswerInv, AnswersMatch
    <3> QED BY <1>4, <3>1 DEF Given
  <2>5. [n \in Requests |-> Given(answer[n])]' = [[n \in Requests |-> Given(answer[n])] EXCEPT ![cur] = sent[cur]]
    BY <1>1, <1>4, <2>4, ResultOf
  <2> QED BY <1>2, <2>1, <2>2, <2>5 DEF Abstract!Return
<1>5. CASE Finish([kind |-> "error", text |-> payload])
  BY <1>4, <1>5
<1>6. CASE Finish(IF meta = NoChunk THEN [kind |-> "error", text |-> NoChunk]
                  ELSE [kind |-> "ok", meta |-> meta, body |-> Append(body, payload)])
  BY <1>4, <1>6
<1> QED BY <1>3, <1>5, <1>6 DEF ShimReleases

\* A request that is read is the shim's, and is read for the first time.
LEMMA ReceiveRefines ==
  ASSUME CallInv, BridgeReceives
  PROVE  (\E n \in Requests : Abstract!Perform(n)) \/ UNCHANGED Abstract!callVars
<1> USE DEF CallInv, AnswerInv
<1>1. /\ alive /\ inbox # <<>> /\ UNCHANGED <<asked, answer, sent, alive>>
      /\ \/ Head(inbox).frame = "peer" /\ pending' = pending
         \/ Head(inbox).frame = "request" /\ pending' = pending \cup {Head(inbox).n}
  BY DEF BridgeReceives, pageVars, shimVars
<1>2. CASE pending' = pending
  BY <1>1, <1>2, StutterRefines
<1>3. CASE Head(inbox).frame = "request" /\ pending' = pending \cup {Head(inbox).n}
  <2>1. Head(inbox) = inbox[1] /\ 1 \in 1 .. Len(inbox)
    BY <1>1, AnswerTyped, HeadTail
  <2>2. ~OnlyPeers(inbox)
    BY <1>3, <2>1 DEF OnlyPeers
  <2>3. Posted /\ OnItsWay
    BY <1>1, <2>2 DEF Turns, Performed, Written
  <2>4. Head(inbox).n = cur
    BY <1>3, <2>1, <2>3 DEF OnItsWay, OnlyRequest
  <2>5. cur \in Requests /\ Abstract!Turn(cur)
    BY <2>3, HasTheTurn DEF Posted
  <2>6. cur \notin pending \cup {n \in Requests : sent[n] # <<>>}
    BY <2>3 DEF OnItsWay, Unanswered
  <2>7. (pending \cup {n \in Requests : sent[n] # <<>>})' = (pending \cup {n \in Requests : sent[n] # <<>>}) \cup {cur}
    BY <1>1, <1>3, <2>4
  <2> QED BY <1>1, <2>5, <2>6, <2>7 DEF Abstract!Perform
<1> QED BY <1>1, <1>2, <1>3

\* What settles is the shim's request, which has not settled before.
LEMMA SettleRefines ==
  ASSUME CallInv, NEW n \in Requests, BridgeSettles(n)
  PROVE  Abstract!Settle(n)
<1> USE DEF CallInv, AnswerInv
<1>1. alive /\ n \in pending /\ pending' = pending \ {n} /\ UNCHANGED <<asked, answer, alive>>
  BY DEF BridgeSettles, pageVars, shimVars
<1>2. PICK a \in Answers(n) : sent' = [sent EXCEPT ![n] = a]
  BY DEF BridgeSettles
<1>3. a # <<>> /\ a \in UNION {Answers(m) : m \in Requests}
  BY AnswerIs
<1>4. Posted /\ Performed /\ n = cur
  BY <1>1 DEF Turns, OnItsWay, Performed, Written
<1>5. Abstract!Turn(n) /\ sent[n] = <<>>
  BY <1>4, HasTheTurn DEF Posted, Performed, Unanswered
<1>6. (pending \cup {m \in Requests : sent[m] # <<>>})' = pending \cup {m \in Requests : sent[m] # <<>>}
  <2>1. sent'[n] = a /\ \A m \in Requests \ {n} : sent'[m] = sent[m]
    BY <1>2, AnswerTyped
  <2> QED BY <1>1, <1>3, <2>1
<1> QED BY <1>1, <1>2, <1>3, <1>5, <1>6 DEF Abstract!Settle

LEMMA NextRefines ==
  ASSUME CallInv, AnswerInv', [Next]_vars, ~late'
  PROVE  Abstract!Step \/ UNCHANGED Abstract!callVars
<1>1. CASE ShimForwards \/ ShimSends \/ ShimPosts \/ ShimObserves \/ ShimCopies
  <2>1. UNCHANGED <<asked, answer, pending, sent, alive>>
    BY <1>1 DEF ShimForwards, ShimSends, ShimPosts, ShimObserves, ShimCopies, pageVars, shimVars, bridgeVars
  <2> QED BY <2>1, StutterRefines
<1>2. CASE ShimFindsNoBridge \/ ShimGivesUp \/ ShimReleases
  <2>1. (\E n \in Abstract!Calls : Abstract!Fail(n) \/ Abstract!Return(n)) \/ UNCHANGED Abstract!callVars
    BY <1>2, FailRefines, ReturnRefines DEF Abstract!Calls, Requests
  <2> QED BY <2>1 DEF Abstract!Step
<1>3. CASE BridgeReceives
  BY <1>3, ReceiveRefines DEF Abstract!Step, Abstract!Calls, Requests
<1>4. ASSUME NEW n \in Requests, BridgeSettles(n) PROVE Abstract!Step
  BY <1>4, SettleRefines DEF Abstract!Step, Abstract!Calls, Requests
<1>5. CASE BridgeWrites \/ BridgeStarts \/ ShimHearsError \/ UNCHANGED vars
  <2>1. UNCHANGED <<asked, answer, pending, sent, alive>>
    BY <1>5 DEF BridgeWrites, BridgeSeesIdle, BridgeFills, BridgeFlags, BridgePublishes, BridgeStarts,
                ShimHearsError, vars, pageVars, shimVars, bridgeVars
  <2> QED BY <2>1, StutterRefines
<1>6. CASE BridgeDies
  BY <1>6 DEF BridgeDies, pageVars, shimVars, Abstract!Step, Abstract!GoDown
<1>7. CASE \E p \in Peers : PageAsks(p) \/ \E relay \in Relays \cup {NoRelay} : PageRegisters(p, relay)
  BY <1>7, PageRefines DEF Abstract!Step
<1> QED BY <1>1, <1>2, <1>3, <1>4, <1>5, <1>6, <1>7 DEF Next, ShimStep, BridgeStep

\* Until a live bridge first misses the deadline, shim and bridge are a
\* blocking call (shim.js roundTrip, bridge-worker.js): each request is
\* performed at most once and only in its turn, returns what it settled on,
\* and if it fails beside a live bridge it has not been and will not be
\* performed.
THEOREM ShimBridgeImplementsBlockingCall == Spec => ImplementsBlockingCall
<1> DEFINE J == Base /\ (late \/ CallInv)
<1>1. Init => J
  <2>1. Init => AllOnPage
    BY BoundsAssumption DEF Init, AllOnPage, Requests
  <2> QED BY <2>1, InitBase, InitAnswers DEF CallInv
<1>2. J /\ [Next]_vars => J'
  BY NextBase, NextAnswers, NextOnPage, LateStays DEF CallInv, Base
<1>3. J /\ J' /\ [Next]_vars => [Abstract!Next]_(Abstract!vars)
  <2> SUFFICES ASSUME J, J', [Next]_vars PROVE Abstract!Next
    OBVIOUS
  <2>1. CASE late'
    BY <2>1 DEF Abstract!Next
  <2>2. CASE ~late'
    <3>1. ~late /\ CallInv /\ CallInv'
      BY <2>2, LateStays DEF Base
    <3>2. Abstract!Step \/ UNCHANGED Abstract!callVars
      BY <2>2, <3>1, NextRefines DEF CallInv
    <3>3. late' = late
      BY <2>2, <3>1 DEF Base, TypeOK
    <3> QED BY <3>2, <3>3 DEF Abstract!Next
  <2> QED BY <2>1, <2>2
<1> QED BY <1>1, <1>2, <1>3, InitRefines, PTL DEF Spec, ImplementsBlockingCall, Abstract!Spec
=============================================================================
