--------------------------- MODULE TerminalProofs ---------------------------
(***************************************************************************)
(* Proofs about Terminal, for any set of callers and texts and any bound   *)
(* on the line and on what the page says of itself.                        *)
(*                                                                         *)
(* Argument: unless something was overlooked, the line holds keys only and *)
(* the count is not behind it (LineIsCounted), so where the page finds it  *)
(* at zero the line is empty and what it types is alone there.  Whatever   *)
(* was overlooked, every statement of a caller's that the shell holds was  *)
(* typed, once, and has not run (PiecesAccounted), every text called back  *)
(* is that of a caller whose own statement ran, and the one caller that    *)
(* waits is the one whose turn it is (WaiterHasTheTurn), its statement     *)
(* still to run (EndedWereSent): what settles it is its own statement, or  *)
(* somebody else was typed with the same text.                             *)
(***************************************************************************)
EXTENDS Terminal, SequenceTheorems, TLAPS

\* What is on a line, and what the shell has in hand.
On(l) == {l[i] : i \in DOMAIN l}
Held == On(line) \cup On(running)

\* Where a call is once its statement was typed.
Sent == {"typed", "answered", "timeout"}

\* What keeps the page from typing into a line that somebody has begun.
LineIsCounted == ~overlooked => Len(line) <= promptLen /\ On(line) \subseteq Keys

\* The line is open only where the shell waits at its prompt.
LineAtPrompt == line # <<>> => AtPrompt

\* The one who waits is the one whose turn it is: no waiter is dropped by
\* another's, whatever ends the turn.
WaiterHasTheTurn ==
  /\ \A c \in pending : HasTurn(c)
  /\ \A c \in Callers : at[c] = "typed" <=> c \in pending

\* Where what the shell has in hand comes from.
PiecesAccounted ==
  /\ \A c \in Callers : c \in Held => at[c] \in Sent /\ c \notin ended
  /\ \A t \in Texts : t \in Held => \E d \in ended : TextOf[d] = t

EndedWereSent == \A c \in ended : at[c] \in Sent /\ c \notin pending

AnsweredIsKnown == \A c \in Callers : at[c] = "answered" => c \in ended \/ HasTwin(c)

ShellTyped ==
  /\ ready \in BOOLEAN
  /\ line \in Seq(Pieces)
  /\ cursor \in 0 .. Len(line)
  /\ running \in Seq(Pieces)
  /\ promptLen \in 0 .. MaxLine
  /\ strip \in {"hidden", "armed", "shown"}
  /\ dot \in {"still", "busy", "pulsing"}
  /\ overlooked \in BOOLEAN

CallsTyped ==
  /\ queue \in Seq(Callers)
  /\ at \in [Callers -> {"new", "queued", "typed"} \cup Outcomes]
  /\ pending \subseteq Callers
  /\ ended \subseteq Callers

PageTyped ==
  greeted \in BOOLEAN /\ tries \in 0 .. MaxTries /\ announced \in 0 .. MaxAnnounced

ShellInv == ShellTyped /\ LineIsCounted /\ LineAtPrompt /\ ActivityIsTrue

CallInv == CallsTyped /\ WaiterHasTheTurn /\ PiecesAccounted /\ EndedWereSent /\ AnsweredIsKnown

IInv == ShellInv /\ CallInv /\ PageTyped

-----------------------------------------------------------------------------
LEMMA Types == IInv => TypeOK
BY DEF IInv, ShellInv, CallInv, ShellTyped, CallsTyped, PageTyped, TypeOK

\* Nothing was typed for a call that was told so.
LEMMA NobodyIsMisled == IInv => OutcomesAreTrue
<1> SUFFICES ASSUME IInv PROVE OutcomesAreTrue
  OBVIOUS
<1>1. ASSUME NEW c \in Callers, at[c] \in {"new", "queued", "refused", "busy"}
      PROVE  c \notin ended /\ \A i \in DOMAIN running : running[i] # c
  <2>1. at[c] \notin Sent
    BY <1>1 DEF Sent
  <2> QED BY <2>1 DEF IInv, CallInv, EndedWereSent, PiecesAccounted, Held, On
<1> QED BY <1>1 DEF IInv, CallInv, AnsweredIsKnown, OutcomesAreTrue, RefusedNeverRan

\* No statement of the page's is a key of the visitor's, no caller's is the
\* page's own, and no text is any of these.
LEMMA PiecesApart ==
  /\ Keys \cap Statements = {}
  /\ \A c \in Callers : c \notin {"key", "end", "greeting", "announcement"}
  /\ \A t \in Texts : t \notin Callers \cup {"key", "end", "greeting", "announcement"}
BY CallersAssumption DEF Keys, Statements

LEMMA InitIInv == Init => IInv
<1> SUFFICES ASSUME Init PROVE IInv
  OBVIOUS
<1>1. ShellTyped
  <2>1. line \in Seq(Pieces) /\ running \in Seq(Pieces) /\ Len(line) = 0
    BY DEF Init
  <2>2. promptLen \in 0 .. MaxLine
    BY CountsAssumption DEF Init
  <2>3. cursor \in 0 .. Len(line)
    BY <2>1 DEF Init
  <2>4. ready \in BOOLEAN /\ overlooked \in BOOLEAN
    BY DEF Init
  <2>5. strip \in {"hidden", "armed", "shown"} /\ dot \in {"still", "busy", "pulsing"}
    BY DEF Init
  <2> QED BY <2>1, <2>2, <2>3, <2>4, <2>5 DEF ShellTyped
<1>2. CallsTyped
  <2>1. queue \in Seq(Callers)
    BY DEF Init
  <2>2. at \in [Callers -> {"new", "queued", "typed"} \cup Outcomes]
    BY DEF Init
  <2>3. pending \subseteq Callers /\ ended \subseteq Callers
    BY DEF Init
  <2> QED BY <2>1, <2>2, <2>3 DEF CallsTyped
<1>3. PageTyped
  <2>1. greeted \in BOOLEAN
    BY DEF Init
  <2>2. tries \in 0 .. MaxTries /\ announced \in 0 .. MaxAnnounced
    BY CountsAssumption DEF Init
  <2> QED BY <2>1, <2>2 DEF PageTyped
<1>4. On(line) = {} /\ On(running) = {}
  BY DEF Init, On
<1>5. LineIsCounted /\ LineAtPrompt /\ ActivityIsTrue
  BY <1>4, CountsAssumption DEF Init, LineIsCounted, LineAtPrompt, ActivityIsTrue
<1>6. WaiterHasTheTurn /\ PiecesAccounted /\ EndedWereSent /\ AnsweredIsKnown
  BY <1>4 DEF Init, WaiterHasTheTurn, PiecesAccounted, Held, EndedWereSent, AnsweredIsKnown
<1> QED BY <1>1, <1>2, <1>3, <1>5, <1>6 DEF IInv, ShellInv, CallInv

-----------------------------------------------------------------------------
(* Lines.                                                                  *)

\* A part of a line.
LEMMA PartOf ==
  ASSUME NEW l \in Seq(Pieces), NEW i \in 1 .. Len(l) + 1, NEW j \in 0 .. Len(l), i <= j + 1
  PROVE  /\ SubSeq(l, i, j) \in Seq(Pieces)
         /\ Len(SubSeq(l, i, j)) = j - i + 1
         /\ On(SubSeq(l, i, j)) \subseteq On(l)
<1>1. Len(l) \in Nat /\ DOMAIN l = 1 .. Len(l)
  BY LenProperties
<1>2. \A k \in i .. j : l[k] \in Pieces
  BY <1>1, ElementOfSeq
<1>3. /\ SubSeq(l, i, j) \in Seq(Pieces)
      /\ Len(SubSeq(l, i, j)) = IF i <= j THEN j - i + 1 ELSE 0
      /\ \A k \in 1 .. j - i + 1 : SubSeq(l, i, j)[k] = l[i + k - 1]
  <2>1. i \in Int /\ j \in Int
    BY <1>1
  <2> HIDE DEF On
  <2> QED BY <1>2, <2>1, SubSeqProperties
<1>4. Len(SubSeq(l, i, j)) = j - i + 1
  BY <1>1, <1>3
<1>5. DOMAIN SubSeq(l, i, j) = 1 .. j - i + 1
  BY <1>3, <1>4, LenProperties
<1>6. \A k \in 1 .. j - i + 1 : i + k - 1 \in DOMAIN l
  BY <1>1
<1>7. \A k \in DOMAIN SubSeq(l, i, j) : SubSeq(l, i, j)[k] \in On(l)
  BY <1>3, <1>5, <1>6 DEF On
<1>8. On(SubSeq(l, i, j)) \subseteq On(l)
  BY <1>7 DEF On
<1> QED BY <1>3, <1>4, <1>8

\* One line after another.
LEMMA Joined ==
  ASSUME NEW l \in Seq(Pieces), NEW m \in Seq(Pieces)
  PROVE  /\ l \o m \in Seq(Pieces)
         /\ Len(l \o m) = Len(l) + Len(m)
         /\ On(l \o m) \subseteq On(l) \cup On(m)
<1>1. /\ Len(l) \in Nat /\ DOMAIN l = 1 .. Len(l)
      /\ Len(m) \in Nat /\ DOMAIN m = 1 .. Len(m)
  BY LenProperties
<1>2. /\ l \o m \in Seq(Pieces) /\ Len(l \o m) = Len(l) + Len(m)
      /\ \A i \in 1 .. Len(l) + Len(m) : (l \o m)[i] = IF i <= Len(l) THEN l[i] ELSE m[i - Len(l)]
  BY ConcatProperties
<1>3. DOMAIN (l \o m) = 1 .. Len(l) + Len(m)
  BY <1>2, LenProperties
<1>4. \A i \in DOMAIN (l \o m) : (l \o m)[i] \in On(l) \cup On(m)
  <2> SUFFICES ASSUME NEW i \in 1 .. Len(l) + Len(m) PROVE (l \o m)[i] \in On(l) \cup On(m)
    BY <1>3
  <2>1. CASE i <= Len(l)
    BY <1>1, <1>2, <2>1 DEF On
  <2>2. CASE i > Len(l)
    <3>1. i - Len(l) \in DOMAIN m /\ (l \o m)[i] = m[i - Len(l)]
      BY <1>1, <1>2, <2>2
    <3> QED BY <3>1 DEF On
  <2> QED BY <1>1, <2>1, <2>2
<1>5. On(l \o m) \subseteq On(l) \cup On(m)
  BY <1>4 DEF On
<1> QED BY <1>2, <1>5

\* What is typed at the cursor adds to the line what is typed.
LEMMA TypedIn ==
  ASSUME ShellTyped, NEW p \in Seq(Pieces)
  PROVE  /\ Typed(p) \in Seq(Pieces) /\ Len(Typed(p)) = Len(line) + Len(p)
         /\ On(Typed(p)) \subseteq On(line) \cup On(p)
         /\ cursor + Len(p) \in 0 .. Len(Typed(p))
<1>1. line \in Seq(Pieces) /\ Len(line) \in Nat /\ cursor \in 0 .. Len(line) /\ Len(p) \in Nat
  BY LenProperties DEF ShellTyped
<1> DEFINE left == SubSeq(line, 1, cursor)
           right == SubSeq(line, cursor + 1, Len(line))
<1>2. left \in Seq(Pieces) /\ Len(left) = cursor /\ On(left) \subseteq On(line)
  <2>1. 1 \in 1 .. Len(line) + 1 /\ cursor \in 0 .. Len(line) /\ 1 <= cursor + 1
    BY <1>1
  <2>2. cursor - 1 + 1 = cursor
    BY <1>1
  <2> QED BY <1>1, <2>1, <2>2, PartOf
<1>3. right \in Seq(Pieces) /\ Len(right) = Len(line) - cursor /\ On(right) \subseteq On(line)
  <2>1. cursor + 1 \in 1 .. Len(line) + 1 /\ Len(line) \in 0 .. Len(line) /\ cursor + 1 <= Len(line) + 1
    BY <1>1
  <2>2. Len(line) - (cursor + 1) + 1 = Len(line) - cursor
    BY <1>1
  <2> QED BY <1>1, <2>1, <2>2, PartOf
<1> HIDE DEF left, right
<1>4. /\ left \o p \in Seq(Pieces) /\ Len(left \o p) = cursor + Len(p)
      /\ On(left \o p) \subseteq On(line) \cup On(p)
  BY <1>2, Joined
<1>5. /\ (left \o p) \o right \in Seq(Pieces)
      /\ Len((left \o p) \o right) = cursor + Len(p) + (Len(line) - cursor)
      /\ On((left \o p) \o right) \subseteq On(line) \cup On(p)
  BY <1>3, <1>4, Joined
<1>6. Typed(p) = (left \o p) \o right
  BY DEF Typed, left, right
<1>7. cursor + Len(p) + (Len(line) - cursor) = Len(line) + Len(p)
  BY <1>1
<1>8. /\ Typed(p) \in Seq(Pieces) /\ Len(Typed(p)) = Len(line) + Len(p)
      /\ On(Typed(p)) \subseteq On(line) \cup On(p)
  BY <1>5, <1>6, <1>7
<1>9. cursor + Len(p) \in 0 .. Len(line) + Len(p)
  BY <1>1
<1> QED BY <1>8, <1>9

\* Without what a Backspace deletes, the line is a piece shorter, or one of
\* its pieces is keys.
LEMMA ErasedFrom ==
  ASSUME ShellTyped, cursor > 0
  PROVE  /\ Erased \in Seq(Pieces) /\ On(Erased) \subseteq On(line) \cup Keys
         /\ Len(Erased) = IF line[cursor] \in Keys THEN Len(line) - 1 ELSE Len(line)
<1>1. /\ line \in Seq(Pieces) /\ Len(line) \in Nat /\ cursor \in 1 .. Len(line)
      /\ DOMAIN line = 1 .. Len(line)
  BY LenProperties DEF ShellTyped
<1>2. CASE line[cursor] \in Keys
  <2> DEFINE left == SubSeq(line, 1, cursor - 1)
             right == SubSeq(line, cursor + 1, Len(line))
  <2>1. left \in Seq(Pieces) /\ Len(left) = cursor - 1 /\ On(left) \subseteq On(line)
    <3>1. 1 \in 1 .. Len(line) + 1 /\ cursor - 1 \in 0 .. Len(line) /\ 1 <= (cursor - 1) + 1
      BY <1>1
    <3>2. (cursor - 1) - 1 + 1 = cursor - 1
      BY <1>1
    <3> QED BY <1>1, <3>1, <3>2, PartOf
  <2>2. right \in Seq(Pieces) /\ Len(right) = Len(line) - cursor /\ On(right) \subseteq On(line)
    <3>1. cursor + 1 \in 1 .. Len(line) + 1 /\ Len(line) \in 0 .. Len(line) /\ cursor + 1 <= Len(line) + 1
      BY <1>1
    <3>2. Len(line) - (cursor + 1) + 1 = Len(line) - cursor
      BY <1>1
    <3> QED BY <1>1, <3>1, <3>2, PartOf
  <2> HIDE DEF left, right
  <2>3. /\ left \o right \in Seq(Pieces) /\ Len(left \o right) = (cursor - 1) + (Len(line) - cursor)
        /\ On(left \o right) \subseteq On(line)
    BY <2>1, <2>2, Joined
  <2>4. Erased = left \o right
    BY <1>2 DEF Erased, left, right
  <2>5. (cursor - 1) + (Len(line) - cursor) = Len(line) - 1
    BY <1>1
  <2> QED BY <1>2, <2>3, <2>4, <2>5
<1>3. CASE line[cursor] \notin Keys
  <2>1. "key" \in Pieces /\ "key" \in Keys
    BY DEF Pieces, Keys
  <2>2. /\ Erased \in Seq(Pieces) /\ Len(Erased) = Len(line)
        /\ \A j \in 1 .. Len(line) : Erased[j] = IF j = cursor THEN "key" ELSE line[j]
    BY <1>1, <1>3, <2>1, ExceptSeq DEF Erased
  <2>3. DOMAIN Erased = 1 .. Len(line)
    BY <2>2, LenProperties
  <2>4. On(Erased) \subseteq On(line) \cup Keys
    BY <1>1, <2>1, <2>2, <2>3 DEF On
  <2> QED BY <1>3, <2>2, <2>4
<1> QED BY <1>2, <1>3

LEMMA OnOne == \A p : On(<<p>>) = {p} /\ On(<<>>) = {}
BY DEF On

-----------------------------------------------------------------------------
(* The shell.                                                              *)

LEMMA OverlookedTyped ==
  ASSUME NEW more, Overlooks(more)
  PROVE  overlooked' \in BOOLEAN /\ (line' # <<>> /\ ~overlooked' => ~overlooked /\ ~more)
<1>1. overlooked' = (line' # <<>> /\ (overlooked \/ more))
  BY DEF Overlooks
<1> QED BY <1>1

\* A line is put to the shell, open or handed over.
LEMMA SubmitsKeeps ==
  ASSUME ShellInv, AtPrompt, NEW l \in Seq(Pieces), Submits(l), promptLen' = 0, ready' = ready,
         overlooked' \in BOOLEAN,
         line' # <<>> => overlooked'
  PROVE  /\ ShellInv' /\ Held' \subseteq On(l)
         /\ running' # running => running' = l
<1> USE DEF ShellInv
<1>1. running = <<>> /\ 0 \in 0 .. MaxLine /\ Len(l) \in Nat
  BY CountsAssumption, LenProperties DEF AtPrompt
<1>2. CASE Finished(l)
  <2>1. /\ running' = l /\ line' = <<>> /\ cursor' = 0 /\ strip' = "armed" /\ dot' \in {dot, "busy"}
        /\ l # <<>>
    BY <1>2 DEF Submits, startActivity, Edits, Finished
  <2>2. ShellTyped'
    BY <1>1, <2>1 DEF ShellTyped
  <2>3. LineIsCounted' /\ LineAtPrompt' /\ ActivityIsTrue'
    BY <2>1, OnOne DEF LineIsCounted, LineAtPrompt, ActivityIsTrue
  <2> QED BY <2>1, <2>2, <2>3, OnOne DEF Held
<1>3. CASE ~Finished(l)
  <2>1. /\ running' = running /\ line' = l /\ cursor' = Len(l) /\ strip' = strip /\ dot' = dot
    BY <1>3 DEF Submits, activityVars, Edits
  <2>2. ShellTyped'
    BY <1>1, <2>1 DEF ShellTyped
  <2>3. LineIsCounted' /\ LineAtPrompt' /\ ActivityIsTrue'
    <3>1. LineIsCounted'
      <4>1. CASE line' = <<>>
        BY <4>1, OnOne DEF LineIsCounted
      <4>2. CASE line' # <<>>
        BY <4>2 DEF LineIsCounted
      <4> QED BY <4>1, <4>2
    <3>2. LineAtPrompt' /\ ActivityIsTrue'
      BY <1>1, <2>1 DEF LineAtPrompt, AtPrompt, ActivityIsTrue
    <3> QED BY <3>1, <3>2
  <2> QED BY <1>1, <2>1, <2>2, <2>3, OnOne DEF Held
<1> QED BY <1>2, <1>3

\* The line is edited at the prompt, and nothing else.
LEMMA EditsKeeps ==
  ASSUME ShellInv, line' # <<>> => AtPrompt, UNCHANGED <<ready, running, strip, dot>>,
         line' \in Seq(Pieces), cursor' \in 0 .. Len(line'), promptLen' \in 0 .. MaxLine,
         overlooked' \in BOOLEAN, LineIsCounted'
  PROVE  ShellInv'
<1> USE DEF ShellInv
<1>1. ShellTyped'
  BY DEF ShellTyped
<1>2. LineAtPrompt' /\ ActivityIsTrue'
  BY DEF LineAtPrompt, AtPrompt, ActivityIsTrue
<1> QED BY <1>1, <1>2

LEMMA KeyedKeeps ==
  ASSUME ShellInv, NEW p \in Seq(Pieces), On(p) \subseteq Keys, Len(p) > 0,
         NEW counted \in Nat, Keyed(p, counted)
  PROVE  ShellInv' /\ running' = running /\ Held' \subseteq Held \cup Keys
<1> USE DEF ShellInv
<1>1. /\ UNCHANGED <<ready, running, strip, dot>>
      /\ promptLen \in Nat /\ Len(line) \in Nat /\ Len(p) \in Nat
      /\ promptLen' = promptLen + counted /\ promptLen' \in 0 .. MaxLine
      /\ Overlooks(AtPrompt /\ Len(p) > counted)
  BY CountsAssumption, LenProperties DEF Keyed, ShellTyped, activityVars
<1>2. /\ overlooked' \in BOOLEAN
      /\ line' # <<>> /\ ~overlooked' => ~overlooked /\ ~(AtPrompt /\ Len(p) > counted)
  BY <1>1, OverlookedTyped
<1>3. CASE AtPrompt
  <2>1. line' = Typed(p) /\ cursor' = cursor + Len(p)
    BY <1>3 DEF Keyed, Edits
  <2>2. /\ line' \in Seq(Pieces) /\ Len(line') = Len(line) + Len(p)
        /\ On(line') \subseteq On(line) \cup Keys /\ cursor' \in 0 .. Len(line')
    BY <2>1, TypedIn
  <2>3. line' # <<>>
    BY <1>1, <2>2
  <2>4. LineIsCounted'
    BY <1>1, <1>2, <1>3, <2>2, <2>3 DEF LineIsCounted
  <2> QED BY <1>1, <1>2, <1>3, <2>2, <2>4, EditsKeeps DEF Held
<1>4. CASE ~AtPrompt
  <2>1. line = <<>> /\ line' = line /\ cursor' = cursor
    BY <1>4 DEF Keyed, LineAtPrompt
  <2>2. LineIsCounted'
    BY <1>1, <2>1, OnOne DEF LineIsCounted
  <2>3. line' \in Seq(Pieces) /\ cursor' \in 0 .. Len(line')
    BY <2>1 DEF ShellTyped
  <2>4. Held' = Held
    BY <1>1, <2>1 DEF Held
  <2> QED BY <1>1, <1>2, <2>1, <2>2, <2>3, <2>4, EditsKeeps
<1> QED BY <1>3, <1>4

LEMMA BackspaceKeeps ==
  ASSUME ShellInv, Backspace
  PROVE  ShellInv' /\ running' = running /\ Held' \subseteq Held \cup Keys
<1> USE DEF ShellInv
<1>1. /\ UNCHANGED <<ready, running, strip, dot>>
      /\ promptLen \in Nat /\ Len(line) \in Nat /\ DOMAIN line = 1 .. Len(line)
      /\ promptLen' = (IF promptLen = 0 THEN 0 ELSE promptLen - 1) /\ promptLen' \in 0 .. MaxLine
      /\ Overlooks(AtPrompt /\ cursor = 0)
  BY CountsAssumption, LenProperties DEF Backspace, ErasesAtCursor, ShellTyped, activityVars
<1>2. /\ overlooked' \in BOOLEAN
      /\ line' # <<>> /\ ~overlooked' => ~overlooked /\ ~(AtPrompt /\ cursor = 0)
  BY <1>1, OverlookedTyped
<1>3. CASE AtPrompt /\ cursor > 0
  <2>1. line' = Erased /\ cursor' = IF line[cursor] \in Keys THEN cursor - 1 ELSE cursor
    BY <1>3 DEF Backspace, ErasesAtCursor, Edits
  <2>2. /\ line' \in Seq(Pieces) /\ On(line') \subseteq On(line) \cup Keys
        /\ Len(line') = IF line[cursor] \in Keys THEN Len(line) - 1 ELSE Len(line)
    BY <1>3, <2>1, ErasedFrom
  <2>3. cursor' \in 0 .. Len(line') /\ cursor \in DOMAIN line
    <3>1. cursor \in 1 .. Len(line)
      BY <1>1, <1>3 DEF ShellTyped
    <3>2. CASE line[cursor] \in Keys
      BY <1>1, <2>1, <2>2, <3>1, <3>2
    <3>3. CASE line[cursor] \notin Keys
      BY <1>1, <2>1, <2>2, <3>1, <3>3
    <3> QED BY <1>1, <3>1, <3>2, <3>3
  <2>4. LineIsCounted'
    <3>1. CASE line' = <<>>
      BY <1>1, <3>1, OnOne DEF LineIsCounted
    <3>2. CASE line' # <<>> /\ ~overlooked'
      <4>1. ~overlooked /\ Len(line) <= promptLen /\ On(line) \subseteq Keys
        BY <1>2, <3>2 DEF LineIsCounted
      <4>2. line[cursor] \in Keys
        BY <2>3, <4>1 DEF On
      <4>3. Len(line') <= promptLen'
        BY <1>1, <2>2, <2>3, <4>1, <4>2
      <4> QED BY <2>2, <4>1, <4>3 DEF LineIsCounted
    <3> QED BY <3>1, <3>2 DEF LineIsCounted
  <2> QED BY <1>1, <1>2, <1>3, <2>2, <2>3, <2>4, EditsKeeps DEF Held
<1>4. CASE ~(AtPrompt /\ cursor > 0)
  <2>1. line' = line /\ cursor' = cursor /\ Held' = Held
    BY <1>1, <1>4 DEF Backspace, ErasesAtCursor, Held
  <2>2. line # <<>> => AtPrompt /\ cursor = 0
    BY <1>1, <1>4 DEF LineAtPrompt, ShellTyped
  <2>3. LineIsCounted'
    <3>1. CASE line' = <<>>
      BY <1>1, <3>1, OnOne DEF LineIsCounted
    <3>2. CASE line' # <<>>
      BY <1>2, <2>1, <2>2, <3>2 DEF LineIsCounted
    <3> QED BY <3>1, <3>2
  <2>4. line' \in Seq(Pieces) /\ cursor' \in 0 .. Len(line') /\ (line' # <<>> => AtPrompt)
    BY <2>1 DEF ShellTyped, LineAtPrompt
  <2> QED BY <1>1, <1>2, <2>1, <2>3, <2>4, EditsKeeps
<1> QED BY <1>3, <1>4

LEMMA ArrowsSidewaysKeeps ==
  ASSUME ShellInv, ArrowsSideways
  PROVE  ShellInv' /\ running' = running /\ Held' = Held
<1> USE DEF ShellInv
<1>1. /\ UNCHANGED <<ready, line, running, promptLen, strip, dot, overlooked>>
      /\ cursor' \in 0 .. Len(line) /\ AtPrompt
  BY DEF ArrowsSideways, activityVars, history
<1>2. LineIsCounted' /\ Held' = Held
  BY <1>1 DEF LineIsCounted, Held
<1> QED BY <1>1, <1>2, EditsKeeps DEF ShellTyped

LEMMA ArrowUpKeeps ==
  ASSUME ShellInv, ended \subseteq Callers, ArrowUp
  PROVE  /\ ShellInv' /\ running' = running
         /\ Held' \subseteq Held \cup Keys \cup {TextOf[c] : c \in ended}
<1> USE DEF ShellInv
<1>1. PICK l \in {<<"key", "end">>} \cup {<<TextOf[c]>> : c \in ended} : Edits(l, Len(l))
  BY DEF ArrowUp
<1>2. /\ UNCHANGED <<ready, running, promptLen, strip, dot>> /\ AtPrompt /\ Overlooks(TRUE)
  BY DEF ArrowUp, activityVars
<1>3. l \in Seq(Pieces) /\ l # <<>> /\ On(l) \subseteq Keys \cup {TextOf[c] : c \in ended}
  <2>1. CASE l = <<"key", "end">>
    BY <2>1 DEF Pieces, Keys, On
  <2>2. CASE \E c \in ended : l = <<TextOf[c]>>
    <3>1. PICK c \in ended : l = <<TextOf[c]>>
      BY <2>2
    <3>2. TextOf[c] \in Pieces
      BY DEF Pieces, Texts
    <3> QED BY <3>1, <3>2, OnOne
  <2> QED BY <1>1, <2>1, <2>2
<1>4. line' = l /\ cursor' = Len(l)
  BY <1>1 DEF Edits
<1>5. overlooked' \in BOOLEAN /\ overlooked'
  BY <1>2, <1>3, <1>4 DEF Overlooks
<1>6. line' \in Seq(Pieces) /\ cursor' \in 0 .. Len(line') /\ LineIsCounted'
  <2>1. Len(l) \in Nat
    BY <1>3, LenProperties
  <2> QED BY <1>3, <1>4, <1>5, <2>1 DEF LineIsCounted
<1>7. ShellInv'
  <2>1. promptLen' \in 0 .. MaxLine
    BY <1>2 DEF ShellTyped
  <2> QED BY <1>2, <1>5, <1>6, <2>1, EditsKeeps
<1> QED BY <1>2, <1>3, <1>4, <1>7 DEF Held

LEMMA EnterKeeps ==
  ASSUME ShellInv, Enter
  PROVE  /\ ShellInv' /\ Held' \subseteq Held
         /\ running' # running => running' = line
<1> USE DEF ShellInv
<1>1. ready' = ready /\ promptLen' = 0 /\ Overlooks(TRUE)
  BY DEF Enter
<1>2. overlooked' \in BOOLEAN /\ (line' # <<>> => overlooked')
  BY <1>1, OverlookedTyped
<1>3. CASE AtPrompt
  <2>1. Submits(line) /\ line \in Seq(Pieces)
    BY <1>3 DEF Enter, ShellTyped
  <2>2. ShellInv' /\ Held' \subseteq On(line) /\ (running' # running => running' = line)
    BY <1>1, <1>2, <1>3, <2>1, SubmitsKeeps
  <2> QED BY <2>2 DEF Held
<1>4. CASE ~AtPrompt
  <2>1. UNCHANGED <<line, cursor, running, strip, dot>> /\ line = <<>>
    BY <1>4 DEF Enter, activityVars, LineAtPrompt
  <2>2. LineIsCounted' /\ Held' = Held
    BY <1>1, <2>1, OnOne DEF LineIsCounted, Held
  <2>3. line' \in Seq(Pieces) /\ cursor' \in 0 .. Len(line') /\ promptLen' \in 0 .. MaxLine
    BY <1>1, <2>1, CountsAssumption DEF ShellTyped
  <2> QED BY <1>1, <1>2, <2>1, <2>2, <2>3, EditsKeeps
<1> QED BY <1>3, <1>4

\* What the page types is alone, unless something was overlooked.
LEMMA PageTypes ==
  ASSUME ShellInv, promptLen = 0, NEW s \in Statements, typeIntoShell(s)
  PROVE  /\ ShellInv' /\ Held' \subseteq Held \cup {s} /\ ended' = ended
         /\ running' # running /\ ~overlooked => running' = <<s>>
<1> USE DEF ShellInv
<1>1. ready' = ready /\ promptLen' = 0 /\ Overlooks(FALSE) /\ ended' = ended
  BY DEF typeIntoShell
<1>2. overlooked' \in BOOLEAN /\ overlooked' = (line' # <<>> /\ overlooked)
  BY <1>1, OverlookedTyped DEF Overlooks
<1>3. CASE AtPrompt
  <2>1. <<s>> \in Seq(Pieces) /\ On(<<s>>) = {s}
    BY OnOne DEF Pieces
  <2>2. Submits(Typed(<<s>>)) /\ Typed(<<s>>) \in Seq(Pieces) /\ On(Typed(<<s>>)) \subseteq On(line) \cup {s}
    BY <1>3, <2>1, TypedIn DEF typeIntoShell
  <2>3. ~overlooked => Typed(<<s>>) = <<s>> /\ Finished(Typed(<<s>>))
    <3> SUFFICES ASSUME ~overlooked PROVE Typed(<<s>>) = <<s>> /\ Finished(Typed(<<s>>))
      OBVIOUS
    <3>1. line = <<>> /\ cursor = 0
      <4>1. Len(line) <= 0
        BY DEF LineIsCounted
      <4>2. line = <<>>
        BY <4>1, EmptySeq DEF ShellTyped
      <4> QED BY <4>1, <4>2, EmptySeq DEF ShellTyped
    <3>2. Typed(<<s>>) = SubSeq(<<>>, 1, 0) \o <<s>> \o SubSeq(<<>>, 1, 0)
      BY <3>1, EmptySeq DEF Typed
    <3>3. SubSeq(<<>>, 1, 0) = <<>>
      BY SubSeqEmpty
    <3>4. Typed(<<s>>) = <<s>>
      BY <2>1, <3>2, <3>3, ConcatEmptySeq
    <3>5. s # "key"
      BY PiecesApart DEF Keys
    <3> QED BY <3>4, <3>5 DEF Finished
  <2>4. line' # <<>> => overlooked'
    BY <1>2, <2>2, <2>3 DEF Submits, Edits
  <2>5. /\ ShellInv' /\ Held' \subseteq On(Typed(<<s>>))
        /\ running' # running => running' = Typed(<<s>>)
    BY <1>1, <1>2, <1>3, <2>2, <2>4, SubmitsKeeps
  <2> QED BY <1>1, <2>2, <2>3, <2>5 DEF Held
<1>4. CASE ~AtPrompt
  <2>1. UNCHANGED <<line, cursor, running, strip, dot>> /\ line = <<>>
    BY <1>4 DEF typeIntoShell, activityVars, LineAtPrompt
  <2>2. LineIsCounted' /\ Held' = Held
    BY <1>1, <2>1, OnOne DEF LineIsCounted, Held
  <2>3. line' \in Seq(Pieces) /\ cursor' \in 0 .. Len(line') /\ promptLen' \in 0 .. MaxLine
    BY <1>1, <2>1, CountsAssumption DEF ShellTyped
  <2> QED BY <1>1, <1>2, <2>1, <2>2, <2>3, EditsKeeps
<1> QED BY <1>3, <1>4

LEMMA ShellStill ==
  ASSUME ShellInv, UNCHANGED <<shellVars, activityVars, overlooked>>
  PROVE  ShellInv' /\ running' = running /\ Held' = Held
<1>1. UNCHANGED <<ready, line, cursor, running, promptLen, strip, dot, overlooked>>
  BY DEF shellVars, activityVars
<1> QED BY <1>1 DEF ShellInv, ShellTyped, LineIsCounted, LineAtPrompt, AtPrompt, ActivityIsTrue, Held

-----------------------------------------------------------------------------
(* The calls.                                                              *)

\* While the calls stand still, the shell may come to hold keys, what the
\* page says of itself, and texts that ran.
LEMMA CallsStill ==
  ASSUME CallInv, UNCHANGED <<at, queue, pending, ended>>,
         Held' \subseteq Held \cup Keys \cup {"greeting", "announcement"} \cup {TextOf[c] : c \in ended}
  PROVE  CallInv'
<1> USE DEF CallInv
<1>1. CallsTyped' /\ WaiterHasTheTurn' /\ EndedWereSent' /\ AnsweredIsKnown'
  BY DEF CallsTyped, WaiterHasTheTurn, HasTurn, EndedWereSent, AnsweredIsKnown, HasTwin
<1>2. \A c \in ended : TextOf[c] \in Texts
  BY DEF CallsTyped, Texts
<1>3. ASSUME NEW c \in Callers, c \in Held' PROVE c \in Held
  BY <1>2, <1>3, PiecesApart DEF Keys
<1>4. ASSUME NEW t \in Texts, t \in Held' PROVE \E d \in ended : TextOf[d] = t
  <2>1. CASE t \in Held
    BY <2>1 DEF PiecesAccounted
  <2>2. CASE t \in {TextOf[c] : c \in ended}
    BY <2>2
  <2> QED BY <1>4, <2>1, <2>2, PiecesApart DEF Keys
<1>5. PiecesAccounted'
  BY <1>3, <1>4 DEF PiecesAccounted
<1> QED BY <1>1, <1>5

\* A call goes on, and no other.
LEMMA CallMoves ==
  ASSUME CallInv, NEW c \in Callers, NEW where \in {"queued", "typed"} \cup Outcomes,
         at' = [at EXCEPT ![c] = where], ended' = ended,
         Held' \subseteq Held \cup {c}, c \in Held' => where \in Sent /\ c \notin ended,
         at[c] \in Sent => where \in Sent, c \in ended => where \in Sent,
         where # "answered", pending' \subseteq Callers, queue' \in Seq(Callers),
         \A d \in ended : d \notin pending'
  PROVE  /\ CallsTyped' /\ PiecesAccounted' /\ EndedWereSent' /\ AnsweredIsKnown'
         /\ \A d \in Callers : at'[d] = IF d = c THEN where ELSE at[d]
<1> USE DEF CallInv
<1>1. \A d \in Callers : at'[d] = IF d = c THEN where ELSE at[d]
  BY DEF CallsTyped
<1>2. CallsTyped'
  BY DEF CallsTyped
<1>3. PiecesAccounted'
  <2>1. ASSUME NEW d \in Callers, d \in Held' PROVE at'[d] \in Sent /\ d \notin ended
    BY <1>1, <2>1 DEF PiecesAccounted
  <2>2. ASSUME NEW t \in Texts, t \in Held' PROVE \E d \in ended : TextOf[d] = t
    BY <2>2, PiecesApart DEF PiecesAccounted
  <2> QED BY <2>1, <2>2 DEF PiecesAccounted
<1>4. EndedWereSent'
  BY <1>1 DEF EndedWereSent, CallsTyped
<1>5. AnsweredIsKnown'
  <2> SUFFICES ASSUME NEW d \in Callers, at'[d] = "answered" PROVE (d \in ended \/ HasTwin(d))'
    BY DEF AnsweredIsKnown
  <2>1. at[d] = "answered"
    BY <1>1
  <2>2. CASE d \in ended
    BY <2>2
  <2>3. CASE HasTwin(d)
    <3>1. PICK e \in Callers \ {d} : TextOf[e] = TextOf[d] /\ at[e] \in Sent
      BY <2>3 DEF HasTwin, Sent
    <3>2. at'[e] \in Sent
      BY <1>1, <3>1
    <3> QED BY <3>1, <3>2 DEF HasTwin, Sent
  <2> QED BY <2>1, <2>2, <2>3 DEF AnsweredIsKnown
<1> QED BY <1>1, <1>2, <1>3, <1>4, <1>5

LEMMA QueuesKeeps ==
  ASSUME CallInv, NEW c \in Callers, runInShell(c), Held' = Held
  PROVE  CallInv'
<1> USE DEF CallInv
<1>1. /\ at[c] = "new" /\ at' = [at EXCEPT ![c] = "queued"] /\ queue' = Append(queue, c)
      /\ UNCHANGED <<pending, ended>>
  BY DEF runInShell, history
<1>2. queue' \in Seq(Callers) /\ at[c] \notin Sent /\ pending' \subseteq Callers
  BY <1>1 DEF CallsTyped, Sent
<1>3. c \notin Held /\ c \notin ended /\ \A d \in ended : d \notin pending'
  BY <1>1, <1>2 DEF PiecesAccounted, EndedWereSent
<1>4. /\ CallsTyped' /\ PiecesAccounted' /\ EndedWereSent' /\ AnsweredIsKnown'
      /\ \A d \in Callers : at'[d] = IF d = c THEN "queued" ELSE at[d]
  <2>1. "queued" \in {"queued", "typed"} \cup Outcomes /\ "queued" # "answered"
    OBVIOUS
  <2> HIDE DEF CallInv
  <2> QED BY <1>1, <1>2, <1>3, <2>1, CallMoves
<1>5. WaiterHasTheTurn'
  <2>1. \A d \in pending : HasTurn(d)'
    BY <1>1, SMTT(30) DEF WaiterHasTheTurn, HasTurn, CallsTyped
  <2> QED BY <1>1, <1>4, <2>1 DEF WaiterHasTheTurn
<1> QED BY <1>4, <1>5

\* The turn ends without an answer: by a refusal before anything was typed,
\* or by the timer.
LEMMA TurnOverKeeps ==
  ASSUME CallInv, NEW c \in Callers, HasTurn(c), NEW outcome \in {"refused", "busy", "timeout"},
         at[c] = "queued" \/ (at[c] = "typed" /\ outcome = "timeout"),
         TurnOver(c, outcome), pending' = pending \ {c}, ended' = ended, Held' = Held
  PROVE  CallInv'
<1> USE DEF CallInv
<1>1. /\ at' = [at EXCEPT ![c] = outcome] /\ queue' \in Seq(Callers) /\ pending' \subseteq Callers
      /\ outcome \in {"queued", "typed"} \cup Outcomes /\ outcome # "answered"
  BY DEF TurnOver, HasTurn, CallsTyped, Outcomes
<1>2. /\ at[c] \in Sent => outcome \in Sent
      /\ c \in ended => outcome \in Sent
      /\ c \in Held' => outcome \in Sent /\ c \notin ended
      /\ \A d \in ended : d \notin pending'
  BY DEF Sent, EndedWereSent, PiecesAccounted
<1>3. /\ CallsTyped' /\ PiecesAccounted' /\ EndedWereSent' /\ AnsweredIsKnown'
      /\ \A d \in Callers : at'[d] = IF d = c THEN outcome ELSE at[d]
  <2> HIDE DEF CallInv
  <2> QED BY <1>1, <1>2, CallMoves
<1>4. WaiterHasTheTurn'
  <2>1. pending \subseteq {c}
    BY DEF WaiterHasTheTurn, HasTurn
  <2>2. pending' = {} /\ \A d \in Callers : at'[d] # "typed"
    BY <1>3, <2>1 DEF WaiterHasTheTurn
  <2> QED BY <2>2 DEF WaiterHasTheTurn
<1> QED BY <1>3, <1>4

LEMMA TypesKeeps ==
  ASSUME CallInv, NEW c \in Callers, typeAtPrompt(c), Held' \subseteq Held \cup {c}
  PROVE  CallInv'
<1> USE DEF CallInv
<1>1. /\ at[c] = "queued" /\ HasTurn(c) /\ at' = [at EXCEPT ![c] = "typed"] /\ queue' = queue
      /\ ended' = ended
  BY DEF typeAtPrompt, typeIntoShell
<1>2. pending = {} /\ c \notin ended
  <2>1. \A d \in pending : d = c
    BY <1>1 DEF WaiterHasTheTurn, HasTurn
  <2>2. c \notin pending /\ c \notin ended
    BY <1>1 DEF WaiterHasTheTurn, EndedWereSent, Sent
  <2> QED BY <2>1, <2>2
<1>3. pending' = {c}
  BY <1>2 DEF typeAtPrompt
<1>4. /\ CallsTyped' /\ PiecesAccounted' /\ EndedWereSent' /\ AnsweredIsKnown'
      /\ \A d \in Callers : at'[d] = IF d = c THEN "typed" ELSE at[d]
  <2>1. /\ "typed" \in {"queued", "typed"} \cup Outcomes /\ "typed" # "answered" /\ "typed" \in Sent
        /\ pending' \subseteq Callers /\ queue' \in Seq(Callers) /\ \A d \in ended : d \notin pending'
    BY <1>1, <1>2, <1>3 DEF Sent, CallsTyped
  <2> HIDE DEF CallInv
  <2> QED BY <1>1, <1>2, <2>1, CallMoves
<1>5. WaiterHasTheTurn'
  BY <1>1, <1>2, <1>3, <1>4 DEF WaiterHasTheTurn, HasTurn
<1> QED BY <1>4, <1>5

\* Whoever is told was waiting for the text of what ran: it was its own
\* statement, or another was typed with that text.
LEMMA SettleKeeps ==
  ASSUME CallInv, line = <<>>, line' = <<>>, running' = <<>>, running \in Seq(Pieces),
         ended' = ended \cup {c \in Callers : running = <<c>>}, settle(running)
  PROVE  CallInv'
<1> USE DEF CallInv
<1> DEFINE told == {c \in pending : SameText(running, c)}
<1>1. /\ pending' = pending \ told
      /\ at' = [c \in Callers |-> IF c \in told THEN "answered" ELSE at[c]]
      /\ queue' = IF told # {} THEN Tail(queue) ELSE queue
  BY DEF settle
<1>2. \A c \in pending : queue # <<>> /\ c = Head(queue) /\ at[c] = "typed" /\ c \in Callers
  BY DEF WaiterHasTheTurn, HasTurn, CallsTyped
<1>3. CallsTyped'
  <2>1. queue' \in Seq(Callers)
    BY <1>1, <1>2 DEF CallsTyped
  <2>2. pending' \subseteq Callers /\ ended' \subseteq Callers
    BY <1>1 DEF CallsTyped
  <2>3. at' \in [Callers -> {"new", "queued", "typed"} \cup Outcomes]
    BY <1>1 DEF CallsTyped, Outcomes
  <2> QED BY <2>1, <2>2, <2>3 DEF CallsTyped
<1>4. \A c \in Callers : at[c] \in Sent => at'[c] \in Sent
  BY <1>1 DEF Sent
<1>5. ASSUME NEW c \in Callers, running = <<c>>
      PROVE  at[c] \in Sent /\ c \notin ended /\ c \notin pending'
  <2>1. c \in Held
    BY <1>5, OnOne DEF Held
  <2>2. SameText(running, c)
    BY <1>5 DEF SameText, TextOfPiece
  <2> QED BY <1>1, <2>1, <2>2 DEF PiecesAccounted
<1>6. WaiterHasTheTurn'
  <2>1. CASE told = {}
    BY <1>1, <2>1 DEF WaiterHasTheTurn, HasTurn, CallsTyped
  <2>2. CASE told # {}
    <3>1. told = pending
      BY <1>2, <2>2
    <3>2. pending' = {} /\ \A c \in Callers : at'[c] # "typed"
      BY <1>1, <3>1 DEF WaiterHasTheTurn
    <3> QED BY <3>2 DEF WaiterHasTheTurn
  <2> QED BY <2>1, <2>2
<1>7. PiecesAccounted'
  BY OnOne DEF PiecesAccounted, Held
<1>8. EndedWereSent'
  <2> SUFFICES ASSUME NEW c \in ended' PROVE at'[c] \in Sent /\ c \notin pending'
    BY DEF EndedWereSent
  <2>1. CASE c \in ended
    BY <1>1, <1>4, <2>1 DEF EndedWereSent, CallsTyped
  <2>2. CASE c \in Callers /\ running = <<c>>
    BY <1>4, <1>5, <2>2
  <2> QED BY <2>1, <2>2
<1>9. ASSUME NEW c \in told
      PROVE  running = <<c>> \/ \E d \in Callers \ {c} : TextOf[d] = TextOf[c] /\ at[d] \in Sent
  <2>1. c \in pending /\ c \in Callers /\ Len(running) = 1 /\ TextOfPiece(running[1]) = TextOf[c]
    BY <1>9 DEF SameText, CallsTyped
  <2>2. PICK p : p = running[1]
    OBVIOUS
  <2>3. running = <<p>> /\ p \in Pieces /\ p \in Held
    <3>1. running = <<p>> /\ p \in Pieces
      BY <2>1, <2>2
    <3> QED BY <3>1, OnOne DEF Held
  <2>4. CASE p \in Callers
    <3>1. at[p] \in Sent /\ TextOf[p] = TextOf[c]
      BY <2>1, <2>2, <2>3, <2>4 DEF PiecesAccounted, TextOfPiece
    <3> QED BY <2>3, <2>4, <3>1
  <2>5. CASE p \notin Callers
    <3>1. p = TextOf[c] /\ p \in Texts
      BY <2>1, <2>2, <2>5 DEF TextOfPiece, Texts
    <3>2. PICK d \in ended : TextOf[d] = TextOf[c]
      BY <2>3, <3>1 DEF PiecesAccounted
    <3>3. d \in Callers /\ at[d] \in Sent /\ d \notin pending
      BY DEF EndedWereSent, CallsTyped
    <3> QED BY <2>1, <3>2, <3>3
  <2> QED BY <2>4, <2>5
<1>10. AnsweredIsKnown'
  <2> SUFFICES ASSUME NEW c \in Callers, at'[c] = "answered" PROVE c \in ended' \/ HasTwin(c)'
    BY DEF AnsweredIsKnown
  <2>1. c \in ended \/ running = <<c>> \/ \E d \in Callers \ {c} : TextOf[d] = TextOf[c] /\ at[d] \in Sent
    <3>1. CASE c \in told
      BY <1>9, <3>1
    <3>2. CASE c \notin told
      <4>1. at[c] = "answered"
        BY <1>1, <3>2
      <4> QED BY <4>1 DEF AnsweredIsKnown, HasTwin, Sent
    <3> QED BY <3>1, <3>2
  <2>2. ASSUME NEW d \in Callers \ {c}, TextOf[d] = TextOf[c], at[d] \in Sent PROVE HasTwin(c)'
    <3>1. at'[d] \in Sent
      BY <1>4, <2>2
    <3> QED BY <2>2, <3>1 DEF HasTwin, Sent
  <2> QED BY <2>1, <2>2
<1> QED BY <1>3, <1>6, <1>7, <1>8, <1>10

-----------------------------------------------------------------------------
(* The steps.                                                              *)

LEMMA VisitorKeeps ==
  ASSUME IInv, Visitor
  PROVE  IInv' /\ ended' = ended /\ (running' # running => running' = line)
<1> USE DEF IInv
<1>1. UNCHANGED <<at, queue, pending, ended>> /\ UNCHANGED greetVars
  BY DEF Visitor, Presses, Pastes, Keyed, Backspace, ErasesAtCursor, ArrowsSideways, ArrowUp, Enter,
         callVars, history
<1>2. /\ ShellInv' /\ (running' # running => running' = line)
      /\ Held' \subseteq Held \cup Keys \cup {TextOf[c] : c \in ended}
  <2>1. ASSUME NEW k \in Keys, Presses(k)
        PROVE  ShellInv' /\ running' = running /\ Held' \subseteq Held \cup Keys
    <3>1. <<k>> \in Seq(Pieces) /\ On(<<k>>) \subseteq Keys /\ Len(<<k>>) > 0 /\ 1 \in Nat
      BY OnOne DEF Pieces
    <3> QED BY <2>1, <3>1, KeyedKeeps DEF Presses
  <2>2. CASE Pastes
    <3>1. <<"key", "key">> \in Seq(Pieces) /\ On(<<"key", "key">>) \subseteq Keys /\ Len(<<"key", "key">>) > 0
      BY DEF Pieces, Keys, On
    <3> QED BY <2>2, <3>1, KeyedKeeps DEF Pastes
  <2>3. CASE Backspace
    BY <2>3, BackspaceKeeps
  <2>4. CASE ArrowsSideways
    BY <2>4, ArrowsSidewaysKeeps
  <2>5. CASE ArrowUp
    BY <2>5, ArrowUpKeeps DEF CallInv, CallsTyped
  <2>6. CASE Enter
    BY <2>6, EnterKeeps
  <2> QED BY <2>1, <2>2, <2>3, <2>4, <2>5, <2>6 DEF Visitor
<1>3. CallInv'
  BY <1>1, <1>2, CallsStill
<1>4. PageTyped'
  BY <1>1 DEF PageTyped, greetVars
<1> QED BY <1>1, <1>2, <1>3, <1>4

LEMMA ShellKeeps ==
  ASSUME IInv, Shell
  PROVE  IInv' /\ ended \subseteq ended' /\ (running' # running => running' = <<>>)
<1> USE DEF IInv
<1>1. CASE ShellIsReady
  <2>1. /\ UNCHANGED <<running, promptLen, strip, dot, at, queue, pending, ended>> /\ UNCHANGED greetVars
        /\ ready' = TRUE /\ line' = <<>> /\ cursor' = 0 /\ overlooked' = FALSE /\ ~ready
    BY <1>1 DEF ShellIsReady, Edits, Overlooks, callVars, activityVars
  <2>2. ShellInv'
    <3>1. line = <<>>
      BY <2>1 DEF ShellInv, LineAtPrompt, AtPrompt
    <3>2. ShellTyped'
      <4>1. line' \in Seq(Pieces) /\ cursor' \in 0 .. Len(line')
        BY <2>1, EmptySeq
      <4>2. ready' \in BOOLEAN /\ overlooked' \in BOOLEAN
        BY <2>1
      <4> QED BY <2>1, <4>1, <4>2 DEF ShellInv, ShellTyped
    <3>3. LineIsCounted' /\ LineAtPrompt' /\ ActivityIsTrue'
      BY <2>1, OnOne DEF ShellInv, ShellTyped, LineIsCounted, LineAtPrompt, ActivityIsTrue
    <3> QED BY <3>2, <3>3 DEF ShellInv
  <2>3. Held' \subseteq Held
    BY <2>1, OnOne DEF Held
  <2>4. CallInv' /\ PageTyped'
    BY <2>1, <2>3, CallsStill DEF PageTyped, greetVars
  <2> QED BY <2>1, <2>2, <2>4
<1>2. CASE QueryFails \/ QueryReturns
  <2>1. /\ running # <<>> /\ running' = <<>> /\ settle(running)
        /\ ended' = ended \cup {c \in Callers : running = <<c>>}
        /\ strip' = "hidden" /\ dot' \in {dot, "pulsing", "still"} \ {"busy"}
        /\ UNCHANGED <<ready, line, cursor, promptLen, tries, announced, overlooked>>
    BY <1>2 DEF QueryFails, QueryReturns, stopActivity, greetVars
  <2>2. greeted' \in BOOLEAN
    BY <1>2 DEF QueryFails, QueryReturns, greetVars, PageTyped
  <2>3. line = <<>>
    BY <2>1 DEF ShellInv, LineAtPrompt, AtPrompt
  <2>4. ShellInv'
    <3>1. ShellTyped'
      BY <2>1 DEF ShellInv, ShellTyped
    <3>2. LineIsCounted' /\ LineAtPrompt' /\ ActivityIsTrue'
      BY <2>1, <2>3 DEF ShellInv, LineIsCounted, LineAtPrompt, ActivityIsTrue
    <3> QED BY <3>1, <3>2 DEF ShellInv
  <2>5. CallInv'
    BY <2>1, <2>3, SettleKeeps DEF ShellInv, ShellTyped
  <2> QED BY <2>1, <2>2, <2>4, <2>5 DEF PageTyped
<1> QED BY <1>1, <1>2 DEF Shell

\* What a step of the page's may do to what runs: one statement of its own,
\* alone unless something was overlooked.
Speaks(s) == running' # running /\ ~overlooked => running' = <<s>>

LEMMA PageKeeps ==
  ASSUME IInv, Page
  PROVE  IInv' /\ ended' = ended /\ \E s \in Statements : Speaks(s)
<1> USE DEF IInv
<1>1. "greeting" \in Statements /\ "announcement" \in Statements
  BY DEF Statements
<1>2. ASSUME NEW s \in {"greeting", "announcement"},
             IF promptBusy THEN leavesShell ELSE typeIntoShell(s),
             UNCHANGED <<callVars, greeted>>, tries' \in 0 .. MaxTries, announced' \in 0 .. MaxAnnounced
      PROVE  IInv' /\ ended' = ended /\ Speaks(s)
  <2>1. /\ ShellInv' /\ Held' \subseteq Held \cup {"greeting", "announcement"} /\ ended' = ended
        /\ Speaks(s)
    <3>1. CASE promptBusy
      BY <1>2, <3>1, ShellStill DEF leavesShell, history, Speaks
    <3>2. CASE ~promptBusy
      <4>1. promptLen = 0
        BY <3>2 DEF promptBusy, ShellInv, ShellTyped
      <4> QED BY <1>1, <1>2, <3>2, <4>1, PageTypes DEF Speaks
    <3> QED BY <3>1, <3>2
  <2>2. CallInv'
    BY <1>2, <2>1, CallsStill DEF callVars
  <2> QED BY <1>2, <2>1, <2>2 DEF PageTyped
<1>3. CASE greet
  <2>1. tries' \in 0 .. MaxTries
    BY <1>3, CountsAssumption DEF greet, PageTyped
  <2> QED BY <1>1, <1>2, <1>3, <2>1 DEF greet, PageTyped
<1>4. CASE announce
  <2>1. announced' \in 0 .. MaxAnnounced
    BY <1>4, CountsAssumption DEF announce, PageTyped
  <2> QED BY <1>1, <1>2, <1>4, <2>1 DEF announce, PageTyped
<1>5. CASE ShowActivity \/ PulseEnds
  <2>1. /\ UNCHANGED <<shellVars, callVars, greetVars, overlooked, ended>>
        /\ (strip' # "hidden" \/ dot' = "busy" => strip # "hidden" \/ dot = "busy")
        /\ strip' \in {"hidden", "armed", "shown"} /\ dot' \in {"still", "busy", "pulsing"}
    BY <1>5 DEF ShowActivity, PulseEnds, history, ShellInv, ShellTyped
  <2>2. UNCHANGED <<ready, line, cursor, running, promptLen, overlooked>>
    BY <2>1 DEF shellVars
  <2>3. ShellInv' /\ Held' = Held
    BY <2>1, <2>2 DEF ShellInv, ShellTyped, LineIsCounted, LineAtPrompt, AtPrompt, ActivityIsTrue, Held
  <2>4. CallInv' /\ PageTyped'
    BY <2>1, <2>3, CallsStill DEF callVars, greetVars, PageTyped
  <2> QED BY <1>1, <2>1, <2>2, <2>3, <2>4 DEF Speaks
<1> QED BY <1>3, <1>4, <1>5 DEF Page

LEMMA CallKeeps ==
  ASSUME IInv, NEW c \in Callers, Call(c)
  PROVE  IInv' /\ ended' = ended /\ Speaks(c)
<1> USE DEF IInv
<1>1. CASE typeAtPrompt(c)
  <2>1. c \in Statements /\ promptLen = 0 /\ typeIntoShell(c) /\ UNCHANGED greetVars
    BY <1>1 DEF Statements, typeAtPrompt, promptBusy, ShellInv, ShellTyped
  <2>2. ShellInv' /\ Held' \subseteq Held \cup {c} /\ ended' = ended /\ Speaks(c)
    BY <2>1, PageTypes DEF Speaks
  <2> QED BY <1>1, <2>1, <2>2, TypesKeeps DEF greetVars, PageTyped
<1>2. CASE ~typeAtPrompt(c)
  <2>1. UNCHANGED <<shellVars, activityVars, overlooked, ended>> /\ UNCHANGED greetVars
    BY <1>2 DEF Call, runInShell, Refuses, RefusesBusy, Expires, history
  <2>2. ShellInv' /\ running' = running /\ Held' = Held
    BY <2>1, ShellStill
  <2>3. CallInv'
    <3>1. CASE runInShell(c)
      BY <2>2, <3>1, QueuesKeeps
    <3>2. CASE Refuses(c) \/ RefusesBusy(c)
      <4>1. PICK outcome \in {"refused", "busy"} : TurnOver(c, outcome)
        BY <3>2 DEF Refuses, RefusesBusy
      <4>2. /\ at[c] = "queued" /\ HasTurn(c) /\ pending' = pending /\ c \notin pending
        BY <3>2 DEF Refuses, RefusesBusy, CallInv, WaiterHasTheTurn
      <4>3. pending' = pending \ {c}
        BY <4>2
      <4> QED BY <2>1, <2>2, <4>1, <4>2, <4>3, TurnOverKeeps
    <3>3. CASE Expires(c)
      <4>1. HasTurn(c) /\ TurnOver(c, "timeout") /\ at[c] = "typed" /\ pending' = pending \ {c}
        BY <3>3 DEF Expires, CallInv, WaiterHasTheTurn
      <4> QED BY <2>1, <2>2, <4>1, TurnOverKeeps
    <3> QED BY <1>2, <3>1, <3>2, <3>3 DEF Call
  <2> QED BY <2>1, <2>2, <2>3 DEF greetVars, PageTyped, Speaks
<1> QED BY <1>1, <1>2

LEMMA NextKeeps ==
  ASSUME IInv, [Next]_vars
  PROVE  /\ IInv' /\ ended \subseteq ended'
         /\ \/ running' \in {running, line, <<>>}
            \/ \E s \in Statements : Speaks(s)
<1>1. CASE Visitor
  BY <1>1, VisitorKeeps
<1>2. CASE Shell
  BY <1>2, ShellKeeps
<1>3. CASE Page
  BY <1>3, PageKeeps
<1>4. ASSUME NEW c \in Callers, Call(c)
      PROVE  IInv' /\ ended' = ended /\ \E s \in Statements : Speaks(s)
  BY <1>4, CallKeeps DEF Statements
<1>5. CASE UNCHANGED vars
  <2>1. UNCHANGED <<shellVars, activityVars, overlooked, at, queue, pending, ended>> /\ UNCHANGED greetVars
    BY <1>5 DEF vars, callVars, history
  <2>2. ShellInv' /\ running' = running /\ Held' = Held
    BY <2>1, ShellStill DEF IInv
  <2>3. CallInv'
    BY <2>1, <2>2, CallsStill DEF IInv
  <2> QED BY <2>1, <2>2, <2>3 DEF IInv, PageTyped, greetVars
<1> QED BY <1>1, <1>2, <1>3, <1>4, <1>5 DEF Next

LEMMA IInvHolds == Spec => []IInv
<1>1. IInv /\ [Next]_vars => IInv'
  BY NextKeeps
<1> QED BY <1>1, InitIInv, PTL DEF Spec

-----------------------------------------------------------------------------
\* The page's count and the shell's line, the queue and the waiters keep
\* their shapes, however the visitor types.
THEOREM TypeCorrect == Spec => []TypeOK
<1> QED BY Types, IInvHolds, PTL

\* What typeIntoShell is written to prevent: unless the count was misled, no
\* statement of the page's stays on the line or runs joined onto what was
\* there.
THEOREM NothingSplicedHolds == Spec => NothingSpliced
<1> DEFINE Clear == /\ \A i \in DOMAIN line' : line'[i] \in Statements => overlooked'
                    /\ running' # running /\ ~overlooked =>
                         \A i \in DOMAIN running' : running'[i] \in Statements => Len(running') = 1
<1>1. ASSUME IInv, [Next]_vars PROVE Clear
  <2>1. /\ IInv' /\ (running' \in {running, line, <<>>} \/ \E s \in Statements : Speaks(s))
    BY <1>1, NextKeeps
  <2>2. ASSUME NEW i \in DOMAIN line', line'[i] \in Statements PROVE overlooked'
    <3>1. line'[i] \in On(line)' /\ line'[i] \notin Keys
      BY <2>2, PiecesApart DEF On
    <3> QED BY <2>1, <3>1 DEF IInv, ShellInv, LineIsCounted
  <2>3. ASSUME running' # running, ~overlooked, NEW i \in DOMAIN running', running'[i] \in Statements
        PROVE  Len(running') = 1
    <3>1. CASE running' = line
      <4>1. running'[i] \in On(line) /\ running'[i] \notin Keys
        BY <2>3, <3>1, PiecesApart DEF On
      <4> QED BY <1>1, <2>3, <4>1 DEF IInv, ShellInv, LineIsCounted
    <3>2. CASE running' = <<>>
      BY <2>3, <3>2
    <3>3. CASE \E s \in Statements : Speaks(s)
      BY <2>3, <3>3 DEF Speaks
    <3> QED BY <2>1, <2>3, <3>1, <3>2, <3>3
  <2> QED BY <2>2, <2>3
<1>2. IInv /\ [Next]_vars => [Clear]_vars
  BY <1>1
<1> QED BY <1>2, IInvHolds, PTL DEF Spec, NothingSpliced

\* runInShell tells each caller the truth: "Nothing ran" only of what never
\* runs, an outcome only of its own statement or of a twin's, the count
\* misled or not.
THEOREM OutcomesAreTrueHolds == Spec => []OutcomesAreTrue
<1> QED BY NobodyIsMisled, IInvHolds, PTL

\* The activity strip and the wire's dot never outlive the statement.
THEOREM ActivityIsTrueHolds == Spec => []ActivityIsTrue
<1>1. IInv => ActivityIsTrue
  BY DEF IInv, ShellInv
<1> QED BY <1>1, IInvHolds, PTL

\* A caller's statement that has run to its end is never put to the shell
\* again, after a timeout either.
THEOREM NeverRunTwiceHolds == Spec => NeverRunTwice
<1>1. ASSUME IInv, [Next]_vars, NEW c \in ended, running' = <<c>>
      PROVE  running = <<c>>
  <2>1. IInv' /\ c \in ended'
    BY <1>1, NextKeeps
  <2>2. c \in Callers /\ c \in Held'
    BY <1>1, OnOne DEF IInv, CallInv, CallsTyped, Held
  <2> QED BY <2>1, <2>2 DEF IInv, CallInv, PiecesAccounted
<1>2. IInv /\ [Next]_vars => [\A c \in ended : running' = <<c>> => running = <<c>>]_vars
  BY <1>1
<1> QED BY <1>2, IInvHolds, PTL DEF Spec, NeverRunTwice

\* What is left out of a preview, the rows past its caps, the columns past
\* them, or the end of a value it shows, is what it says was left out.
LEMMA PreviewIsTrue ==
  ASSUME NEW r \in Results, ~previewResult(r).unavailable
  PROVE  LET told == previewResult(r) IN
           told.truncated <=> \E cell \in (0 .. r.rows) \X (1 .. r.columns) :
                                cell \notin told.shown \/ cell \in told.cut
<1> DEFINE cells == (0 .. r.rows) \X (1 .. r.columns)
           more == r.rows > PREVIEW_ROWS \/ r.columns > PREVIEW_COLUMNS
<1>1. r.rows \in Nat /\ r.columns \in Nat \ {0} /\ r.long \subseteq cells
  BY ResultsAssumption
<1>2. /\ previewResult(r).shown = Shown(r) /\ previewResult(r).cut = r.long \cap Shown(r)
      /\ previewResult(r).truncated = (more \/ r.long \cap Shown(r) # {})
  BY DEF previewResult
<1>3. Shown(r) \subseteq cells
  BY <1>1 DEF Shown, Smaller, PREVIEW_ROWS, PREVIEW_COLUMNS
<1>4. ASSUME more PROVE \E cell \in cells : cell \notin Shown(r)
  <2>1. CASE r.rows > PREVIEW_ROWS
    <3>1. <<3, 1>> \in cells /\ <<3, 1>> \notin Shown(r)
      BY <1>1, <2>1 DEF Shown, Smaller, PREVIEW_ROWS, PREVIEW_COLUMNS
    <3> QED BY <3>1
  <2>2. CASE r.columns > PREVIEW_COLUMNS
    <3>1. <<0, 7>> \in cells /\ <<0, 7>> \notin Shown(r)
      BY <1>1, <2>2 DEF Shown, Smaller, PREVIEW_ROWS, PREVIEW_COLUMNS
    <3> QED BY <3>1
  <2> QED BY <1>4, <2>1, <2>2
<1>5. ASSUME ~more PROVE cells \subseteq Shown(r)
  BY <1>1, <1>5 DEF Shown, Smaller, PREVIEW_ROWS, PREVIEW_COLUMNS
<1> HIDE DEF cells, more
<1>6. (more \/ r.long \cap Shown(r) # {}) <=> \E cell \in cells : cell \notin Shown(r) \/ cell \in r.long \cap Shown(r)
  BY <1>3, <1>4, <1>5
<1> QED BY <1>2, <1>6 DEF cells

\* An agent is told that its preview is not the whole result if and only if
\* it is not, whatever the result's size and values (previewResult).
THEOREM PreviewTellsTheTruthHolds == Spec => []PreviewTellsTheTruth
<1>1. PreviewTellsTheTruth
  BY PreviewIsTrue DEF PreviewTellsTheTruth
<1> QED BY <1>1, PTL
=============================================================================
