--------------------------- MODULE ExtensionProofs ---------------------------
(***************************************************************************)
(* Proofs about Extension, for any databases, threads, peers and relays.   *)
(*                                                                         *)
(* Argument.  The key: only create_new makes the file, so one thread at a  *)
(* time is between making and filling it, and what is in it then never     *)
(* changes (KeyIsKept).  The endpoint: core_lock is held from the decision *)
(* to bind one to the binding, so an endpoint is never bound over another  *)
(* (LockIsHeld), and what a serve found when it checked still holds when   *)
(* it is done (ServeIsChecked).  The secret: of a peer attached once, it   *)
(* is there from before the ATTACH on (SecretComesFirst).                  *)
(***************************************************************************)
EXTENDS Extension, TLAPS

Locked == {"looking", "creating key", "writing key", "reading key", "endpoint"}

OfServe == {"checks", "reading", "comparing", "starting", "waiting"}

\* The steps before the key file is looked at.
Unlooked == {"checks", "reading", "comparing", "binding", "locking"}

\* Which call is at which step.
CallIsShaped ==
  \A t \in Threads :
    /\ at[t] = "idle" => call[t] = NoCall
    /\ at[t] \in OfServe => call[t].doing = "serve"
    /\ at[t] \in {"creating", "attaching", "dropping"} => call[t].doing = "attach"
    /\ call[t].doing = "attach" => call[t].peer \in Peers /\ call[t].name \in Aliases
    /\ at[t] \in Unlooked => call[t].id = Throwaway

\* Who binds an endpoint holds the lock, and there is none yet.
LockIsHeld ==
  \A t \in Threads : at[t] \in Locked => lock[DbOf[t]] = t /\ ~Bound(DbOf[t])

\* One thread at a time fills the key file, and a key that is to be bound is
\* the one that is in it.
KeyIsKept ==
  /\ \A t \in Threads : at[t] = "writing key" => keyFile = "empty"
  /\ \A t, u \in Threads : at[t] = "writing key" /\ at[u] = "writing key" => t = u
  /\ \A t \in Threads : at[t] = "reading key" => keyFile # "absent"
  /\ \A t \in Threads : at[t] = "endpoint" => call[t].id \in {Throwaway, keyFile}

\* From its check to its answer a serve's endpoint is the one it asked for.
ServeIsChecked ==
  /\ \A d \in Databases : Bound(d) /\ core[d].relays # TooLong => core[d].bound_relays = core[d].relays
  /\ \A t \in Threads : LET d == DbOf[t] IN
       /\ at[t] \in Locked \ {"endpoint"} => ~call[t].ephemeral
       /\ at[t] = "endpoint" /\ call[t].ephemeral => call[t].id = Throwaway
       /\ call[t].doing = "serve" /\ at[t] \in {"binding", "locking"} /\ call[t].saw = "bound" =>
            Bound(d) /\ ~call[t].ephemeral /\ call[t].relays = core[d].bound_relays
       /\ at[t] = "binding" => ~call[t].ephemeral
       /\ at[t] = "locking" /\ call[t].ephemeral => call[t].read.ephemeral
       /\ at[t] \in {"starting", "waiting"} =>
            /\ Bound(d)
            /\ call[t].saw # "overtaken" /\ core[d].relays # TooLong =>
                 (call[t].ephemeral => core[d].id = Throwaway) /\ core[d].relays = call[t].relays

\* A peer that is attached once is not attached yet while it is being
\* attached, by one thread, and has its secret before its ATTACH.
SecretComesFirst ==
  \A t \in Threads : LET d == DbOf[t] IN
    call[t].peer \in TokenPeers \ redone[d] =>
      /\ ~Attached(d, call[t].peer)
      /\ \A u \in Threads : DbOf[u] = d /\ call[u].peer = call[t].peer => u = t
      /\ at[t] = "attaching" => call[t].peer \in secrets[d]

IInv == /\ TypeOK /\ CallIsShaped /\ LockIsHeld /\ KeyIsKept /\ OneIdentity
        /\ ServeIsChecked /\ SecretComesFirst /\ AttachedHasItsSecret

-----------------------------------------------------------------------------
LEMMA NoCallIsCall == /\ NoCall \in Calls
                      /\ NoCall.doing = "nothing" /\ ~NoCall.ephemeral /\ NoCall.saw = "bound"
                      /\ NoCall.id = Throwaway /\ NoCall.peer = None /\ NoCall.name = None
                      /\ Unset \in Settings
BY RelaysAssumption DEF NoCall, Calls, Identities, Unset, Settings

LEMMA InitIInv == Init => IInv
<1> SUFFICES ASSUME Init PROVE IInv
  OBVIOUS
<1>1. TypeOK
  BY NoCallIsCall DEF Init, TypeOK, Phases
<1>2. CallIsShaped /\ LockIsHeld /\ KeyIsKept /\ OneIdentity /\ ServeIsChecked
  BY NoCallIsCall, DbOfAssumption DEF Init, CallIsShaped, LockIsHeld, KeyIsKept, OneIdentity, ServeIsChecked, Locked, Bound,
                                      OfServe, Unlooked
<1>3. SecretComesFirst /\ AttachedHasItsSecret
  BY NoCallIsCall, PeersAssumption DEF Init, SecretComesFirst, AttachedHasItsSecret, Attached
<1> QED BY <1>1, <1>2, <1>3 DEF IInv

-----------------------------------------------------------------------------
(* Types and the shape of calls.                                           *)

\* A call that is over.
LEMMA ReturnsTyped ==
  ASSUME TypeOK, CallIsShaped, NEW t \in Threads, NEW from, Returns(t, from)
  PROVE  /\ at' \in [Threads -> Phases] /\ call' \in [Threads -> Calls] /\ CallIsShaped'
<1> USE NoCallIsCall
<1>1. at' = [at EXCEPT ![t] = "idle"] /\ call' = [call EXCEPT ![t] = NoCall]
  BY DEF Returns, Becomes, Goes
<1>2. at' \in [Threads -> Phases] /\ call' \in [Threads -> Calls]
  BY <1>1 DEF TypeOK, Phases
<1>3. ASSUME NEW u \in Threads
      PROVE  /\ at'[u] = "idle" => call'[u] = NoCall
             /\ at'[u] \in OfServe => call'[u].doing = "serve"
             /\ at'[u] \in {"creating", "attaching", "dropping"} => call'[u].doing = "attach"
             /\ call'[u].doing = "attach" => call'[u].peer \in Peers /\ call'[u].name \in Aliases
             /\ at'[u] \in Unlooked => call'[u].id = Throwaway
  BY <1>1 DEF TypeOK, CallIsShaped, OfServe, Unlooked
<1> QED BY <1>2, <1>3 DEF CallIsShaped

\* A step of a call that goes on.
LEMMA BecomesTyped ==
  ASSUME TypeOK, CallIsShaped, NEW t \in Threads, NEW from, NEW to \in Phases \ {"idle"}, NEW c \in Calls,
         Becomes(t, from, to, c),
         to \in OfServe => c.doing = "serve",
         to \in {"creating", "attaching", "dropping"} => c.doing = "attach",
         c.doing = "attach" => c.peer \in Peers /\ c.name \in Aliases,
         to \in Unlooked => c.id = Throwaway
  PROVE  /\ at' \in [Threads -> Phases] /\ call' \in [Threads -> Calls] /\ CallIsShaped'
<1>1. at' = [at EXCEPT ![t] = to] /\ call' = [call EXCEPT ![t] = c]
  BY DEF Becomes, Goes
<1>2. at' \in [Threads -> Phases] /\ call' \in [Threads -> Calls]
  BY <1>1 DEF TypeOK
<1>3. ASSUME NEW u \in Threads
      PROVE  /\ at'[u] = "idle" => call'[u] = NoCall
             /\ at'[u] \in OfServe => call'[u].doing = "serve"
             /\ at'[u] \in {"creating", "attaching", "dropping"} => call'[u].doing = "attach"
             /\ call'[u].doing = "attach" => call'[u].peer \in Peers /\ call'[u].name \in Aliases
             /\ at'[u] \in Unlooked => call'[u].id = Throwaway
  <2>1. CASE u = t
    BY <1>1, <2>1 DEF TypeOK
  <2>2. CASE u # t
    BY <1>1, <2>2 DEF TypeOK, CallIsShaped
  <2> QED BY <2>1, <2>2
<1> QED BY <1>2, <1>3 DEF CallIsShaped

\* The same, of a step that leaves the call's record alone.
LEMMA GoesTyped ==
  ASSUME TypeOK, CallIsShaped, NEW t \in Threads, NEW from \in Phases, NEW to \in Phases \ {"idle"}, 
         Goes(t, from, to), UNCHANGED call,
         to \in OfServe => call[t].doing = "serve",
         to \in {"creating", "attaching", "dropping"} => call[t].doing = "attach",
         to \in Unlooked => from \in Unlooked
  PROVE  at' \in [Threads -> Phases] /\ CallIsShaped'
BY DEF Goes, TypeOK, CallIsShaped

\* What a serve knows after comparing the relays.
LEMMA ComparesTo ==
  ASSUME TypeOK, NEW t \in Threads, ServeCompares(t)
  PROVE  \E c \in Calls, to \in {"locking", "binding"} :
           /\ Becomes(t, "comparing", to, c)
           /\ c.doing = call[t].doing /\ c.id = call[t].id /\ c.peer = call[t].peer
<1> DEFINE found == IF ~Bound(DbOf[t]) THEN "unbound" ELSE IF call[t].ephemeral THEN "overtaken" ELSE "bound"
           c == [call[t] EXCEPT !.saw = found, !.read.ephemeral = call[t].ephemeral, !.read.relays = call[t].relays]
           to == IF call[t].ephemeral THEN "locking" ELSE "binding"
<1>1. call[t] \in Calls /\ found \in {"bound", "unbound", "overtaken"}
  BY DEF TypeOK
<1>2. c \in Calls /\ c.doing = call[t].doing /\ c.id = call[t].id /\ c.peer = call[t].peer
  BY <1>1 DEF Calls, Settings
<1>3. Becomes(t, "comparing", to, c) /\ to \in {"locking", "binding"}
  BY DEF ServeCompares
<1> HIDE DEF c, to
<1> QED BY <1>2, <1>3

LEMMA ComparesFinds ==
  ASSUME TypeOK, NEW t \in Threads, ServeCompares(t)
  PROVE  /\ core' = core
         /\ Bound(DbOf[t]) => call[t].relays = core[DbOf[t]].bound_relays
         /\ at'[t] = (IF call[t].ephemeral THEN "locking" ELSE "binding")
         /\ call'[t].ephemeral = call[t].ephemeral /\ call'[t].relays = call[t].relays
         /\ call'[t].read.ephemeral = call[t].ephemeral
         /\ call'[t].saw = "bound" => Bound(DbOf[t]) /\ ~call[t].ephemeral
<1> DEFINE found == IF ~Bound(DbOf[t]) THEN "unbound" ELSE IF call[t].ephemeral THEN "overtaken" ELSE "bound"
           c == [call[t] EXCEPT !.saw = found, !.read.ephemeral = call[t].ephemeral, !.read.relays = call[t].relays]
<1>1. call[t] \in Calls
  BY DEF TypeOK
<1>2. c.ephemeral = call[t].ephemeral /\ c.relays = call[t].relays /\ c.saw = found
      /\ c.read.ephemeral = call[t].ephemeral
  BY <1>1 DEF Calls, Settings
<1>3. core' = core /\ call'[t] = c /\ at'[t] = (IF call[t].ephemeral THEN "locking" ELSE "binding")
      /\ (Bound(DbOf[t]) => call[t].relays = core[DbOf[t]].bound_relays)
  BY DEF ServeCompares, Becomes, Goes, TypeOK, RelaysChanged
<1> QED BY <1>2, <1>3

LEMMA ServesTyped ==
  ASSUME IInv, NEW t \in Threads, SetSettings(t) \/ Serves(t)
  PROVE  TypeOK' /\ CallIsShaped'
<1> USE DbOfAssumption, NoCallIsCall DEF IInv
<1>1. CASE SetSettings(t)
  <2>1. settings' \in [Databases -> Settings]
    BY <1>1 DEF SetSettings, TypeOK, Settings
  <2> QED BY <1>1, <2>1 DEF SetSettings, TypeOK, CallIsShaped, callVars, catalogVars
<1>2. ASSUME NEW ephemeral \in BOOLEAN, Serve(t, ephemeral) PROVE TypeOK' /\ CallIsShaped'
  <2>1. LET c == [NoCall EXCEPT !.doing = "serve", !.ephemeral = ephemeral] IN
        c \in Calls /\ c.doing = "serve" /\ c.id = Throwaway
    BY DEF Calls, NoCall
  <2>2. at' \in [Threads -> Phases] /\ call' \in [Threads -> Calls] /\ CallIsShaped'
    BY <1>2, <2>1, BecomesTyped DEF Serve, Phases, OfServe
  <2> QED BY <1>2, <2>2 DEF Serve, TypeOK, catalogVars
<1>3. CASE ServeRefuses(t) \/ ServeFails(t) \/ ServeReturns(t)
  <2>1. at' \in [Threads -> Phases] /\ call' \in [Threads -> Calls] /\ CallIsShaped'
    BY <1>3, ReturnsTyped DEF ServeRefuses, ServeFails, ServeReturns, Throws
  <2> QED BY <1>3, <2>1 DEF ServeRefuses, ServeFails, ServeReturns, TypeOK, catalogVars
<1>4. CASE ServeChecks(t)
  <2>1. Goes(t, "checks", "reading") /\ UNCHANGED call /\ call[t].doing = "serve"
    BY <1>4 DEF ServeChecks, CallIsShaped, Goes, OfServe
  <2>2. at' \in [Threads -> Phases] /\ CallIsShaped'
    BY <2>1, GoesTyped DEF Phases, Unlooked
  <2> QED BY <1>4, <2>2 DEF ServeChecks, TypeOK, catalogVars
<1>7. CASE ServeReads(t)
  <2>1. LET c == [call[t] EXCEPT !.relays = settings[DbOf[t]].relays] IN
        /\ c \in Calls /\ c.doing = call[t].doing /\ c.id = call[t].id
        /\ c.peer = call[t].peer /\ c.name = call[t].name
    BY DEF TypeOK, Calls, Settings
  <2>2. call[t].doing = "serve" /\ call[t].id = Throwaway
    BY <1>7 DEF ServeReads, Becomes, Goes, CallIsShaped, OfServe, Unlooked
  <2>3. at' \in [Threads -> Phases] /\ call' \in [Threads -> Calls] /\ CallIsShaped'
    BY <1>7, <2>1, <2>2, BecomesTyped DEF ServeReads, Phases
  <2> QED BY <1>7, <2>3 DEF ServeReads, TypeOK, catalogVars
<1>8. CASE ServeCompares(t)
  <2>1. PICK c \in Calls, to \in {"locking", "binding"} :
          /\ Becomes(t, "comparing", to, c)
          /\ c.doing = call[t].doing /\ c.id = call[t].id /\ c.peer = call[t].peer
    BY <1>8, ComparesTo
  <2>2. call[t].doing = "serve" /\ call[t].id = Throwaway
    BY <1>8 DEF ServeCompares, Becomes, Goes, CallIsShaped, OfServe, Unlooked
  <2>3. at' \in [Threads -> Phases] /\ call' \in [Threads -> Calls] /\ CallIsShaped'
    BY <2>1, <2>2, BecomesTyped DEF Phases, OfServe
  <2> QED BY <1>8, <2>3 DEF ServeCompares, TypeOK, catalogVars
<1>5. CASE ServeStarts(t)
  <2>1. call[t].doing = "serve" /\ core[DbOf[t]] \in Cores
    BY <1>5 DEF ServeStarts, Goes, TypeOK, CallIsShaped, ServeIsChecked, Bound, OfServe
  <2>2. core' \in [Databases -> Cores \cup {None}]
    BY <1>5, <2>1 DEF ServeStarts, TypeOK, Cores
  <2>3. at' \in [Threads -> Phases] /\ CallIsShaped'
    BY <1>5, <2>1, GoesTyped DEF ServeStarts, Phases, Unlooked
  <2> QED BY <1>5, <2>2, <2>3 DEF ServeStarts, TypeOK, catalogVars
<1>6. CASE Stop(t)
  <2>1. core' \in [Databases -> Cores \cup {None}]
    BY <1>6 DEF Stop, Bound, TypeOK, Cores
  <2> QED BY <1>6, <2>1 DEF Stop, TypeOK, CallIsShaped, callVars, catalogVars
<1> QED BY <1>1, <1>2, <1>3, <1>4, <1>5, <1>6, <1>7, <1>8 DEF Serves

\* What a call does once it has an endpoint.
LEMMA HasCoreTyped ==
  ASSUME TypeOK, CallIsShaped, NEW t \in Threads, NEW from, NEW c \in Calls, HasCore(t, from, c),
         c.doing = call[t].doing, c.peer = call[t].peer, c.name = call[t].name
  PROVE  /\ at' \in [Threads -> Phases] /\ call' \in [Threads -> Calls] /\ CallIsShaped'
<1>1. c.doing = "attach" => c.peer \in Peers /\ c.name \in Aliases
  BY DEF CallIsShaped
<1>2. CASE c.doing = "serve" /\ Becomes(t, from, "starting", c)
  BY <1>1, <1>2, BecomesTyped DEF Phases, Unlooked
<1>3. CASE c.doing = "attach" /\ Becomes(t, from, "creating", c)
  BY <1>1, <1>3, BecomesTyped DEF Phases, OfServe, Unlooked
<1>4. CASE Returns(t, from)
  BY <1>4, ReturnsTyped
<1> QED BY <1>2, <1>3, <1>4 DEF HasCore

LEMMA BindsTyped ==
  ASSUME IInv, NEW t \in Threads, Binds(t)
  PROVE  TypeOK' /\ CallIsShaped'
<1> USE DbOfAssumption, NoCallIsCall DEF IInv
<1>1. CASE Dial(t)
  <2>1. LET c == [NoCall EXCEPT !.doing = "dial"] IN c \in Calls /\ c.doing = "dial" /\ c.id = Throwaway
    BY DEF Calls, NoCall
  <2>2. at' \in [Threads -> Phases] /\ call' \in [Threads -> Calls] /\ CallIsShaped'
    BY <1>1, <2>1, BecomesTyped DEF Dial, Phases, OfServe
  <2> QED BY <1>1, <2>2 DEF Dial, TypeOK, catalogVars
<1>9. CASE ReadsSettings(t)
  <2>1. LET c == [call[t] EXCEPT !.read = settings[DbOf[t]]] IN
        /\ c \in Calls /\ c.doing = call[t].doing /\ c.id = call[t].id
        /\ c.peer = call[t].peer /\ c.name = call[t].name
    BY DEF TypeOK, Calls
  <2>2. call[t].id = Throwaway
    BY <1>9 DEF ReadsSettings, Becomes, Goes, CallIsShaped, Unlooked
  <2>3. at' \in [Threads -> Phases] /\ call' \in [Threads -> Calls] /\ CallIsShaped'
    BY <1>9, <2>1, <2>2, BecomesTyped DEF ReadsSettings, Phases, CallIsShaped, OfServe
  <2> QED BY <1>9, <2>3 DEF ReadsSettings, TypeOK, catalogVars
<1>2. CASE FindsCore(t)
  <2>1. LET c == [call[t] EXCEPT !.read = Unset, !.saw = IF @ = "unbound" THEN "overtaken" ELSE @] IN
        c \in Calls /\ c.doing = call[t].doing /\ c.peer = call[t].peer /\ c.name = call[t].name
    BY DEF TypeOK, Calls
  <2>2. at' \in [Threads -> Phases] /\ call' \in [Threads -> Calls] /\ CallIsShaped'
    BY <1>2, <2>1, HasCoreTyped DEF FindsCore
  <2> QED BY <1>2, <2>2 DEF FindsCore, TypeOK, catalogVars
<1>3. CASE CreatesCore(t)
  <2>1. LET c == [call[t] EXCEPT !.relays = call[t].read.relays, !.read = Unset] IN
        c \in Calls /\ c.doing = call[t].doing /\ c.peer = call[t].peer /\ c.name = call[t].name
    BY DEF TypeOK, Calls, Settings
  <2>2. at' \in [Threads -> Phases] /\ call' \in [Threads -> Calls] /\ CallIsShaped'
    BY <1>3, <2>1, BecomesTyped DEF CreatesCore, Phases, CallIsShaped, OfServe, Unlooked
  <2> QED BY <1>3, <2>2 DEF CreatesCore, TypeOK, catalogVars
<1>4. CASE KeyExists(t)
  <2>1. at' \in [Threads -> Phases] /\ CallIsShaped'
    BY <1>4, GoesTyped DEF KeyExists, Phases, OfServe, Unlooked
  <2> QED BY <1>4, <2>1 DEF KeyExists, TypeOK, catalogVars
<1>5. CASE CreatesKey(t)
  <2>1. at' \in [Threads -> Phases] /\ CallIsShaped'
    BY <1>5, GoesTyped DEF CreatesKey, Phases, OfServe, Unlooked
  <2> QED BY <1>5, <2>1 DEF CreatesKey, TypeOK, catalogVars
<1>6. CASE WritesKey(t) \/ ReadsKey(t)
  <2>1. CASE WritesKey(t)
    <3>1. LET c == [call[t] EXCEPT !.id = DbOf[t]] IN
          c \in Calls /\ c.doing = call[t].doing /\ c.peer = call[t].peer /\ c.name = call[t].name
      BY DEF TypeOK, Calls, Identities
    <3>2. at' \in [Threads -> Phases] /\ call' \in [Threads -> Calls] /\ CallIsShaped'
      BY <2>1, <3>1, BecomesTyped DEF WritesKey, Phases, CallIsShaped, OfServe, Unlooked
    <3> QED BY <2>1, <3>2 DEF WritesKey, TypeOK, catalogVars
  <2>2. CASE ReadsKey(t)
    <3>1. keyFile \in Databases
      BY <2>2 DEF ReadsKey, TypeOK, KeyIsKept, Becomes, Goes
    <3>2. LET c == [call[t] EXCEPT !.id = keyFile] IN
          c \in Calls /\ c.doing = call[t].doing /\ c.peer = call[t].peer /\ c.name = call[t].name
      BY <3>1 DEF TypeOK, Calls, Identities
    <3>3. at' \in [Threads -> Phases] /\ call' \in [Threads -> Calls] /\ CallIsShaped'
      BY <2>2, <3>2, BecomesTyped DEF ReadsKey, Phases, CallIsShaped, OfServe, Unlooked
    <3> QED BY <2>2, <3>3 DEF ReadsKey, TypeOK, catalogVars
  <2> QED BY <1>6, <2>1, <2>2
<1>7. CASE CoreFails(t)
  BY <1>7 DEF CoreFails, TypeOK, CallIsShaped, Phases, catalogVars, OfServe, Unlooked
<1>8. CASE BindsCore(t)
  <2>1. at' \in [Threads -> Phases] /\ call' \in [Threads -> Calls] /\ CallIsShaped'
    <3>1. call[t] \in Calls
      BY DEF TypeOK
    <3> QED BY <1>8, <3>1, HasCoreTyped, ReturnsTyped DEF BindsCore, Throws
  <2>2. call[t].id \in Identities /\ call[t].relays \in RelayLists
    BY DEF TypeOK, Calls
  <2>3. core' \in [Databases -> Cores \cup {None}]
    BY <1>8, <2>2, RelaysAssumption DEF BindsCore, TypeOK, Cores
  <2> QED BY <1>8, <2>1, <2>3 DEF BindsCore, TypeOK, catalogVars
<1> QED BY <1>1, <1>2, <1>3, <1>4, <1>5, <1>6, <1>7, <1>8, <1>9 DEF Binds

LEMMA AttachesTyped ==
  ASSUME IInv, NEW t \in Threads, AttachesPeer(t)
  PROVE  TypeOK' /\ CallIsShaped'
<1> USE DbOfAssumption, NoCallIsCall DEF IInv
<1>1. ASSUME NEW p \in Peers, NEW n \in Aliases, Attach(t, p, n) PROVE TypeOK' /\ CallIsShaped'
  <2>1. LET c == [NoCall EXCEPT !.doing = "attach", !.peer = p, !.name = n] IN
        c \in Calls /\ c.doing = "attach" /\ c.id = Throwaway /\ c.peer = p /\ c.name = n
    BY DEF Calls, NoCall
  <2>2. at' \in [Threads -> Phases] /\ call' \in [Threads -> Calls] /\ CallIsShaped'
    BY <1>1, <2>1, BecomesTyped DEF Attach, Phases, OfServe
  <2>3. redone' \in [Databases -> SUBSET Peers]
    BY <1>1 DEF Attach, TypeOK
  <2> QED BY <1>1, <2>2, <2>3 DEF Attach, TypeOK
<1>2. CASE CreatesSecret(t)
  <2>1. at' \in [Threads -> Phases] /\ CallIsShaped'
    <3>1. Goes(t, "creating", "attaching") /\ UNCHANGED call /\ call[t].doing = "attach"
      BY <1>2 DEF CreatesSecret, CallIsShaped, Goes
    <3> QED BY <3>1, GoesTyped DEF Phases, OfServe, Unlooked
  <2>2. secrets' \in [Databases -> SUBSET TokenPeers]
    BY <1>2 DEF CreatesSecret, TypeOK
  <2> QED BY <1>2, <2>1, <2>2 DEF CreatesSecret, TypeOK
<1>3. CASE Attaches(t)
  <2>1. at' \in [Threads -> Phases] /\ call' \in [Threads -> Calls] /\ CallIsShaped'
    BY <1>3, ReturnsTyped DEF Attaches
  <2>2. call[t].peer \in Peers /\ call[t].name \in Aliases
    BY <1>3 DEF Attaches, Returns, Becomes, Goes, CallIsShaped
  <2>3. catalogs' \in [Databases -> SUBSET [peer : Peers, name : Aliases]]
    BY <1>3, <2>2 DEF Attaches, TypeOK
  <2> QED BY <1>3, <2>1, <2>3 DEF Attaches, TypeOK
<1>4. CASE AttachFails(t)
  <2>1. at' \in [Threads -> Phases] /\ CallIsShaped'
    <3>1. Goes(t, "attaching", "dropping") /\ UNCHANGED call /\ call[t].doing = "attach"
      BY <1>4 DEF AttachFails, CallIsShaped, Goes
    <3> QED BY <3>1, GoesTyped DEF Phases, OfServe, Unlooked
  <2> QED BY <1>4, <2>1 DEF AttachFails, TypeOK, catalogVars
<1>5. CASE DropsSecret(t)
  <2>1. at' \in [Threads -> Phases] /\ call' \in [Threads -> Calls] /\ CallIsShaped'
    BY <1>5, ReturnsTyped DEF DropsSecret, Throws
  <2>2. secrets' \in [Databases -> SUBSET TokenPeers]
    BY <1>5 DEF DropsSecret, TypeOK
  <2> QED BY <1>5, <2>1, <2>2 DEF DropsSecret, TypeOK
<1>6. CASE Detach(t)
  <2>1. catalogs' \in [Databases -> SUBSET [peer : Peers, name : Aliases]]
    BY <1>6 DEF Detach, TypeOK
  <2> QED BY <1>6, <2>1 DEF Detach, TypeOK, CallIsShaped, callVars
<1>7. CASE SecretFails(t)
  <2>1. at' \in [Threads -> Phases] /\ call' \in [Threads -> Calls] /\ CallIsShaped'
    BY <1>7, ReturnsTyped DEF SecretFails, Throws
  <2> QED BY <1>7, <2>1 DEF SecretFails, TypeOK, catalogVars
<1> QED BY <1>1, <1>2, <1>3, <1>4, <1>5, <1>6, <1>7 DEF AttachesPeer

LEMMA RestartsTyped ==
  ASSUME IInv, NEW d \in Databases, Restarts(d)
  PROVE  TypeOK' /\ CallIsShaped'
<1> USE DbOfAssumption, NoCallIsCall, RelaysAssumption DEF IInv
<1>1. TypeOK'
  BY DEF Restarts, TypeOK, Phases
<1>2. CallIsShaped'
  BY DEF Restarts, TypeOK, CallIsShaped, OfServe, Unlooked
<1> QED BY <1>1, <1>2

-----------------------------------------------------------------------------
(* The lock and the key.                                                   *)

\* The steps that touch neither the lock, nor an endpoint's presence, nor a
\* key: those of a thread that is not binding.
Elsewhere(t) ==
  \/ SetSettings(t) \/ Serves(t) \/ AttachesPeer(t)
  \/ Dial(t) \/ ReadsSettings(t) \/ FindsCore(t)

LEMMA ElsewhereIs ==
  ASSUME IInv, NEW t \in Threads, Elsewhere(t)
  PROVE  /\ UNCHANGED <<lock, keyFile>>
         /\ at'[t] \notin Locked
         /\ \A u \in Threads : u # t => at'[u] = at[u] /\ call'[u] = call[u]
         /\ at[t] \notin Locked
         /\ \A d \in Databases : Bound(d)' = Bound(d) /\ (Bound(d) => /\ core'[d].id = core[d].id
                                                                      /\ core'[d].relays = core[d].relays
                                                                      /\ core'[d].bound_relays = core[d].bound_relays)
<1> USE DbOfAssumption DEF IInv, Locked
<1>1. CASE SetSettings(t) \/ Stop(t) \/ Detach(t)
  <2>1. at' = at /\ call' = call /\ at[t] = "idle" /\ UNCHANGED <<lock, keyFile>>
    BY <1>1 DEF SetSettings, Stop, Detach, Idle, callVars
  <2>2. \A d \in Databases : Bound(d)' = Bound(d) /\ (Bound(d) => /\ core'[d].id = core[d].id
                                                                  /\ core'[d].relays = core[d].relays
                                                                  /\ core'[d].bound_relays = core[d].bound_relays)
    <3>1. CASE UNCHANGED core
      BY <3>1 DEF Bound
    <3>2. CASE Stop(t)
      <4>1. core[DbOf[t]] \in Cores /\ core' = [core EXCEPT ![DbOf[t]].serving = FALSE]
        BY <3>2 DEF Stop, Bound, TypeOK
      <4>2. core'[DbOf[t]] \in Cores
        BY <4>1 DEF TypeOK, Cores
      <4> QED BY <4>1, <4>2, CoresAssumption DEF Bound, TypeOK, Cores
    <3> QED BY <1>1, <3>1, <3>2 DEF SetSettings, Detach
  <2> QED BY <2>1, <2>2
<1>2. CASE ServeStarts(t)
  <2>1. core[DbOf[t]] \in Cores /\ core' = [core EXCEPT ![DbOf[t]].serving = TRUE]
    BY <1>2 DEF ServeStarts, Goes, Bound, TypeOK, ServeIsChecked
  <2>2. core'[DbOf[t]] \in Cores
    BY <2>1 DEF TypeOK, Cores
  <2>3. \A d \in Databases : Bound(d)' = Bound(d) /\ (Bound(d) => /\ core'[d].id = core[d].id
                                                                  /\ core'[d].relays = core[d].relays
                                                                  /\ core'[d].bound_relays = core[d].bound_relays)
    BY <2>1, <2>2, CoresAssumption DEF Bound, TypeOK, Cores
  <2> QED BY <1>2, <2>3 DEF ServeStarts, Goes, TypeOK
<1>3. CASE FindsCore(t)
  BY <1>3 DEF FindsCore, HasCore, Returns, Becomes, Goes, TypeOK, catalogVars, Bound
<1>4. CASE \E e \in BOOLEAN : Serve(t, e)
  BY <1>4 DEF Serve, Idle, Becomes, Goes, TypeOK, Bound
<1>5. CASE ServeRefuses(t) \/ ServeChecks(t) \/ ServeReads(t) \/ ServeFails(t) \/ ServeReturns(t) \/ Dial(t)
           \/ ReadsSettings(t)
  BY <1>5 DEF ServeRefuses, ServeChecks, ServeReads, ServeFails, ServeReturns, Dial, ReadsSettings,
              Idle, Throws, Returns, Becomes, Goes, TypeOK, Bound
<1>8. CASE ServeCompares(t)
  BY <1>8 DEF ServeCompares, Becomes, Goes, TypeOK, Bound
<1>6. CASE \E p \in Peers, n \in Aliases : Attach(t, p, n)
  BY <1>6 DEF Attach, Idle, Becomes, Goes, TypeOK, Bound
<1>7. CASE CreatesSecret(t) \/ SecretFails(t) \/ Attaches(t) \/ AttachFails(t) \/ DropsSecret(t)
  BY <1>7 DEF CreatesSecret, SecretFails, Attaches, AttachFails, DropsSecret,
              Throws, Returns, Becomes, Goes, TypeOK, Bound
<1> QED BY <1>1, <1>2, <1>3, <1>4, <1>5, <1>6, <1>7, <1>8 DEF Elsewhere, Serves, AttachesPeer

LEMMA ElsewhereKeeps ==
  ASSUME IInv, NEW t \in Threads, Elsewhere(t)
  PROVE  LockIsHeld' /\ KeyIsKept' /\ OneIdentity'
<1>1. /\ UNCHANGED <<lock, keyFile>>
      /\ at'[t] \notin Locked
      /\ \A u \in Threads : u # t => at'[u] = at[u] /\ call'[u] = call[u]
      /\ \A d \in Databases : Bound(d)' = Bound(d) /\ (Bound(d) => core'[d].id = core[d].id)
  BY ElsewhereIs
<1>2. LockIsHeld'
  BY <1>1, DbOfAssumption DEF IInv, LockIsHeld
<1>3. KeyIsKept'
  BY <1>1 DEF IInv, KeyIsKept, Locked
<1>4. OneIdentity'
  BY <1>1 DEF IInv, OneIdentity
<1> QED BY <1>2, <1>3, <1>4

\* The end of a binding, one way or the other.
LEMMA BindingEnds ==
  ASSUME TypeOK, NEW t \in Threads, BindsCore(t)
  PROVE  /\ at[t] = "endpoint" /\ at'[t] \in {"idle", "starting", "creating"}
         /\ \A u \in Threads : u # t => at'[u] = at[u] /\ call'[u] = call[u]
         /\ call[t].relays = TooLong => at'[t] = "idle"
         /\ at'[t] = "idle" => call'[t] = NoCall
         /\ at'[t] # "idle" => call'[t] = call[t]
         /\ at'[t] = "starting" => call[t].doing = "serve"
         /\ at'[t] = "creating" => call[t].doing = "attach"
<1>1. CASE Returns(t, "endpoint")
  <2>1. at[t] = "endpoint" /\ at' = [at EXCEPT ![t] = "idle"] /\ call' = [call EXCEPT ![t] = NoCall]
    BY <1>1 DEF Returns, Becomes, Goes
  <2> QED BY <2>1 DEF TypeOK
<1>2. CASE call[t].relays # TooLong /\ call[t].doing = "serve" /\ Becomes(t, "endpoint", "starting", call[t])
  BY <1>2 DEF Becomes, Goes, TypeOK
<1>3. CASE call[t].relays # TooLong /\ call[t].doing = "attach" /\ Becomes(t, "endpoint", "creating", call[t])
  BY <1>3 DEF Becomes, Goes, TypeOK
<1> QED BY <1>1, <1>2, <1>3 DEF BindsCore, HasCore, Throws

LEMMA LockKeeps ==
  ASSUME IInv, NEW t \in Threads, Binds(t)
  PROVE  LockIsHeld'
<1> USE DbOfAssumption DEF IInv, Locked
<1>1. CASE Dial(t) \/ ReadsSettings(t) \/ FindsCore(t)
  BY <1>1, ElsewhereKeeps DEF Elsewhere
<1>2. CASE CreatesCore(t)
  <2>1. lock[DbOf[t]] = None /\ ~Bound(DbOf[t]) /\ lock' = [lock EXCEPT ![DbOf[t]] = t] /\ core' = core
        /\ \A u \in Threads : u # t => at'[u] = at[u]
    BY <1>2 DEF CreatesCore, Becomes, Goes, Unlocked, TypeOK
  <2>2. \A u \in Threads : u # None
    BY IdentityAssumption
  <2> QED BY <2>1, <2>2 DEF TypeOK, LockIsHeld, Bound
<1>3. CASE KeyExists(t) \/ CreatesKey(t)
  BY <1>3 DEF KeyExists, CreatesKey, Goes, TypeOK, LockIsHeld, Bound
<1>4. CASE WritesKey(t) \/ ReadsKey(t)
  BY <1>4 DEF WritesKey, ReadsKey, Becomes, Goes, TypeOK, LockIsHeld, Bound
<1>5. CASE CoreFails(t)
  BY <1>5 DEF CoreFails, TypeOK, LockIsHeld, Bound
<1>6. CASE BindsCore(t)
  <2>1. at[t] = "endpoint" /\ at'[t] \notin Locked /\ \A u \in Threads : u # t => at'[u] = at[u]
    BY <1>6, BindingEnds
  <2>2. \A d \in Databases : d # DbOf[t] => core'[d] = core[d] /\ lock'[d] = lock[d]
    BY <1>6 DEF BindsCore, TypeOK
  <2>3. ASSUME NEW u \in Threads, at'[u] \in Locked PROVE lock'[DbOf[u]] = u /\ ~Bound(DbOf[u])'
    <3>1. u # t /\ at[u] \in Locked
      BY <2>1, <2>3
    <3>2. lock[DbOf[u]] = u /\ ~Bound(DbOf[u]) /\ lock[DbOf[t]] = t
      BY <2>1, <3>1 DEF LockIsHeld
    <3>3. DbOf[u] # DbOf[t] /\ DbOf[u] \in Databases
      BY <3>1, <3>2
    <3> QED BY <2>2, <3>2, <3>3 DEF Bound
  <2> QED BY <2>3 DEF LockIsHeld
<1> QED BY <1>1, <1>2, <1>3, <1>4, <1>5, <1>6 DEF Binds

LEMMA KeyKeeps ==
  ASSUME IInv, NEW t \in Threads, Binds(t)
  PROVE  KeyIsKept' /\ OneIdentity'
<1> USE DbOfAssumption, IdentityAssumption DEF IInv, Locked
<1>1. CASE Dial(t) \/ ReadsSettings(t) \/ FindsCore(t)
  BY <1>1, ElsewhereKeeps DEF Elsewhere
<1>2. CASE CreatesCore(t)
  <2>1. call'[t].id = Throwaway
    BY <1>2 DEF CreatesCore, Becomes, Goes, CallIsShaped, TypeOK, Calls, Unlooked
  <2> QED BY <1>2, <2>1 DEF CreatesCore, Becomes, Goes, TypeOK, KeyIsKept, OneIdentity, Bound
<1>3. CASE KeyExists(t)
  BY <1>3 DEF KeyExists, Goes, TypeOK, KeyIsKept, OneIdentity, Bound
<1>4. CASE CreatesKey(t)
  <2>1. CASE keyFile = "absent"
    <3>1. keyFile' = "empty" /\ call' = call /\ core' = core /\ at' = [at EXCEPT ![t] = "writing key"]
      BY <1>4, <2>1 DEF CreatesKey, Goes
    <3>2. \A u \in Threads : call[u].id # "absent" /\ call[u].id \in Identities
      BY DEF TypeOK, Calls, Identities
    <3>3. \A d \in Databases : Bound(d) => core[d].id # "absent"
      BY DEF TypeOK, Cores, Identities, Bound
    <3>4. KeyIsKept'
      BY <2>1, <3>1, <3>2 DEF TypeOK, KeyIsKept
    <3>5. OneIdentity'
      BY <2>1, <3>1, <3>3 DEF OneIdentity, Bound
    <3> QED BY <3>4, <3>5
  <2>2. CASE keyFile # "absent"
    BY <1>4, <2>2, ZenonT(30) DEF CreatesKey, Goes, TypeOK, KeyIsKept, OneIdentity, Bound
  <2> QED BY <2>1, <2>2
<1>5. CASE WritesKey(t)
  <2>1. keyFile = "empty" /\ keyFile' = DbOf[t] /\ core' = core
        /\ at' = [at EXCEPT ![t] = "endpoint"] /\ call' = [call EXCEPT ![t] = [call[t] EXCEPT !.id = DbOf[t]]]
    BY <1>5 DEF WritesKey, Becomes, Goes, KeyIsKept
  <2>2. \A u \in Threads : call[u].id # "empty" /\ call[u] \in Calls
    BY DEF TypeOK, Calls, Identities
  <2>3. \A d \in Databases : Bound(d) => core[d].id # "empty"
    BY DEF TypeOK, Cores, Identities, Bound
  <2>4. call'[t].id = DbOf[t] /\ at[t] = "writing key"
    <3>1. call'[t] = [call[t] EXCEPT !.id = DbOf[t]] /\ call[t] \in Calls
      BY <2>1, <2>2 DEF TypeOK
    <3>2. at[t] = "writing key"
      BY <1>5 DEF WritesKey, Becomes, Goes
    <3> QED BY <3>1, <3>2 DEF Calls
  <2>5. KeyIsKept'
    BY <2>1, <2>2, <2>4 DEF TypeOK, KeyIsKept
  <2>6. OneIdentity'
    BY <2>1, <2>3 DEF OneIdentity, Bound
  <2> QED BY <2>5, <2>6
<1>6. CASE ReadsKey(t)
  <2>1. call'[t].id = keyFile
    BY <1>6, ZenonT(30) DEF ReadsKey, Becomes, TypeOK, Calls
  <2> QED BY <1>6, <2>1 DEF ReadsKey, Becomes, Goes, TypeOK, KeyIsKept, OneIdentity, Bound
<1>7. CASE CoreFails(t)
  BY <1>7 DEF CoreFails, TypeOK, KeyIsKept, OneIdentity, Bound
<1>8. CASE BindsCore(t)
  <2>1. at[t] = "endpoint" /\ UNCHANGED keyFile /\ at'[t] \notin Locked
        /\ \A u \in Threads : u # t => at'[u] = at[u] /\ call'[u] = call[u]
    BY <1>8, BindingEnds DEF BindsCore
  <2>2. \A d \in Databases : d # DbOf[t] => core'[d] = core[d]
    BY <1>8 DEF BindsCore, TypeOK
  <2>3. core'[DbOf[t]].id = call[t].id
    BY <1>8 DEF BindsCore, TypeOK
  <2>4. KeyIsKept'
    BY <2>1, ZenonT(30) DEF KeyIsKept
  <2>5. OneIdentity'
    BY <2>1, <2>2, <2>3 DEF OneIdentity, KeyIsKept, Bound
  <2> QED BY <2>4, <2>5
<1> QED BY <1>1, <1>2, <1>3, <1>4, <1>5, <1>6, <1>7, <1>8 DEF Binds

LEMMA RestartsKeep ==
  ASSUME IInv, NEW d \in Databases, Restarts(d)
  PROVE  LockIsHeld' /\ KeyIsKept' /\ OneIdentity'
<1> USE DbOfAssumption DEF IInv, Locked
<1>1. keyFile' = keyFile /\ \A t \in Threads : at'[t] # "idle" => DbOf[t] # d /\ at'[t] = at[t] /\ call'[t] = call[t]
  BY DEF Restarts, TypeOK
<1>2. \A e \in Databases : e # d => core'[e] = core[e] /\ lock'[e] = lock[e]
  BY DEF Restarts, TypeOK
<1>3. LockIsHeld'
  BY <1>1, <1>2 DEF LockIsHeld, Bound
<1>4. KeyIsKept'
  BY <1>1 DEF KeyIsKept
<1>5. OneIdentity'
  BY <1>1, <1>2 DEF OneIdentity, Bound, Restarts, TypeOK
<1> QED BY <1>3, <1>4, <1>5

-----------------------------------------------------------------------------
(* What a serve finds, and what it gets.                                   *)

\* What is known of one call's endpoint, and of a call in any state.
Checked(t) == LET d == DbOf[t] IN
  /\ at[t] \in Locked \ {"endpoint"} => ~call[t].ephemeral
  /\ at[t] = "endpoint" /\ call[t].ephemeral => call[t].id = Throwaway
  /\ call[t].doing = "serve" /\ at[t] \in {"binding", "locking"} /\ call[t].saw = "bound" =>
       Bound(d) /\ ~call[t].ephemeral /\ call[t].relays = core[d].bound_relays
  /\ at[t] = "binding" => ~call[t].ephemeral
  /\ at[t] = "locking" /\ call[t].ephemeral => call[t].read.ephemeral
  /\ at[t] \in {"starting", "waiting"} =>
       /\ Bound(d)
       /\ call[t].saw # "overtaken" /\ core[d].relays # TooLong =>
            (call[t].ephemeral => core[d].id = Throwaway) /\ core[d].relays = call[t].relays

Noted(d) == Bound(d) /\ core[d].relays # TooLong => core[d].bound_relays = core[d].relays

LEMMA ServeIsCheckedIs == ServeIsChecked <=> (\A d \in Databases : Noted(d)) /\ (\A t \in Threads : Checked(t))
BY DEF ServeIsChecked, Checked, Noted

\* A step that leaves a call and its endpoint alone.
LEMMA CheckedStays ==
  ASSUME TypeOK, NEW u \in Threads, Checked(u), at'[u] = at[u], call'[u] = call[u],
         Bound(DbOf[u]) => /\ Bound(DbOf[u])' /\ core'[DbOf[u]].id = core[DbOf[u]].id
                           /\ core'[DbOf[u]].relays = core[DbOf[u]].relays
                           /\ core'[DbOf[u]].bound_relays = core[DbOf[u]].bound_relays
  PROVE  Checked(u)'
BY DEF Checked

LEMMA ElsewhereChecked ==
  ASSUME IInv, NEW t \in Threads, Elsewhere(t)
  PROVE  ServeIsChecked'
<1> USE DbOfAssumption DEF IInv, Locked
<1>1. /\ at'[t] \notin Locked
      /\ \A u \in Threads : u # t => at'[u] = at[u] /\ call'[u] = call[u]
      /\ \A d \in Databases : Bound(d)' = Bound(d) /\ (Bound(d) => /\ core'[d].id = core[d].id
                                                                   /\ core'[d].relays = core[d].relays
                                                                   /\ core'[d].bound_relays = core[d].bound_relays)
  BY ElsewhereIs
<1>2. \A d \in Databases : Noted(d)'
  BY <1>1 DEF ServeIsChecked, Noted
<1>3. \A u \in Threads : Checked(u)
  BY ServeIsCheckedIs
<1>4. ASSUME NEW u \in Threads, u # t PROVE Checked(u)'
  BY <1>1, <1>3, <1>4, CheckedStays
<1>5. Checked(t)'
  <2>1. CASE SetSettings(t) \/ Stop(t) \/ Detach(t)
    BY <1>1, <1>3, <2>1, CheckedStays DEF SetSettings, Stop, Detach, callVars
  <2>2. CASE \E e \in BOOLEAN : Serve(t, e)
    BY <2>2 DEF Serve, Becomes, Goes, Checked, TypeOK
  <2>3. CASE ServeRefuses(t) \/ ServeFails(t) \/ ServeReturns(t) \/ SecretFails(t) \/ Attaches(t) \/ DropsSecret(t)
    BY <2>3 DEF ServeRefuses, SecretFails, ServeFails, ServeReturns, Attaches, DropsSecret, Throws, Returns, Becomes, Goes, Checked, TypeOK
  <2>4. CASE ServeChecks(t) \/ ServeReads(t)
    <3>1. at'[t] \in {"reading", "comparing"}
      BY <2>4 DEF ServeChecks, ServeReads, Becomes, Goes, TypeOK
    <3> QED BY <3>1 DEF Checked
  <2>10. CASE ServeCompares(t)
    <3>1. /\ core' = core
          /\ Bound(DbOf[t]) => call[t].relays = core[DbOf[t]].bound_relays
          /\ at'[t] = (IF call[t].ephemeral THEN "locking" ELSE "binding")
          /\ call'[t].ephemeral = call[t].ephemeral /\ call'[t].relays = call[t].relays
          /\ call'[t].read.ephemeral = call[t].ephemeral
          /\ call'[t].saw = "bound" => Bound(DbOf[t]) /\ ~call[t].ephemeral
      BY <2>10, ComparesFinds
    <3> QED BY <3>1 DEF Checked, Bound
  <2>11. CASE ReadsSettings(t)
    <3>1. call'[t] = [call[t] EXCEPT !.read = settings[DbOf[t]]] /\ call[t] \in Calls
          /\ at[t] = "binding" /\ at'[t] = "locking" /\ core' = core
      BY <2>11 DEF ReadsSettings, Becomes, Goes, TypeOK
    <3>2. /\ call'[t].ephemeral = call[t].ephemeral /\ call'[t].relays = call[t].relays
          /\ call'[t].saw = call[t].saw /\ call'[t].doing = call[t].doing
      BY <3>1 DEF Calls
    <3> QED BY <1>3, <3>1, <3>2 DEF Checked, Bound
  <2>5. CASE ServeStarts(t)
    <3>1. at[t] = "starting" /\ at'[t] = "waiting" /\ call'[t] = call[t]
      BY <2>5 DEF ServeStarts, Goes, TypeOK
    <3> QED BY <1>1, <1>3, <3>1 DEF Checked
  <2>6. CASE Dial(t)
    <3>1. call'[t].doing = "dial" /\ ~call'[t].ephemeral /\ at'[t] = "binding"
      BY <2>6, NoCallIsCall DEF Dial, Becomes, Goes, TypeOK, Calls
    <3> QED BY <3>1 DEF Checked
  <2>7. CASE \E p \in Peers, n \in Aliases : Attach(t, p, n)
    <3>1. call'[t].doing = "attach" /\ ~call'[t].ephemeral /\ at'[t] = "binding"
      BY <2>7, NoCallIsCall DEF Attach, Becomes, Goes, TypeOK, Calls
    <3> QED BY <3>1 DEF Checked
  <2>8. CASE CreatesSecret(t) \/ AttachFails(t)
    BY <2>8 DEF CreatesSecret, AttachFails, Goes, TypeOK, Checked
  <2>9. CASE FindsCore(t)
    <3> DEFINE c == [call[t] EXCEPT !.read = Unset, !.saw = IF @ = "unbound" THEN "overtaken" ELSE @]
    <3>1. HasCore(t, "locking", c) /\ core' = core /\ Bound(DbOf[t]) /\ at[t] = "locking"
      BY <2>9 DEF FindsCore, HasCore, Returns, Becomes, Goes
    <3>2. CASE call[t].doing = "serve" /\ Becomes(t, "locking", "starting", c)
      <4>1. at'[t] = "starting" /\ call'[t] = c /\ call[t] \in Calls
        BY <3>2 DEF Becomes, Goes, TypeOK
      <4>2. c.relays = call[t].relays /\ c.ephemeral = call[t].ephemeral
            /\ (c.saw # "overtaken" => call[t].saw = "bound")
        BY <4>1 DEF Calls
      <4>3. call[t].saw = "bound" => ~call[t].ephemeral /\ call[t].relays = core[DbOf[t]].bound_relays
        BY <1>3, <3>1, <3>2 DEF Checked
      <4>4. core[DbOf[t]].relays # TooLong => core[DbOf[t]].bound_relays = core[DbOf[t]].relays
        BY <3>1 DEF ServeIsChecked
      <4> QED BY <3>1, <4>1, <4>2, <4>3, <4>4 DEF Checked, Bound
    <3>3. CASE at'[t] \in {"creating", "idle"}
      BY <3>3 DEF Checked
    <3>4. c.doing = call[t].doing
      BY DEF TypeOK, Calls
    <3> QED BY <3>1, <3>2, <3>3, <3>4 DEF HasCore, Returns, Becomes, Goes, TypeOK
  <2> QED BY <2>1, <2>2, <2>3, <2>4, <2>5, <2>6, <2>7, <2>8, <2>9, <2>10, <2>11 DEF Elsewhere, Serves, AttachesPeer
<1> QED BY <1>2, <1>4, <1>5, ServeIsCheckedIs DEF ServeIsChecked, Checked, Noted

LEMMA BindsChecked ==
  ASSUME IInv, NEW t \in Threads, Binds(t)
  PROVE  ServeIsChecked'
<1> USE DbOfAssumption DEF IInv, Locked
<1>1. \A u \in Threads : Checked(u)
  BY ServeIsCheckedIs
<1>2. CASE Dial(t) \/ ReadsSettings(t) \/ FindsCore(t)
  BY <1>2, ElsewhereChecked DEF Elsewhere
<1>3. CASE CreatesCore(t) \/ KeyExists(t) \/ CreatesKey(t) \/ WritesKey(t) \/ ReadsKey(t) \/ CoreFails(t)
  <2>1. core' = core /\ \A u \in Threads : u # t => at'[u] = at[u] /\ call'[u] = call[u]
    BY <1>3 DEF CreatesCore, KeyExists, CreatesKey, WritesKey, ReadsKey, CoreFails, Becomes, Goes, TypeOK
  <2>2. \A d \in Databases : Noted(d)'
    BY <2>1 DEF ServeIsChecked, Noted, Bound
  <2>3. ASSUME NEW u \in Threads, u # t PROVE Checked(u)'
    BY <1>1, <2>1, <2>3, CheckedStays DEF Bound
  <2>4. Checked(t)'
    <3>1. CASE CreatesCore(t)
      <4>1. call[t].id = Throwaway /\ call[t] \in Calls
        BY <3>1 DEF CreatesCore, Becomes, Goes, CallIsShaped, TypeOK, Unlooked
      <4>2. /\ call'[t] = [call[t] EXCEPT !.relays = call[t].read.relays, !.read = Unset]
            /\ at'[t] = IF call[t].read.ephemeral THEN "endpoint" ELSE "looking"
        BY <3>1 DEF CreatesCore, Becomes, Goes, TypeOK
      <4>3. call'[t].ephemeral = call[t].ephemeral /\ call'[t].id = Throwaway
        BY <4>1, <4>2 DEF Calls
      <4>4. call[t].ephemeral => call[t].read.ephemeral
        BY <1>1, <3>1 DEF Checked, CreatesCore, Becomes, Goes
      <4> QED BY <4>2, <4>3, <4>4 DEF Checked
    <3>2. CASE KeyExists(t) \/ CreatesKey(t)
      <4>1. at[t] \in {"looking", "creating key"} /\ call' = call
            /\ at'[t] \in {"creating key", "reading key", "writing key"}
        BY <3>2 DEF KeyExists, CreatesKey, Goes, TypeOK
      <4> QED BY <1>1, <4>1 DEF Checked
    <3>3. CASE WritesKey(t) \/ ReadsKey(t)
      <4>1. at[t] \in {"writing key", "reading key"} /\ at'[t] = "endpoint" /\ call[t] \in Calls
            /\ \E k \in {DbOf[t], keyFile} : call'[t] = [call[t] EXCEPT !.id = k]
        BY <3>3 DEF WritesKey, ReadsKey, Becomes, Goes, TypeOK
      <4>2. ~call[t].ephemeral
        BY <1>1, <4>1 DEF Checked
      <4>3. ~call'[t].ephemeral
        BY <4>1, <4>2 DEF Calls
      <4> QED BY <4>1, <4>3 DEF Checked
    <3>4. CASE CoreFails(t)
      BY <3>4 DEF CoreFails, TypeOK, Checked
    <3> QED BY <1>3, <3>1, <3>2, <3>3, <3>4
  <2> QED BY <2>2, <2>3, <2>4 DEF ServeIsChecked, Checked, Noted
<1>4. CASE BindsCore(t)
  <2> DEFINE d == DbOf[t]
  <2>1. at[t] = "endpoint" /\ at'[t] \in {"idle", "starting", "creating"} /\ ~Bound(d)
        /\ lock[d] = t /\ \A u \in Threads : u # t => at'[u] = at[u] /\ call'[u] = call[u]
    BY <1>4, BindingEnds DEF LockIsHeld
  <2>2. /\ core'[d] = [id |-> call[t].id, relays |-> call[t].relays, serving |-> FALSE,
                       bound_relays |-> IF call[t].relays = TooLong THEN Default ELSE call[t].relays]
        /\ \A e \in Databases : e # d => core'[e] = core[e]
    BY <1>4 DEF BindsCore, TypeOK
  <2>3. Bound(d)'
    <3>1. core'[d] \in Cores
      BY <2>2, RelaysAssumption DEF TypeOK, Calls, Cores
    <3> QED BY <3>1, CoresAssumption DEF Bound
  <2>4. ASSUME NEW e \in Databases PROVE Noted(e)'
    <3>1. CASE e = d
      BY <2>2, <3>1 DEF Noted
    <3>2. CASE e # d
      BY <2>2, <3>2 DEF ServeIsChecked, Noted, Bound
    <3> QED BY <3>1, <3>2
  <2>5. ASSUME NEW u \in Threads, u # t PROVE Checked(u)'
    <3>1. CASE DbOf[u] = d
      <4>1. at[u] \notin Locked
        BY <2>1, <2>5, <3>1 DEF LockIsHeld
      <4>2. at[u] \notin {"starting", "waiting"}
            /\ ~(call[u].doing = "serve" /\ at[u] \in {"binding", "locking"} /\ call[u].saw = "bound")
        BY <1>1, <2>1, <3>1 DEF Checked
      <4> QED BY <1>1, <2>1, <2>5, <4>1, <4>2 DEF Checked
    <3>2. CASE DbOf[u] # d
      <4>1. DbOf[u] \in Databases
        OBVIOUS
      <4> QED BY <1>1, <2>1, <2>2, <2>5, <3>2, <4>1, CheckedStays DEF Bound
    <3> QED BY <3>1, <3>2
  <2>6. Checked(t)'
    <3>1. CASE at'[t] = "starting"
      <4>1. call'[t] = call[t] /\ call[t].relays # TooLong
        BY <1>4, <3>1, BindingEnds
      <4>2. call[t].ephemeral => call[t].id = Throwaway
        BY <1>1, <2>1 DEF Checked
      <4> QED BY <2>2, <2>3, <3>1, <4>1, <4>2 DEF Checked
    <3>2. CASE at'[t] \in {"idle", "creating"}
      BY <3>2 DEF Checked
    <3> QED BY <2>1, <3>1, <3>2
  <2> QED BY <2>4, <2>5, <2>6 DEF ServeIsChecked, Checked, Noted
<1> QED BY <1>2, <1>3, <1>4 DEF Binds

LEMMA RestartsChecked ==
  ASSUME IInv, NEW d \in Databases, Restarts(d)
  PROVE  ServeIsChecked'
<1> USE DbOfAssumption DEF IInv, Locked
<1>1. /\ \A t \in Threads : IF DbOf[t] = d THEN at'[t] = "idle" ELSE at'[t] = at[t] /\ call'[t] = call[t]
      /\ \A e \in Databases : IF e = d THEN core'[e] = None ELSE core'[e] = core[e]
  BY DEF Restarts, TypeOK
<1>2. \A u \in Threads : Checked(u)
  BY ServeIsCheckedIs
<1>3. \A e \in Databases : Noted(e)'
  BY <1>1 DEF ServeIsChecked, Noted, Bound
<1>4. ASSUME NEW u \in Threads PROVE Checked(u)'
  <2>1. CASE DbOf[u] = d
    BY <1>1, <2>1 DEF Checked
  <2>2. CASE DbOf[u] # d
    <3>1. DbOf[u] \in Databases
      OBVIOUS
    <3> QED BY <1>1, <1>2, <2>2, <3>1, CheckedStays DEF Bound
  <2> QED BY <2>1, <2>2
<1> QED BY <1>3, <1>4 DEF ServeIsChecked, Checked, Noted

-----------------------------------------------------------------------------
(* The secret.                                                             *)

\* What is known of a call that attaches a peer nobody attached twice.
First(t) == LET d == DbOf[t] IN
  call[t].peer \in TokenPeers \ redone[d] =>
    /\ ~Attached(d, call[t].peer)
    /\ \A u \in Threads : DbOf[u] = d /\ call[u].peer = call[t].peer => u = t
    /\ at[t] = "attaching" => call[t].peer \in secrets[d]

\* Steps that leave the catalogs alone, and begin no attach: a call's peer
\* stays, or is forgotten.
LEMMA PeersStay ==
  ASSUME IInv, UNCHANGED catalogVars,
         \A u \in Threads : call'[u].peer \in {call[u].peer, None},
         \A u \in Threads : at'[u] = "attaching" => at[u] = "attaching"
  PROVE  SecretComesFirst' /\ AttachedHasItsSecret'
<1> USE DbOfAssumption, PeersAssumption DEF IInv
<1>1. \A d \in Databases, p \in Peers : Attached(d, p)' = Attached(d, p)
  BY DEF catalogVars, Attached
<1>2. SecretComesFirst'
  BY <1>1 DEF SecretComesFirst, catalogVars
<1>3. ASSUME NEW d \in Databases, NEW p \in TokenPeers \ redone[d], Attached(d, p), ~Attaching(d, p)'
      PROVE  p \in secrets[d]
  <2>1. CASE Attaching(d, p)
    <3>1. PICK u \in Threads : DbOf[u] = d /\ call[u].peer = p
      BY <2>1 DEF Attaching
    <3>2. ~Attached(d, p)
      BY <3>1 DEF SecretComesFirst
    <3> QED BY <1>3, <3>2
  <2>2. CASE ~Attaching(d, p)
    BY <1>3, <2>2 DEF AttachedHasItsSecret
  <2> QED BY <2>1, <2>2
<1>4. AttachedHasItsSecret'
  BY <1>1, <1>3 DEF AttachedHasItsSecret, catalogVars
<1> QED BY <1>2, <1>4

LEMMA OthersSecret ==
  ASSUME IInv, NEW t \in Threads, SetSettings(t) \/ Serves(t) \/ Binds(t) \/ SecretFails(t) \/ AttachFails(t)
  PROVE  SecretComesFirst' /\ AttachedHasItsSecret'
<1> USE NoCallIsCall DEF IInv
<1> DEFINE Goal == /\ UNCHANGED catalogVars
                   /\ \A u \in Threads : call'[u].peer \in {call[u].peer, None}
                   /\ \A u \in Threads : at'[u] = "attaching" => at[u] = "attaching"
<1> SUFFICES Goal
  BY PeersStay
<1>1. CASE \/ SetSettings(t) \/ Stop(t) \/ AttachFails(t) \/ ServeChecks(t) \/ ServeStarts(t)
           \/ KeyExists(t) \/ CreatesKey(t)
  BY <1>1 DEF SetSettings, Stop, AttachFails, ServeChecks, ServeStarts, KeyExists, CreatesKey, Goes, callVars, TypeOK
<1>2. CASE ServeRefuses(t) \/ ServeFails(t) \/ ServeReturns(t) \/ CoreFails(t) \/ SecretFails(t)
  BY <1>2 DEF ServeRefuses, ServeFails, ServeReturns, CoreFails, SecretFails, Throws, Returns, Becomes, Goes, TypeOK
<1>3. ASSUME NEW c \in Calls, c.peer \in {call[t].peer, None}, NEW from, NEW to \in Phases \ {"attaching"},
             Becomes(t, from, to, c), UNCHANGED catalogVars
      PROVE  Goal
  BY <1>3 DEF Becomes, Goes, TypeOK
<1>4. CASE \E e \in BOOLEAN : Serve(t, e)
  <2>1. PICK e \in BOOLEAN : Serve(t, e)
    BY <1>4
  <2>2. LET c == [NoCall EXCEPT !.doing = "serve", !.ephemeral = e] IN c \in Calls /\ c.peer = None
    BY DEF Calls, NoCall
  <2> QED BY <1>3, <2>1, <2>2 DEF Serve, Phases
<1>5. CASE Dial(t)
  <2>1. LET c == [NoCall EXCEPT !.doing = "dial"] IN c \in Calls /\ c.peer = None
    BY DEF Calls, NoCall
  <2> QED BY <1>3, <1>5, <2>1 DEF Dial, Phases
<1>6. CASE ServeReads(t)
  <2>1. LET c == [call[t] EXCEPT !.relays = settings[DbOf[t]].relays] IN
        c \in Calls /\ c.peer = call[t].peer
    BY DbOfAssumption DEF TypeOK, Calls, Settings
  <2> QED BY <1>3, <1>6, <2>1 DEF ServeReads, Phases
<1>11. CASE ServeCompares(t)
  <2>1. UNCHANGED catalogVars /\ \E c \in Calls, to \in {"locking", "binding"} :
          Becomes(t, "comparing", to, c) /\ c.peer = call[t].peer
    BY <1>11, ComparesTo DEF ServeCompares
  <2> QED BY <1>3, <2>1 DEF Phases
<1>12. CASE ReadsSettings(t)
  <2>1. LET c == [call[t] EXCEPT !.read = settings[DbOf[t]]] IN c \in Calls /\ c.peer = call[t].peer
    BY DbOfAssumption DEF TypeOK, Calls
  <2> QED BY <1>3, <1>12, <2>1 DEF ReadsSettings, Phases
<1>7. CASE FindsCore(t)
  <2> DEFINE c == [call[t] EXCEPT !.read = Unset, !.saw = IF @ = "unbound" THEN "overtaken" ELSE @]
  <2>1. c \in Calls /\ c.peer = call[t].peer
    BY DEF TypeOK, Calls
  <2>2. UNCHANGED catalogVars /\ HasCore(t, "locking", c)
    BY <1>7 DEF FindsCore
  <2> QED BY <1>3, <2>1, <2>2 DEF HasCore, Returns, Phases
<1>8. CASE CreatesCore(t)
  <2>1. LET c == [call[t] EXCEPT !.relays = call[t].read.relays, !.read = Unset] IN
        c \in Calls /\ c.peer = call[t].peer
    BY DEF TypeOK, Calls, Settings
  <2> QED BY <1>3, <1>8, <2>1 DEF CreatesCore, Phases
<1>9. CASE WritesKey(t) \/ ReadsKey(t)
  <2>1. call[t] \in Calls /\ \A k : [call[t] EXCEPT !.id = k].peer = call[t].peer
    BY DEF TypeOK, Calls
  <2>2. UNCHANGED catalogVars /\ \E k \in {DbOf[t], keyFile} :
          Becomes(t, at[t], "endpoint", [call[t] EXCEPT !.id = k])
    BY <1>9 DEF WritesKey, ReadsKey, Becomes, Goes
  <2> QED BY <2>1, <2>2 DEF Becomes, Goes, TypeOK
<1>10. CASE BindsCore(t)
  <2>1. UNCHANGED catalogVars
    BY <1>10 DEF BindsCore
  <2> QED BY <1>10, <2>1, BindingEnds DEF TypeOK
<1> QED
  <2> HIDE DEF Goal
  <2> QED BY <1>1, <1>2, <1>4, <1>5, <1>6, <1>7, <1>8, <1>9, <1>10, <1>11, <1>12 DEF Serves, Binds

LEMMA AttachSecret ==
  ASSUME IInv, NEW t \in Threads, NEW p \in Peers, NEW n \in Aliases, Attach(t, p, n)
  PROVE  SecretComesFirst' /\ AttachedHasItsSecret'
<1> USE DbOfAssumption, PeersAssumption, NoCallIsCall DEF IInv
<1> DEFINE d == DbOf[t]
<1>1. /\ at[t] = "idle" /\ at'[t] = "binding" /\ call'[t].peer = p /\ call[t].peer = None
      /\ \A u \in Threads : u # t => at'[u] = at[u] /\ call'[u] = call[u]
      /\ UNCHANGED <<catalogs, secrets>>
      /\ redone' = IF Attached(d, p) \/ Attaching(d, p) THEN [redone EXCEPT ![d] = @ \cup {p}] ELSE redone
  <2>1. [NoCall EXCEPT !.doing = "attach", !.peer = p, !.name = n].peer = p
    BY DEF NoCall
  <2> QED BY <2>1 DEF Attach, Idle, Becomes, Goes, TypeOK, CallIsShaped
<1>2. /\ \A e \in Databases : redone[e] \subseteq redone'[e]
      /\ p \notin redone'[d] => ~Attached(d, p) /\ ~Attaching(d, p)
  BY <1>1 DEF TypeOK
<1>3. \A e \in Databases, q \in Peers : Attached(e, q)' = Attached(e, q)
  BY <1>1 DEF Attached
<1>4. ASSUME NEW u \in Threads PROVE First(u)'
  <2>1. CASE u = t
    <3>1. CASE p \in redone'[d]
      BY <1>1, <2>1, <3>1 DEF First
    <3>2. CASE p \notin redone'[d]
      <4>1. ~Attached(d, p)' /\ \A v \in Threads : v # t => ~(DbOf[v] = d /\ call'[v].peer = p)
        BY <1>1, <1>2, <1>3, <3>2 DEF Attaching
      <4> QED BY <1>1, <2>1, <4>1 DEF First
    <3> QED BY <3>1, <3>2
  <2>2. CASE u # t
    <3> SUFFICES ASSUME call'[u].peer \in TokenPeers \ redone'[DbOf[u]]
                 PROVE  /\ ~Attached(DbOf[u], call[u].peer)'
                        /\ \A v \in Threads : DbOf[v] = DbOf[u] /\ call'[v].peer = call'[u].peer => v = u
                        /\ at'[u] = "attaching" => call'[u].peer \in secrets'[DbOf[u]]
      BY DEF First
    <3>1. call'[u] = call[u] /\ at'[u] = at[u] /\ call[u].peer \in TokenPeers \ redone[DbOf[u]]
      BY <1>1, <1>2, <2>2
    <3>2. ~(DbOf[u] = d /\ call[u].peer = p)
      BY <1>2, <3>1 DEF Attaching
    <3>3. /\ ~Attached(DbOf[u], call[u].peer)
          /\ \A v \in Threads : DbOf[v] = DbOf[u] /\ call[v].peer = call[u].peer => v = u
          /\ at[u] = "attaching" => call[u].peer \in secrets[DbOf[u]]
      BY <3>1 DEF SecretComesFirst
    <3> QED BY <1>1, <1>3, <3>1, <3>2, <3>3
  <2> QED BY <2>1, <2>2
<1>5. ASSUME NEW e \in Databases, NEW q \in TokenPeers \ redone'[e], Attached(e, q)', ~Attaching(e, q)'
      PROVE  q \in secrets'[e]
  <2>1. q \notin redone[e] /\ Attached(e, q)
    BY <1>2, <1>3, <1>5
  <2>2. ~Attaching(e, q)
    BY <1>1, <1>5 DEF Attaching
  <2> QED BY <1>1, <2>1, <2>2 DEF AttachedHasItsSecret
<1> QED BY <1>4, <1>5 DEF SecretComesFirst, First, AttachedHasItsSecret

LEMMA CreatesSecretSecret ==
  ASSUME IInv, NEW t \in Threads, CreatesSecret(t)
  PROVE  SecretComesFirst' /\ AttachedHasItsSecret'
<1> USE DbOfAssumption, PeersAssumption DEF IInv
<1>1. /\ at' = [at EXCEPT ![t] = "attaching"] /\ UNCHANGED <<call, catalogs, redone>>
      /\ \A e \in Databases : secrets[e] \subseteq secrets'[e]
      /\ call[t].peer \in TokenPeers => call[t].peer \in secrets'[DbOf[t]]
  BY DEF CreatesSecret, Goes, TypeOK
<1>2. \A e, q : Attached(e, q)' = Attached(e, q) /\ Attaching(e, q)' = Attaching(e, q)
  BY <1>1 DEF Attached, Attaching
<1>3. SecretComesFirst'
  BY <1>1, <1>2 DEF SecretComesFirst, TypeOK
<1>4. AttachedHasItsSecret'
  BY <1>1, <1>2 DEF AttachedHasItsSecret
<1> QED BY <1>3, <1>4

\* A call that is over forgets its peer: nobody else attached it meanwhile.
LEMMA EndsSecret ==
  ASSUME IInv, NEW t \in Threads, Attaches(t) \/ DropsSecret(t)
  PROVE  SecretComesFirst' /\ AttachedHasItsSecret'
<1> USE DbOfAssumption, PeersAssumption, NoCallIsCall DEF IInv
<1> DEFINE d == DbOf[t]
           p == call[t].peer
<1>1. /\ call'[t].peer = None /\ redone' = redone /\ p \in Peers
      /\ \A u \in Threads : u # t => at'[u] = at[u] /\ call'[u] = call[u]
  BY DEF Attaches, DropsSecret, Throws, Returns, Becomes, Goes, TypeOK, CallIsShaped
<1>2. \A e \in Databases, q \in Peers : e # d \/ q # p =>
        Attached(e, q)' = Attached(e, q) /\ (q \in secrets'[e] <=> q \in secrets[e])
  <2>1. CASE Attaches(t)
    <3>1. catalogs' = [catalogs EXCEPT ![d] = @ \cup {[peer |-> p, name |-> call[t].name]}] /\ secrets' = secrets
      BY <2>1 DEF Attaches
    <3> QED BY <3>1 DEF Attached, TypeOK
  <2>2. CASE DropsSecret(t)
    <3>1. secrets' = [secrets EXCEPT ![d] = @ \ {p}] /\ catalogs' = catalogs
      BY <2>2 DEF DropsSecret
    <3> QED BY <3>1 DEF Attached, TypeOK
  <2> QED BY <2>1, <2>2
<1>3. ASSUME NEW u \in Threads PROVE First(u)'
  <2>1. CASE u = t
    BY <1>1, <2>1 DEF First
  <2>2. CASE u # t
    <3> SUFFICES ASSUME call'[u].peer \in TokenPeers \ redone'[DbOf[u]]
                 PROVE  /\ ~Attached(DbOf[u], call[u].peer)'
                        /\ \A v \in Threads : DbOf[v] = DbOf[u] /\ call'[v].peer = call'[u].peer => v = u
                        /\ at'[u] = "attaching" => call'[u].peer \in secrets'[DbOf[u]]
      BY DEF First
    <3>1. call'[u] = call[u] /\ at'[u] = at[u] /\ call[u].peer \in TokenPeers \ redone[DbOf[u]]
      BY <1>1, <2>2
    <3>2. /\ ~Attached(DbOf[u], call[u].peer)
          /\ \A v \in Threads : DbOf[v] = DbOf[u] /\ call[v].peer = call[u].peer => v = u
          /\ at[u] = "attaching" => call[u].peer \in secrets[DbOf[u]]
      BY <3>1 DEF SecretComesFirst
    <3>3. DbOf[u] # d \/ call[u].peer # p
      BY <2>2, <3>2
    <3> QED BY <1>1, <1>2, <3>1, <3>2, <3>3
  <2> QED BY <2>1, <2>2
<1>4. ASSUME NEW e \in Databases, NEW q \in TokenPeers \ redone[e], Attached(e, q)', ~Attaching(e, q)'
      PROVE  q \in secrets'[e]
  <2>1. CASE e = d /\ q = p
    <3>1. ~Attached(d, p) /\ (at[t] = "attaching" => p \in secrets[d])
      BY <1>4, <2>1 DEF SecretComesFirst
    <3>2. CASE Attaches(t)
      BY <2>1, <3>1, <3>2 DEF Attaches, Returns, Becomes, Goes
    <3>3. CASE DropsSecret(t)
      BY <1>4, <2>1, <3>1, <3>3 DEF DropsSecret, Attached
    <3> QED BY <3>2, <3>3
  <2>2. CASE ~(e = d /\ q = p)
    <3>1. Attached(e, q)
      BY <1>2, <1>4, <2>2
    <3>2. ~Attaching(e, q)
      BY <1>1, <1>4, <2>2 DEF Attaching
    <3> QED BY <1>2, <2>2, <3>1, <3>2 DEF AttachedHasItsSecret
  <2> QED BY <2>1, <2>2
<1> QED BY <1>1, <1>3, <1>4 DEF SecretComesFirst, First, AttachedHasItsSecret

LEMMA DetachSecret ==
  ASSUME IInv, NEW t \in Threads, Detach(t)
  PROVE  SecretComesFirst' /\ AttachedHasItsSecret'
<1> USE DbOfAssumption, PeersAssumption DEF IInv
<1>1. UNCHANGED <<at, call, secrets, redone>> /\ \A e \in Databases : catalogs'[e] \subseteq catalogs[e]
  BY DEF Detach, callVars, TypeOK
<1>2. \A e \in Databases : \A q : Attached(e, q)' => Attached(e, q)
  BY <1>1 DEF Attached
<1>3. SecretComesFirst'
  BY <1>1, <1>2 DEF SecretComesFirst
<1>4. AttachedHasItsSecret'
  BY <1>1, <1>2 DEF AttachedHasItsSecret, Attaching
<1> QED BY <1>3, <1>4

LEMMA RestartsSecret ==
  ASSUME IInv, NEW d \in Databases, Restarts(d)
  PROVE  SecretComesFirst' /\ AttachedHasItsSecret'
<1> USE DbOfAssumption, PeersAssumption, NoCallIsCall DEF IInv
<1>1. /\ \A t \in Threads : IF DbOf[t] = d THEN call'[t].peer = None ELSE at'[t] = at[t] /\ call'[t] = call[t]
      /\ \A e \in Databases : IF e = d THEN catalogs'[e] = {}
                              ELSE /\ catalogs'[e] = catalogs[e] /\ secrets'[e] = secrets[e]
                                   /\ redone'[e] = redone[e]
  BY DEF Restarts, TypeOK
<1>2. \A e \in Databases : \A q : e # d => /\ Attached(e, q)' = Attached(e, q)
                                           /\ Attaching(e, q)' = Attaching(e, q)
  BY <1>1 DEF Attached, Attaching
<1>3. ASSUME NEW u \in Threads PROVE First(u)'
  <2>1. CASE DbOf[u] = d
    BY <1>1, <2>1 DEF First
  <2>2. CASE DbOf[u] # d
    <3>1. First(u) /\ DbOf[u] \in Databases
      BY DEF SecretComesFirst, First
    <3>2. \A v \in Threads : DbOf[v] = DbOf[u] => call'[v] = call[v]
      BY <1>1, <2>2
    <3> QED BY <1>1, <1>2, <2>2, <3>1, <3>2 DEF First
  <2> QED BY <2>1, <2>2
<1>4. AttachedHasItsSecret'
  BY <1>1, <1>2 DEF AttachedHasItsSecret, Attached
<1> QED BY <1>3, <1>4 DEF SecretComesFirst, First

-----------------------------------------------------------------------------
LEMMA NextKeeps == IInv /\ [Next]_vars => IInv'
<1> SUFFICES ASSUME IInv, [Next]_vars PROVE IInv'
  OBVIOUS
<1>1. ASSUME NEW t \in Threads, SetSettings(t) \/ Serves(t) \/ Binds(t) \/ AttachesPeer(t)
      PROVE  IInv'
  <2>1. TypeOK' /\ CallIsShaped'
    BY <1>1, ServesTyped, BindsTyped, AttachesTyped
  <2>2. LockIsHeld' /\ KeyIsKept' /\ OneIdentity'
    BY <1>1, ElsewhereKeeps, LockKeeps, KeyKeeps DEF Elsewhere
  <2>3. ServeIsChecked'
    BY <1>1, ElsewhereChecked, BindsChecked DEF Elsewhere
  <2>4. SecretComesFirst' /\ AttachedHasItsSecret'
    BY <1>1, OthersSecret, AttachSecret, CreatesSecretSecret, EndsSecret, DetachSecret DEF AttachesPeer
  <2> QED BY <2>1, <2>2, <2>3, <2>4 DEF IInv
<1>2. ASSUME NEW d \in Databases, Restarts(d) PROVE IInv'
  BY <1>2, RestartsTyped, RestartsKeep, RestartsChecked, RestartsSecret DEF IInv
<1>3. CASE UNCHANGED vars
  BY <1>3, ZenonT(30) DEF vars, callVars, catalogVars, IInv, TypeOK, CallIsShaped, LockIsHeld, KeyIsKept, OneIdentity,
              ServeIsChecked, SecretComesFirst, AttachedHasItsSecret, Bound, Attached, Attaching
<1> QED BY <1>1, <1>2, <1>3 DEF Next

LEMMA IInvHolds == Spec => []IInv
<1> QED BY InitIInv, NextKeeps, PTL DEF Spec

\* load_or_create_key: whatever processes race for it and wherever one is
\* killed, no endpoint ever has an identity that is not kept.
THEOREM OneIdentityHolds == Spec => []OneIdentity
<1>1. IInv => OneIdentity
  BY DEF IInv
<1> QED BY <1>1, IInvHolds, PTL

\* ServeFunction and GetOrCreateCore: between the check and the binding
\* nothing comes but what `saw` tells.
THEOREM ServedAsAskedHolds == Spec => []ServedAsAsked
<1>1. IInv => ServedAsAsked
  BY DEF IInv, ServeIsChecked, ServedAsAsked
<1> QED BY <1>1, IInvHolds, PTL

\* AttachFunction: a secret that is dropped on failure is never the one an
\* earlier attach of another peer relies on.
THEOREM AttachedHasItsSecretHolds == Spec => []AttachedHasItsSecret
<1>1. IInv => AttachedHasItsSecret
  BY DEF IInv
<1> QED BY <1>1, IInvHolds, PTL
=============================================================================
