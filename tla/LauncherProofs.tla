--------------------------- MODULE LauncherProofs ---------------------------
(***************************************************************************)
(* Proofs about Launcher, for any number of launchers, other programs and  *)
(* ports.                                                                  *)
(*                                                                         *)
(* Argument: a launcher renames only a .part of its own that it wrote to   *)
(* the end (PartIsWhole); between its probe and Quack's bind its port is   *)
(* free unless it is overtaken, and from the bind on it is its own, or     *)
(* free still if Quack did not start (PortIsOwn); until mkdtemp returns    *)
(* there is nothing to leave behind (NoWorkdirYet), and from then on every *)
(* way main ends by itself goes through cleanup, and every handler that    *)
(* exits is done with it (RemovedBeforeExit).                              *)
(***************************************************************************)
EXTENDS Launcher, TLAPS

\* What is about to be renamed into the cache is a whole file.
PartIsWhole == \A l \in Launchers : at[l] = "renaming" => partial[l] = "whole"

Probed == {"finding", "fetching", "writing", "renaming", "making", "made", "loading", "filling", "serving"}

\* The probe holds its port; who has probed, and was not overtaken, finds it
\* free; who has served on it has it, unless Quack did not start.
PortIsOwn ==
  \A l \in Launchers :
    /\ at[l] = "closing" => listens[port[l]] = l
    /\ l \notin overtaken /\ at[l] \in Probed => listens[port[l]] = None
    /\ l \notin overtaken /\ at[l] \in {"waiting", "printed"} =>
         listens[port[l]] = IF l \in quackless THEN None ELSE l
    /\ at[l] \notin {"waiting", "printed", "cleaning"} => l \notin quackless

PortIsGiven == \A l \in Launchers : at[l] # "off" => port[l] \in Ports

\* Main has no work directory before mkdtemp has returned one.
NoWorkdirYet ==
  \A l \in Launchers :
    at[l] \in {"probing", "closing", "finding", "fetching", "writing", "renaming", "making"} => ~workdir[l]

\* A signal handler runs only once there is one, and exits when rm is done.
RemovedBeforeExit ==
  \A l \in Launchers :
    /\ handler[l] # "none" => HasHandlers(l)
    /\ handler[l] = "exiting" => l \in raced \/ ~workdir[l]

DirInv == NoWorkdirYet /\ RemovedBeforeExit /\ NothingLeftBehind

IInv == TypeOK /\ PortIsGiven /\ PartIsWhole /\ CachedIsWhole /\ PortIsOwn /\ DirInv

-----------------------------------------------------------------------------
LEMMA InitIInv == Init => IInv
BY DEF Init, IInv, TypeOK, Files, PortIsGiven, PartIsWhole, CachedIsWhole, PortIsOwn, Probed, NoWorkdirYet,
       RemovedBeforeExit, DirInv, NothingLeftBehind

\* The steps of main that leave the ports and the work directories alone.
LEMMA FilesKeep ==
  ASSUME IInv, NEW l \in Launchers,
         FindsExtension(l) \/ Fetches(l) \/ WritesPart(l) \/ WritesTheRest(l) \/ Renames(l)
  PROVE  IInv'
<1> USE DEF IInv
<1>1. TypeOK'
  BY DEF TypeOK, Files, FindsExtension, Fetches, WritesPart, WritesTheRest, Renames, Goes, Part, fileVars,
         runVars, history
<1>2. PartIsWhole' /\ CachedIsWhole'
  BY DEF TypeOK, PartIsWhole, CachedIsWhole, FindsExtension, Fetches, WritesPart, WritesTheRest, Renames,
         Goes, Part, fileVars
<1>3. PortIsOwn' /\ PortIsGiven'
  BY DEF TypeOK, PortIsOwn, Probed, PortIsGiven, FindsExtension, Fetches, WritesPart, WritesTheRest, Renames,
         Goes, history
<1>4. DirInv'
  BY DEF TypeOK, DirInv, NoWorkdirYet, RemovedBeforeExit, HasHandlers, NothingLeftBehind, FindsExtension,
         Fetches, WritesPart, WritesTheRest, Renames, Goes, runVars, history
<1> QED BY <1>1, <1>2, <1>3, <1>4

LEMMA WorkKeeps ==
  ASSUME IInv, NEW l \in Launchers,
         MakesWorkdir(l) \/ Handles(l) \/ Loads(l) \/ Fills(l) \/ Prints(l) \/ Fails(l)
  PROVE  IInv'
<1> USE DEF IInv
<1>1. TypeOK'
  BY DEF TypeOK, MakesWorkdir, Handles, Loads, Fills, Writes, Prints, Fails, Goes, fileVars, runVars, history
<1>2. PartIsWhole' /\ CachedIsWhole'
  BY DEF TypeOK, PartIsWhole, CachedIsWhole, MakesWorkdir, Handles, Loads, Fills, Prints, Fails,
         Goes, fileVars
<1>3. PortIsOwn' /\ PortIsGiven'
  BY DEF TypeOK, PortIsOwn, Probed, PortIsGiven, MakesWorkdir, Handles, Loads, Fills, Prints, Fails,
         Goes, history
<1>4. UNCHANGED <<handler, exit>> /\ raced \subseteq raced'
  BY DEF MakesWorkdir, Handles, Loads, Fills, Writes, Prints, Fails, runVars, history
<1>5. NoWorkdirYet' /\ NothingLeftBehind'
  BY <1>4 DEF TypeOK, DirInv, NoWorkdirYet, NothingLeftBehind, MakesWorkdir, Handles, Loads, Fills, Prints,
         Fails, Goes
<1>6. RemovedBeforeExit'
  <2>1. handler[l] # "none" => ~MakesWorkdir(l) /\ ~Handles(l)
    BY DEF DirInv, RemovedBeforeExit, HasHandlers, MakesWorkdir, Handles, Goes
  <2>2. CASE MakesWorkdir(l) \/ Handles(l)
    BY <1>4, <2>1, <2>2 DEF TypeOK, DirInv, RemovedBeforeExit, HasHandlers, MakesWorkdir, Handles, Goes
  <2>3. CASE Loads(l) \/ Fills(l) \/ Prints(l) \/ Fails(l)
    BY <1>4, <2>3 DEF TypeOK, DirInv, RemovedBeforeExit, HasHandlers, Loads, Fills, Prints, Fails, Goes
  <2> QED BY <2>2, <2>3
<1> QED BY <1>1, <1>2, <1>3, <1>5, <1>6 DEF DirInv

LEMMA HandlerKeeps ==
  ASSUME IInv, NEW l \in Launchers, Interrupted(l) \/ HandlerRemoves(l)
  PROVE  IInv'
<1> USE DEF IInv
<1>1. /\ UNCHANGED <<at, port, cached, partial, listens, exit, overtaken, quackless, raced>>
      /\ handler' \in [Launchers -> {"none", "removing", "exiting"}]
      /\ workdir' \in {workdir, [workdir EXCEPT ![l] = FALSE]}
  BY DEF TypeOK, Interrupted, HandlerRemoves, HandlerGoes, fileVars, history
<1>2. TypeOK' /\ PartIsWhole' /\ CachedIsWhole' /\ PortIsOwn' /\ PortIsGiven'
  <2>1. workdir' \in [Launchers -> BOOLEAN]
    BY <1>1 DEF TypeOK
  <2> QED BY <1>1, <2>1 DEF TypeOK, PartIsWhole, CachedIsWhole, PortIsOwn, PortIsGiven
<1>3. NoWorkdirYet' /\ NothingLeftBehind'
  BY <1>1 DEF TypeOK, DirInv, NoWorkdirYet, NothingLeftBehind
<1>4. RemovedBeforeExit'
  BY <1>1 DEF TypeOK, DirInv, RemovedBeforeExit, HasHandlers, Interrupted, HandlerRemoves, HandlerGoes
<1> QED BY <1>2, <1>3, <1>4 DEF DirInv

\* A process that is gone takes nothing with it that another has.
LEMMA ExitsKeeps ==
  ASSUME IInv, NEW l \in Launchers, NEW how \in {"died", "threw", "stopped", "killed"},
         Exits(l, how), UNCHANGED <<port, fileVars>>,
         workdir' = workdir \/ workdir' = [workdir EXCEPT ![l] = FALSE],
         how \in {"died", "stopped"} => l \in raced \/ ~workdir'[l]
  PROVE  IInv'
<1> USE DEF IInv
<1>1. TypeOK'
  BY DEF TypeOK, Exits, fileVars
<1>2. PartIsWhole' /\ CachedIsWhole'
  BY DEF TypeOK, PartIsWhole, CachedIsWhole, Exits, fileVars
<1>3. PortIsGiven'
  BY DEF TypeOK, PortIsGiven, Exits
<1>4. PortIsOwn'
  <2> SUFFICES ASSUME NEW k \in Launchers
               PROVE  /\ at'[k] = "closing" => listens'[port'[k]] = k
                      /\ k \notin overtaken' /\ at'[k] \in Probed => listens'[port'[k]] = None
                      /\ k \notin overtaken' /\ at'[k] \in {"waiting", "printed"} =>
                           listens'[port'[k]] = IF k \in quackless' THEN None ELSE k
                      /\ at'[k] \notin {"waiting", "printed", "cleaning"} => k \notin quackless'
    BY DEF PortIsOwn
  <2>1. CASE k = l
    BY <2>1 DEF TypeOK, Exits, Probed
  <2>2. CASE k # l
    <3>1. /\ at'[k] = at[k] /\ port'[k] = port[k] /\ (k \notin overtaken' => k \notin overtaken)
          /\ k \in quackless' <=> k \in quackless
      BY <2>2 DEF TypeOK, Exits
    <3>2. at[k] # "off" => listens'[port[k]] = IF listens[port[k]] = l THEN None ELSE listens[port[k]]
      BY DEF Exits, PortIsGiven
    <3> QED BY <2>2, <3>1, <3>2, ListenersAssumption DEF PortIsOwn, Probed
  <2> QED BY <2>1, <2>2
<1>5. DirInv'
  BY DEF TypeOK, DirInv, NoWorkdirYet, NothingLeftBehind, RemovedBeforeExit, HasHandlers, Exits
<1> QED BY <1>1, <1>2, <1>3, <1>4, <1>5

LEMMA EndsKeep ==
  ASSUME IInv, NEW l \in Launchers,
         PortInUse(l) \/ FindsNone(l) \/ MainCleans(l) \/ Throws(l) \/ HandlerExits(l) \/ Killed(l)
  PROVE  IInv'
<1>1. CASE PortInUse(l) \/ FindsNone(l)
  <2>1. ~workdir'[l]
    BY <1>1 DEF IInv, DirInv, NoWorkdirYet, PortInUse, FindsNone
  <2> QED BY <1>1, <2>1, ExitsKeeps DEF PortInUse, FindsNone
<1>2. CASE MainCleans(l) \/ HandlerExits(l)
  <2>1. l \in raced \/ ~workdir'[l]
    BY <1>2 DEF IInv, DirInv, RemovedBeforeExit, TypeOK, MainCleans, HandlerExits
  <2> QED BY <1>2, <2>1, ExitsKeeps DEF MainCleans, HandlerExits
<1>3. CASE Throws(l) \/ Killed(l)
  BY <1>3, ExitsKeeps DEF Throws, Killed
<1> QED BY <1>1, <1>2, <1>3

\* Whoever takes a free port leaves those who have one with theirs, and
\* overtakes everybody who counted on it.
LEMMA TakesKeeps ==
  ASSUME IInv, NEW p \in Ports, NEW who \in Launchers \cup Strangers, Takes(p, who),
         NEW k \in Launchers, k # who, at'[k] = at[k], port'[k] = port[k], quackless' = quackless
  PROVE  /\ at'[k] = "closing" => listens'[port'[k]] = k
         /\ k \notin overtaken' /\ at'[k] \in Probed => listens'[port'[k]] = None
         /\ k \notin overtaken' /\ at'[k] \in {"waiting", "printed"} =>
              listens'[port'[k]] = IF k \in quackless' THEN None ELSE k
         /\ at'[k] \notin {"waiting", "printed", "cleaning"} => k \notin quackless'
<1> USE DEF IInv
<1>1. CASE port[k] # p
  BY <1>1 DEF Takes, PortIsOwn, TypeOK
<1>2. CASE port[k] = p /\ k \notin overtaken'
  <2>1. at[k] \in {"off", "probing"} /\ k \notin overtaken /\ listens[p] = None
    BY <1>2 DEF Takes
  <2> QED BY <1>2, <2>1 DEF PortIsOwn, Probed
<1>3. CASE port[k] = p /\ k \in overtaken'
  <2>1. k # None /\ listens[p] = None
    BY ListenersAssumption DEF Takes
  <2> QED BY <1>3, <2>1 DEF PortIsOwn
<1> QED BY <1>1, <1>2, <1>3

LEMMA PortsKeep ==
  ASSUME IInv, NEW l \in Launchers,
         \/ Probes(l) \/ ProbeCloses(l) \/ ServeStartsQuack(l) \/ ServeGoesWithout(l)
         \/ \E p \in Ports : Starts(l, p)
  PROVE  IInv'
<1> USE DEF IInv
<1>1. l # None /\ (at[l] # "off" => port[l] \in Ports)
  BY ListenersAssumption DEF PortIsGiven
<1>2. TypeOK'
  <2>1. CASE Probes(l)
    BY <1>1, <2>1 DEF TypeOK, Probes, Takes, Goes, fileVars, runVars
  <2>2. CASE ProbeCloses(l)
    BY <1>1, <2>2 DEF TypeOK, ProbeCloses, Goes, fileVars, runVars, history
  <2>3. CASE ServeStartsQuack(l)
    BY <1>1, <2>3 DEF TypeOK, ServeStartsQuack, Takes, Goes, fileVars, runVars
  <2>4. CASE ServeGoesWithout(l)
    BY <1>1, <2>4 DEF TypeOK, ServeGoesWithout, Goes, fileVars, runVars
  <2>5. CASE \E p \in Ports : Starts(l, p)
    BY <2>5 DEF TypeOK, Starts, Goes, fileVars
  <2> QED BY <2>1, <2>2, <2>3, <2>4, <2>5
<1>3. PartIsWhole' /\ CachedIsWhole'
  BY DEF TypeOK, PartIsWhole, CachedIsWhole, Probes, ProbeCloses, ServeStartsQuack, ServeGoesWithout, Starts,
         Goes, fileVars
<1>4. PortIsGiven'
  BY DEF TypeOK, PortIsGiven, Probes, ProbeCloses, ServeStartsQuack, ServeGoesWithout, Starts, Goes
<1>5. DirInv'
  BY DEF TypeOK, DirInv, NoWorkdirYet, NothingLeftBehind, RemovedBeforeExit, HasHandlers, Probes, ProbeCloses,
         ServeStartsQuack, ServeGoesWithout, Starts, Goes, runVars, history
<1>6. PortIsOwn'
  <2> SUFFICES ASSUME NEW k \in Launchers
               PROVE  /\ at'[k] = "closing" => listens'[port'[k]] = k
                      /\ k \notin overtaken' /\ at'[k] \in Probed => listens'[port'[k]] = None
                      /\ k \notin overtaken' /\ at'[k] \in {"waiting", "printed"} =>
                           listens'[port'[k]] = IF k \in quackless' THEN None ELSE k
                      /\ at'[k] \notin {"waiting", "printed", "cleaning"} => k \notin quackless'
    BY DEF PortIsOwn
  <2>1. CASE Takes(port[l], l) /\ (Probes(l) \/ ServeStartsQuack(l))
    <3>1. CASE k # l
      BY <1>1, <2>1, <3>1, TakesKeeps DEF Probes, ServeStartsQuack, Goes, TypeOK
    <3>2. CASE k = l
      BY <1>1, <2>1, <3>2 DEF Probes, ServeStartsQuack, Goes, Takes, TypeOK, Probed, PortIsOwn
    <3> QED BY <3>1, <3>2
  <2>2. CASE ~Takes(port[l], l) /\ Probes(l)
    BY <1>1, <2>2 DEF Probes, Goes, TypeOK, PortIsOwn, Probed
  <2>3. CASE ServeGoesWithout(l)
    BY <1>1, <2>3 DEF ServeGoesWithout, Goes, TypeOK, PortIsOwn, Probed
  <2>4. CASE ProbeCloses(l)
    <3>1. listens[port[l]] = l /\ listens' = [listens EXCEPT ![port[l]] = None] /\ at[l] = "closing"
          /\ at' = [at EXCEPT ![l] = "finding"] /\ UNCHANGED <<port, overtaken, quackless>>
      BY <2>4 DEF ProbeCloses, Goes, PortIsOwn, history
    <3>2. CASE k = l
      BY <1>1, <3>1, <3>2 DEF TypeOK, Probed, PortIsOwn
    <3>3. CASE k # l
      BY <1>1, <3>1, <3>3 DEF TypeOK, PortIsOwn, Probed
    <3> QED BY <3>2, <3>3
  <2>5. CASE \E p \in Ports : Starts(l, p)
    BY <2>5 DEF Starts, Goes, TypeOK, PortIsOwn, Probed
  <2> QED BY <2>1, <2>2, <2>3, <2>4, <2>5 DEF ServeStartsQuack
<1> QED BY <1>2, <1>3, <1>4, <1>5, <1>6

LEMMA StrangersKeep ==
  ASSUME IInv, NEW s \in Strangers, NEW p \in Ports, StrangerListens(s, p) \/ StrangerLeaves(s, p)
  PROVE  IInv'
<1> USE DEF IInv
<1>1. UNCHANGED <<at, port, cached, partial, workdir, handler, exit, quackless, raced>>
  BY DEF StrangerListens, StrangerLeaves, fileVars, runVars, history
<1>2. TypeOK'
  BY <1>1 DEF TypeOK, StrangerListens, StrangerLeaves, Takes, history
<1>3. PartIsWhole' /\ CachedIsWhole' /\ PortIsGiven' /\ DirInv'
  BY <1>1 DEF PartIsWhole, CachedIsWhole, PortIsGiven, DirInv, NoWorkdirYet, NothingLeftBehind,
              RemovedBeforeExit, HasHandlers
<1>4. PortIsOwn'
  <2>1. ASSUME NEW k \in Launchers
        PROVE  /\ at'[k] = "closing" => listens'[port'[k]] = k
               /\ k \notin overtaken' /\ at'[k] \in Probed => listens'[port'[k]] = None
               /\ k \notin overtaken' /\ at'[k] \in {"waiting", "printed"} =>
                    listens'[port'[k]] = IF k \in quackless' THEN None ELSE k
               /\ at'[k] \notin {"waiting", "printed", "cleaning"} => k \notin quackless'
    <3>1. k # s /\ s # None
      BY ListenersAssumption
    <3>2. CASE StrangerListens(s, p)
      BY <1>1, <3>1, <3>2, TakesKeeps DEF StrangerListens
    <3>3. CASE StrangerLeaves(s, p)
      BY <1>1, <3>1, <3>3 DEF StrangerLeaves, PortIsOwn, TypeOK, history
    <3> QED BY <3>2, <3>3
  <2> QED BY <2>1 DEF PortIsOwn
<1> QED BY <1>2, <1>3, <1>4

LEMMA NextKeeps == IInv /\ [Next]_vars => IInv'
<1> SUFFICES ASSUME IInv, [Next]_vars PROVE IInv'
  OBVIOUS
<1>1. ASSUME NEW l \in Launchers, Main(l) PROVE IInv'
  BY <1>1, FilesKeep, WorkKeeps, EndsKeep, PortsKeep DEF Main
<1>2. CASE Machine
  BY <1>2, HandlerKeeps, EndsKeep, StrangersKeep DEF Machine
<1>3. CASE UNCHANGED vars
  BY <1>3 DEF vars, fileVars, runVars, history, IInv, TypeOK, PortIsGiven, PartIsWhole, CachedIsWhole,
              PortIsOwn, DirInv, NoWorkdirYet, RemovedBeforeExit, HasHandlers, NothingLeftBehind
<1> QED BY <1>1, <1>2, <1>3 DEF Next

LEMMA IInvHolds == Spec => []IInv
<1> QED BY InitIInv, NextKeeps, PTL DEF Spec

\* extensionPath's write beside and rename: no launcher ever trusts a
\* truncated download, wherever any of them is killed.
THEOREM CachedIsWholeHolds == Spec => []CachedIsWhole
<1>1. IInv => CachedIsWhole
  BY DEF IInv
<1> QED BY <1>1, IInvHolds, PTL

\* portInUse and the order of main: what answers on the port of a link is the
\* Quack that accepts its token, or nothing where that Quack did not start,
\* but for the window that opens with the probe.
THEOREM LinkIsAcceptedHolds == Spec => []LinkIsAccepted
<1>1. IInv => LinkIsAccepted
  BY DEF IInv, PortIsOwn, LinkIsAccepted
<1> QED BY <1>1, IInvHolds, PTL

\* cleanup, before every die and awaited in the signal handlers, while main
\* goes on.
THEOREM NothingLeftBehindHolds == Spec => []NothingLeftBehind
<1>1. IInv => NothingLeftBehind
  BY DEF IInv, DirInv
<1> QED BY <1>1, IInvHolds, PTL
=============================================================================
