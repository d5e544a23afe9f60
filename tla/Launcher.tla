------------------------------- MODULE Launcher -------------------------------
(***************************************************************************)
(* npm/bin/quackhole.js: `npx quackhole`, by several people and again and  *)
(* again on one machine.                                                   *)
(*                                                                         *)
(* A launcher probes its port, finds or downloads the extension, makes a   *)
(* work directory, opens a DuckDB in it, fills it, serves it and prints    *)
(* the link.  It may be killed at any moment, and stopped by Ctrl-C once   *)
(* its handlers are there; between any two of its awaits another launcher, *)
(* or a stranger that listens on the port, may act.  What is in the cache  *)
(* outlives every one of them.                                             *)
(*                                                                         *)
(* rm reads what is in the work directory, removes it, and then the        *)
(* directory, which fails, and is swallowed, if something was put there in *)
(* the meantime; otherwise it is taken to work.                            *)
(***************************************************************************)
EXTENDS FiniteSets

CONSTANTS
  Launchers,
  Strangers,   \* other programs that may listen on a port
  Ports,
  None

ASSUME ListenersAssumption == Launchers \cap Strangers = {} /\ None \notin Launchers \cup Strangers \cup Ports

VARIABLES
  at,         \* [Launchers -> how far main has come]
  port,       \* [Launchers -> its --port]
  cached,     \* the extension in the cache: "absent", "truncated" or "whole"
  partial,    \* [Launchers -> the same of the .part file of its pid]
  listens,    \* [Ports -> who listens there]
  workdir,    \* [Launchers -> whether its work directory is there]
  handler,    \* [Launchers -> how far its signal handler has come]
  exit,       \* [Launchers -> how the run went]
  overtaken,  \* history: those whose port another took after they probed it
  quackless,  \* history: those whose Quack did not start on a free port
  raced       \* history: those whose main wrote into the work directory
              \* while the handler was removing it

fileVars == <<cached, partial>>
runVars == <<handler, exit>>
history == <<overtaken, quackless, raced>>
vars == <<at, port, fileVars, listens, workdir, runVars, history>>

Files == {"absent", "truncated", "whole"}

Init ==
  /\ at = [l \in Launchers |-> "off"]
  /\ port = [l \in Launchers |-> None]
  /\ cached = "absent"
  /\ partial = [l \in Launchers |-> "absent"]
  /\ listens = [p \in Ports |-> None]
  /\ workdir = [l \in Launchers |-> FALSE]
  /\ handler = [l \in Launchers |-> "none"]
  /\ exit = [l \in Launchers |-> "none"]
  /\ overtaken = {}
  /\ quackless = {}
  /\ raced = {}

Goes(l, from, to) == at[l] = from /\ at' = [at EXCEPT ![l] = to]

\* The process is gone, and what it listened on is free.
Exits(l, how) ==
  /\ at' = [at EXCEPT ![l] = "off"]
  /\ exit' = [exit EXCEPT ![l] = how]
  /\ listens' = [p \in Ports |-> IF listens[p] = l THEN None ELSE listens[p]]
  /\ handler' = [handler EXCEPT ![l] = "none"]
  /\ overtaken' = overtaken \ {l}
  /\ quackless' = quackless \ {l}
  /\ UNCHANGED raced

\* History: whoever has probed p and does not listen there is overtaken.
Takes(p, who) ==
  /\ listens[p] = None
  /\ listens' = [listens EXCEPT ![p] = who]
  /\ overtaken' = overtaken \cup
       {l \in Launchers \ {who} : port[l] = p /\ at[l] \notin {"off", "probing"}}

(***************************************************************************)
(* main, up to the work directory.                                         *)
(***************************************************************************)
Starts(l, p) ==
  /\ Goes(l, "off", "probing")
  /\ port' = [port EXCEPT ![l] = p]
  /\ exit' = [exit EXCEPT ![l] = "none"]
  /\ workdir' = [workdir EXCEPT ![l] = FALSE]
  /\ raced' = raced \ {l}
  /\ UNCHANGED <<fileVars, listens, handler, overtaken, quackless>>

\* Mutant: the port is not asked for.
ProbesNothing(l) ==
  /\ Goes(l, "probing", "finding")
  /\ UNCHANGED <<port, fileVars, listens, workdir, runVars, history>>

\* portInUse: the port is bound for a moment.  An error that does not say it
\* is in use is taken for no.
Probes(l) ==
  /\ \/ Goes(l, "probing", "closing") /\ Takes(port[l], l)
     \/ Goes(l, "probing", "finding") /\ listens[port[l]] = None /\ UNCHANGED <<listens, overtaken>>
  /\ UNCHANGED <<port, fileVars, workdir, runVars, quackless, raced>>

ProbeCloses(l) ==
  /\ Goes(l, "closing", "finding")
  /\ listens' = [listens EXCEPT ![port[l]] = None]
  /\ UNCHANGED <<port, fileVars, workdir, runVars, history>>

PortInUse(l) ==
  /\ at[l] = "probing" /\ listens[port[l]] # None
  /\ Exits(l, "died")
  /\ UNCHANGED <<port, fileVars, workdir>>

\* extensionPath, with something in the cache.  A QH_EXT is somebody else's
\* file: a run with one is not modelled.
FindsExtension(l) ==
  /\ cached # "absent"
  /\ Goes(l, "finding", "making")
  /\ UNCHANGED <<port, fileVars, listens, workdir, runVars, history>>

\* No build for this platform, no release, no network.
FindsNone(l) ==
  /\ at[l] \in {"finding", "fetching"}
  /\ Exits(l, "died")
  /\ UNCHANGED <<port, fileVars, workdir>>

Fetches(l) ==
  /\ cached = "absent"
  /\ Goes(l, "finding", "fetching")
  /\ UNCHANGED <<port, fileVars, listens, workdir, runVars, history>>

\* Mutant: one .part for everybody.
PartShared(l) == CHOOSE k \in Launchers : TRUE

\* The launcher whose .part it writes: `${cached}.${pid}.part`.
Part(l) == l

WritesPart(l) ==
  /\ Goes(l, "fetching", "writing")
  /\ partial' = [partial EXCEPT ![Part(l)] = "truncated"]
  /\ UNCHANGED <<port, cached, listens, workdir, runVars, history>>

WritesTheRest(l) ==
  /\ Goes(l, "writing", "renaming")
  /\ partial' = [partial EXCEPT ![Part(l)] = "whole"]
  /\ UNCHANGED <<port, cached, listens, workdir, runVars, history>>

Renames(l) ==
  /\ partial[Part(l)] # "absent"
  /\ Goes(l, "renaming", "making")
  /\ cached' = partial[Part(l)]
  /\ partial' = [partial EXCEPT ![Part(l)] = "absent"]
  /\ UNCHANGED <<port, listens, workdir, runVars, history>>

\* mkdtemp has made it, and main does not know yet; then the handlers.
MakesWorkdir(l) ==
  /\ Goes(l, "making", "made")
  /\ workdir' = [workdir EXCEPT ![l] = TRUE]
  /\ UNCHANGED <<port, fileVars, listens, runVars, history>>

Handles(l) ==
  /\ Goes(l, "made", "loading")
  /\ UNCHANGED <<port, fileVars, listens, workdir, runVars, history>>

(***************************************************************************)
(* main, over a DuckDB.                                                    *)
(***************************************************************************)
\* What is put into the work directory while it is being removed.
Writes(l) == raced' = raced \cup (IF handler[l] = "removing" THEN {l} ELSE {})

\* The database; the extension, and quack with it; the settings it is
\* expected to have.
Loads(l) ==
  /\ cached = "whole"
  /\ Goes(l, "loading", "filling")
  /\ Writes(l)
  /\ UNCHANGED <<port, fileVars, listens, workdir, runVars, overtaken, quackless>>

\* The tables; then quackhole_ephemeral, _workbench_url and _relays.
Fills(l) ==
  /\ Goes(l, "filling", "serving")
  /\ Writes(l)
  /\ UNCHANGED <<port, fileVars, listens, workdir, runVars, overtaken, quackless>>

\* quackhole_serve has Quack listen.
ServeStartsQuack(l) ==
  /\ Goes(l, "serving", "waiting")
  /\ Takes(port[l], l)
  /\ UNCHANGED <<port, fileVars, workdir, runVars, quackless, raced>>

\* quack_serve fails, because of who listens there or for another reason (no
\* permission, no quack), and quackhole_serve goes on without.
ServeGoesWithout(l) ==
  /\ Goes(l, "serving", "waiting")
  /\ quackless' = quackless \cup (IF listens[port[l]] = None THEN {l} ELSE {})
  /\ UNCHANGED <<port, fileVars, listens, workdir, runVars, overtaken, raced>>

\* The endpoint is bound, it has a relay, and there is a link.
Prints(l) ==
  /\ Goes(l, "waiting", "printed")
  /\ UNCHANGED <<port, fileVars, listens, workdir, runVars, history>>

\* The extension does not load, or is another one; the serve fails, or has
\* no link: cleanup, then die.
Fails(l) ==
  /\ at[l] \in {"loading", "waiting"}
  /\ at' = [at EXCEPT ![l] = "cleaning"]
  /\ UNCHANGED <<port, fileVars, listens, workdir, runVars, history>>

MainCleans(l) ==
  /\ at[l] = "cleaning"
  /\ workdir' = [workdir EXCEPT ![l] = FALSE]
  /\ Exits(l, "died")
  /\ UNCHANGED <<port, fileVars>>

\* An await with nothing around it: the disk is full, a statement fails.
Throws(l) ==
  /\ at[l] \in {"writing", "renaming", "making", "loading", "filling"}
  /\ Exits(l, "threw")
  /\ UNCHANGED <<port, fileVars, workdir>>

(***************************************************************************)
(* Signals, and the rest of the machine.                                   *)
(***************************************************************************)
HasHandlers(l) == at[l] \in {"loading", "filling", "serving", "waiting", "printed", "cleaning"}

HandlerGoes(l, from, to) ==
  /\ handler[l] = from /\ handler' = [handler EXCEPT ![l] = to]
  /\ UNCHANGED <<at, port, fileVars, listens, exit, history>>

\* SIGINT or SIGTERM: cleanup closes the database, if there is one yet, and
\* rm sets out.  Main, and a statement of its that runs, go on meanwhile.
Interrupted(l) ==
  /\ HasHandlers(l)
  /\ HandlerGoes(l, "none", "removing")
  /\ UNCHANGED workdir

\* rm is done, or has failed.
HandlerRemoves(l) ==
  /\ HandlerGoes(l, "removing", "exiting")
  /\ workdir' \in {[workdir EXCEPT ![l] = FALSE]} \cup (IF l \in raced THEN {workdir} ELSE {})

\* Mutant: the exit does not wait for the cleanup.
HandlerExitsEarly(l) ==
  /\ handler[l] # "none"
  /\ Exits(l, "stopped")
  /\ UNCHANGED <<port, fileVars, workdir>>

HandlerExits(l) ==
  /\ handler[l] = "exiting"
  /\ Exits(l, "stopped")
  /\ UNCHANGED <<port, fileVars, workdir>>

\* SIGKILL, or any signal before there is a handler.
Killed(l) ==
  /\ at[l] # "off"
  /\ Exits(l, "killed")
  /\ UNCHANGED <<port, fileVars, workdir>>

StrangerListens(s, p) ==
  /\ \A q \in Ports : listens[q] # s
  /\ Takes(p, s)
  /\ UNCHANGED <<at, port, fileVars, workdir, runVars, quackless, raced>>

StrangerLeaves(s, p) ==
  /\ listens[p] = s
  /\ listens' = [listens EXCEPT ![p] = None]
  /\ UNCHANGED <<at, port, fileVars, workdir, runVars, history>>

-----------------------------------------------------------------------------
Main(l) ==
  \/ \E p \in Ports : Starts(l, p)
  \/ Probes(l) \/ ProbeCloses(l) \/ PortInUse(l)
  \/ FindsExtension(l) \/ FindsNone(l) \/ Fetches(l)
  \/ WritesPart(l) \/ WritesTheRest(l) \/ Renames(l)
  \/ MakesWorkdir(l) \/ Handles(l) \/ Loads(l) \/ Fills(l)
  \/ ServeStartsQuack(l) \/ ServeGoesWithout(l) \/ Prints(l)
  \/ Fails(l) \/ MainCleans(l) \/ Throws(l)

Machine ==
  \/ \E l \in Launchers : Interrupted(l) \/ HandlerRemoves(l) \/ HandlerExits(l) \/ Killed(l)
  \/ \E s \in Strangers, p \in Ports : StrangerListens(s, p) \/ StrangerLeaves(s, p)

Next == Machine \/ \E l \in Launchers : Main(l)

Spec == Init /\ [][Next]_vars

TypeOK ==
  /\ at \in [Launchers -> {"off", "probing", "closing", "finding", "fetching", "writing", "renaming",
                           "making", "made", "loading", "filling", "serving", "waiting", "printed",
                           "cleaning"}]
  /\ port \in [Launchers -> Ports \cup {None}]
  /\ cached \in Files
  /\ partial \in [Launchers -> Files]
  /\ listens \in [Ports -> Launchers \cup Strangers \cup {None}]
  /\ workdir \in [Launchers -> BOOLEAN]
  /\ handler \in [Launchers -> {"none", "removing", "exiting"}]
  /\ exit \in [Launchers -> {"none", "died", "threw", "stopped", "killed"}]
  /\ overtaken \subseteq Launchers /\ quackless \subseteq Launchers /\ raced \subseteq Launchers

\* "an interrupted download cannot leave a truncated binary in the cache to be
\* trusted next time", nor can two downloads at once, wherever they are killed.
CachedIsWhole == cached # "truncated"

\* Whoever follows a link that is printed is never told by another's Quack
\* that its token is not accepted, unless that one took the port after the
\* probe: what answers on its port is its own Quack, or, where Quack did not
\* start, nothing.  A DuckDB "still serving from an earlier run" never costs a
\* visitor an authentication error.
LinkIsAccepted ==
  \A l \in Launchers \ overtaken : at[l] = "printed" =>
    listens[port[l]] = IF l \in quackless THEN None ELSE l

\* "Ctrl-C stops it and removes the sample data", as does a failure: a
\* launcher that stops itself or is stopped leaves no work directory, wherever
\* main had come and however it went on while the handler was at it, unless it
\* wrote into the directory while it was being removed.
NothingLeftBehind ==
  \A l \in Launchers \ raced : at[l] = "off" /\ exit[l] \in {"died", "stopped"} => ~workdir[l]
=============================================================================
