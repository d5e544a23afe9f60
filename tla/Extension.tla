------------------------------ MODULE Extension ------------------------------
(***************************************************************************)
(* The SQL functions of the extension (src/quackhole_extension.cpp) over   *)
(* the state of a database (src/quackhole_state.cpp) and the endpoint key  *)
(* on disk (load_or_create_key, crates/quackhole-core/src/lib.rs).         *)
(*                                                                         *)
(* A database is a process; the SQL threads of one share its endpoint, and *)
(* the databases of one user share the key file and the port Quack listens *)
(* on.  A thread makes one call at a time, in the steps other threads and  *)
(* other processes can come between.  The endpoint is bound once, under    *)
(* core_lock, by whichever call needs it first; the functions that look    *)
(* whether there is one take the lock too.  What the accept loop does is   *)
(* Serve's business and what a dial does Dial's.                           *)
(***************************************************************************)
EXTENDS Integers, FiniteSets

CONSTANTS
  Databases, Threads,
  DbOf,         \* [Threads -> Databases]
  Makes,        \* [Threads -> the statements it makes]
  Peers,        \* the machines tickets name
  TokenPeers,   \* those whose ticket carries a token
  Aliases,      \* the names they are attached under
  RelayLists,   \* the values of quackhole_relays
  Default,      \* the empty one: n0's public relays
  TooLong,      \* one that parses, and is longer than NormalizeRelays' buffer
  Throwaway,    \* an identity that is in no file
  None

ASSUME DbOfAssumption == DbOf \in [Threads -> Databases]
ASSUME MakesAssumption == Makes \in [Threads -> SUBSET {"set", "serve", "stop", "dial", "attach"}]
ASSUME RelaysAssumption == {Default, TooLong} \subseteq RelayLists /\ Default # TooLong
ASSUME IdentityAssumption ==
  /\ Throwaway \notin Databases /\ None \notin Databases \cup Threads
  /\ {"absent", "empty"} \cap (Databases \cup {Throwaway}) = {}
ASSUME PeersAssumption == TokenPeers \subseteq Peers /\ None \notin Peers

VARIABLES
  settings,   \* [Databases -> quackhole_ephemeral and quackhole_relays]
  core,       \* [Databases -> the endpoint, or None]
  lock,       \* core_lock: the thread that binds, or None
  quack,      \* the database that started the Quack on the port, or None
  keyFile,    \* "absent", "empty", or the database whose key is in it
  at,         \* [Threads -> where the call is]
  call,       \* [Threads -> what it was called with, and what it has found]
  catalogs,   \* [Databases -> what is attached]
  secrets,    \* [Databases -> the peers there is a secret for]
  redone      \* history: peers attached again while attached or being attached

callVars == <<at, call>>
catalogVars == <<catalogs, secrets, redone>>
vars == <<settings, core, lock, quack, keyFile, callVars, catalogVars>>

\* An empty keyFile stands for every content that is not a whole key.
Identities == Databases \cup {Throwaway}
Settings == [ephemeral : BOOLEAN, relays : RelayLists]
Cores == [id : Identities, relays : RelayLists, bound_relays : RelayLists, serving : BOOLEAN]
ASSUME CoresAssumption == None \notin Cores

Unset == [ephemeral |-> FALSE, relays |-> Default]
Calls == [doing : {"nothing", "serve", "dial", "attach"}, ephemeral : BOOLEAN, relays : RelayLists, read : Settings,
          saw : {"bound", "unbound", "overtaken"}, id : Identities, peer : Peers \cup {None}, name : Aliases \cup {None}]
NoCall == [doing |-> "nothing", ephemeral |-> FALSE, relays |-> Default, read |-> Unset,
           saw |-> "bound", id |-> Throwaway, peer |-> None, name |-> None]

Init ==
  /\ settings = [d \in Databases |-> Unset]
  /\ core = [d \in Databases |-> None]
  /\ lock = [d \in Databases |-> None]
  /\ quack = None
  /\ keyFile = "absent"
  /\ at = [t \in Threads |-> "idle"]
  /\ call = [t \in Threads |-> NoCall]
  /\ catalogs = [d \in Databases |-> {}]
  /\ secrets = [d \in Databases |-> {}]
  /\ redone = [d \in Databases |-> {}]

Idle(t, statement) == at[t] = "idle" /\ statement \in Makes[t]
Goes(t, from, to) == at[t] = from /\ at' = [at EXCEPT ![t] = to]
Becomes(t, from, to, c) == Goes(t, from, to) /\ call' = [call EXCEPT ![t] = c]
Returns(t, from) == Becomes(t, from, "idle", NoCall)
Throws(t, from) == Returns(t, from)

Bound(d) == core[d] # None
Unlocked(d) == lock[d] = None

\* SET GLOBAL, at any time.
SetSettings(t) ==
  /\ Idle(t, "set")
  /\ \/ \E e \in BOOLEAN : settings' = [settings EXCEPT ![DbOf[t]].ephemeral = e]
     \/ \E r \in RelayLists : settings' = [settings EXCEPT ![DbOf[t]].relays = r]
  /\ UNCHANGED <<core, lock, quack, keyFile, callVars, catalogVars>>

(***************************************************************************)
(* quackhole_serve.                                                        *)
(***************************************************************************)
\* MaybeStartQuackServer, before anything that may refuse the call.  Its
\* errors are swallowed: whatever already listens is bridged to.
Serve(t, ephemeral) ==
  /\ Idle(t, "serve")
  /\ Becomes(t, "idle", "checks", [NoCall EXCEPT !.doing = "serve", !.ephemeral = ephemeral])
  /\ quack' = IF quack = None THEN DbOf[t] ELSE quack
  /\ UNCHANGED <<settings, core, lock, keyFile, catalogVars>>

\* A throwaway identity is asked for, and an endpoint is there.
RefusesEphemeral(t) == call[t].ephemeral /\ Unlocked(DbOf[t]) /\ Bound(DbOf[t])

\* Mutant: only a list that cannot be normalised is refused.
RelaysTooLong(t) == call[t].relays = TooLong

\* NormalizeRelays(relays) # BoundRelays(), or it throws.
RelaysChanged(t) == call[t].relays = TooLong \/ call[t].relays # core[DbOf[t]].bound_relays

RefusesRelays(t) == Unlocked(DbOf[t]) /\ Bound(DbOf[t]) /\ RelaysChanged(t)

\* Quack, if this call started it, goes on listening.
ServeRefuses(t) ==
  /\ \/ RefusesEphemeral(t) /\ Throws(t, "checks")
     \/ RefusesRelays(t) /\ Throws(t, "comparing")
  /\ UNCHANGED <<settings, core, lock, quack, keyFile, catalogVars>>

ServeChecks(t) ==
  /\ call[t].ephemeral => Unlocked(DbOf[t]) /\ ~Bound(DbOf[t])
  /\ Goes(t, "checks", "reading")
  /\ UNCHANGED <<settings, core, lock, quack, keyFile, call, catalogVars>>

ServeReads(t) ==
  /\ Becomes(t, "reading", "comparing", [call[t] EXCEPT !.relays = settings[DbOf[t]].relays])
  /\ UNCHANGED <<settings, core, lock, quack, keyFile, catalogVars>>

\* ephemeral := true binds with the relays it has just read, and no other
\* setting.
ServeCompares(t) ==
  LET d == DbOf[t]
      found == IF ~Bound(d) THEN "unbound" ELSE IF call[t].ephemeral THEN "overtaken" ELSE "bound" IN
  /\ Unlocked(d)
  /\ Bound(d) => ~RelaysChanged(t)
  /\ Becomes(t, "comparing", IF call[t].ephemeral THEN "locking" ELSE "binding",
             [call[t] EXCEPT !.saw = found, !.read.ephemeral = call[t].ephemeral, !.read.relays = call[t].relays])
  /\ UNCHANGED <<settings, core, lock, quack, keyFile, catalogVars>>

\* qh_serve_start, then the wait for a home relay.
ServeStarts(t) ==
  LET d == DbOf[t] IN
  /\ Goes(t, "starting", "waiting")
  /\ ~core[d].serving
  /\ core' = [core EXCEPT ![d].serving = TRUE]
  /\ UNCHANGED <<settings, lock, quack, keyFile, call, catalogVars>>

ServeFails(t) ==
  /\ Throws(t, "starting")
  /\ core[DbOf[t]].serving
  /\ UNCHANGED <<settings, core, lock, quack, keyFile, catalogVars>>

ServeReturns(t) ==
  /\ Returns(t, "waiting")
  /\ UNCHANGED <<settings, core, lock, quack, keyFile, catalogVars>>

Stop(t) ==
  LET d == DbOf[t] IN
  /\ Idle(t, "stop") /\ Unlocked(d) /\ Bound(d)
  /\ core' = [core EXCEPT ![d].serving = FALSE]
  /\ UNCHANGED <<settings, lock, quack, keyFile, callVars, catalogVars>>

(***************************************************************************)
(* GetOrCreateCoreFromSettings, GetOrCreateCore under core_lock, and the   *)
(* key file.                                                               *)
(***************************************************************************)
\* What a call does once it has an endpoint; the dial itself changes nothing
\* here.
HasCore(t, from, c) ==
  \/ c.doing = "serve" /\ Becomes(t, from, "starting", c)
  \/ c.doing = "attach" /\ Becomes(t, from, "creating", c)
  \/ c.doing = "dial" /\ Returns(t, from)

\* A query over a catalog of a `.iroh` host, the first of which may be what
\* binds the endpoint.
Dial(t) ==
  /\ Idle(t, "dial")
  /\ Becomes(t, "idle", "binding", [NoCall EXCEPT !.doing = "dial"])
  /\ UNCHANGED <<settings, core, lock, quack, keyFile, catalogVars>>

\* The settings are read (by a serve, again) before the lock is taken.
ReadsSettings(t) ==
  /\ Becomes(t, "binding", "locking", [call[t] EXCEPT !.read = settings[DbOf[t]]])
  /\ UNCHANGED <<settings, core, lock, quack, keyFile, catalogVars>>

FindsCore(t) ==
  LET d == DbOf[t] IN
  /\ Unlocked(d) /\ Bound(d)
  /\ HasCore(t, "locking", [call[t] EXCEPT !.read = Unset, !.saw = IF @ = "unbound" THEN "overtaken" ELSE @])
  /\ UNCHANGED <<settings, core, lock, quack, keyFile, catalogVars>>

CreatesCore(t) ==
  LET d == DbOf[t] IN
  /\ Unlocked(d) /\ ~Bound(d)
  /\ Becomes(t, "locking", IF call[t].read.ephemeral THEN "endpoint" ELSE "looking",
             [call[t] EXCEPT !.relays = call[t].read.relays, !.read = Unset])
  /\ lock' = [lock EXCEPT ![d] = t]
  /\ UNCHANGED <<settings, core, quack, keyFile, catalogVars>>

KeyExists(t) ==
  /\ Goes(t, "looking", IF keyFile = "absent" THEN "creating key" ELSE "reading key")
  /\ UNCHANGED <<settings, core, lock, quack, keyFile, call, catalogVars>>

\* Mutant: a plain create, which empties a file that is there.
CreatesKeyOver(t) ==
  /\ Goes(t, "creating key", "writing key")
  /\ keyFile' = "empty"
  /\ UNCHANGED <<settings, core, lock, quack, call, catalogVars>>

\* create_new: whoever loses reads the winner's.
CreatesKey(t) ==
  /\ IF keyFile = "absent" THEN Goes(t, "creating key", "writing key") /\ keyFile' = "empty"
     ELSE Goes(t, "creating key", "reading key") /\ UNCHANGED keyFile
  /\ UNCHANGED <<settings, core, lock, quack, call, catalogVars>>

WritesKey(t) ==
  /\ Becomes(t, "writing key", "endpoint", [call[t] EXCEPT !.id = DbOf[t]])
  /\ keyFile' = DbOf[t]
  /\ UNCHANGED <<settings, core, lock, quack, catalogVars>>

\* The file may still be empty: then the call fails.
ReadsKey(t) ==
  /\ keyFile # "empty"
  /\ Becomes(t, "reading key", "endpoint", [call[t] EXCEPT !.id = keyFile])
  /\ UNCHANGED <<settings, core, lock, quack, keyFile, catalogVars>>

\* A key that cannot be read or written, a socket that cannot be bound.
CoreFails(t) ==
  LET d == DbOf[t] IN
  /\ lock[d] = t
  /\ at' = [at EXCEPT ![t] = "idle"]
  /\ call' = [call EXCEPT ![t] = NoCall]
  /\ lock' = [lock EXCEPT ![d] = None]
  /\ UNCHANGED <<settings, core, quack, keyFile, catalogVars>>

\* The endpoint is there before its relays are normalised: a list that is
\* too long fails the call and stays, with none noted.
BindsCore(t) ==
  LET d == DbOf[t]
      long == call[t].relays = TooLong IN
  /\ core' = [core EXCEPT ![d] = [id |-> call[t].id, relays |-> call[t].relays, serving |-> FALSE,
                                  bound_relays |-> IF long THEN Default ELSE call[t].relays]]
  /\ lock' = [lock EXCEPT ![d] = None]
  /\ IF long THEN Throws(t, "endpoint") ELSE HasCore(t, "endpoint", call[t])
  /\ UNCHANGED <<settings, quack, keyFile, catalogVars>>

(***************************************************************************)
(* quackhole_attach: an endpoint, a secret and an ATTACH.                  *)
(***************************************************************************)
Attached(d, p) == \E k \in catalogs[d] : k.peer = p
Attaching(d, p) == \E t \in Threads : DbOf[t] = d /\ call[t].peer = p

Attach(t, p, n) ==
  LET d == DbOf[t] IN
  /\ Idle(t, "attach")
  /\ Becomes(t, "idle", "binding", [NoCall EXCEPT !.doing = "attach", !.peer = p, !.name = n])
  /\ redone' = IF Attached(d, p) \/ Attaching(d, p) THEN [redone EXCEPT ![d] = @ \cup {p}]
               ELSE redone
  /\ UNCHANGED <<settings, core, lock, quack, keyFile, catalogs, secrets>>

\* CREATE OR REPLACE, for a ticket with a token.
CreatesSecret(t) ==
  LET d == DbOf[t] IN
  /\ Goes(t, "creating", "attaching")
  /\ secrets' = IF call[t].peer \in TokenPeers THEN [secrets EXCEPT ![d] = @ \cup {call[t].peer}]
                ELSE secrets
  /\ UNCHANGED <<settings, core, lock, quack, keyFile, call, catalogs, redone>>

\* An error of it ends the call, and leaves the secrets as they were.
SecretFails(t) ==
  /\ call[t].peer \in TokenPeers
  /\ Throws(t, "creating")
  /\ UNCHANGED <<settings, core, lock, quack, keyFile, catalogVars>>

\* Mutant: the secret is taken out whichever way it went.
AttachesAndDrops(t) ==
  LET d == DbOf[t] IN
  /\ Goes(t, "attaching", "dropping")
  /\ catalogs' = [catalogs EXCEPT ![d] = @ \cup {[peer |-> call[t].peer, name |-> call[t].name]}]
  /\ UNCHANGED <<settings, core, lock, quack, keyFile, call, secrets, redone>>

Attaches(t) ==
  LET d == DbOf[t] IN
  /\ \A k \in catalogs[d] : k.name # call[t].name
  /\ Returns(t, "attaching")
  /\ catalogs' = [catalogs EXCEPT ![d] = @ \cup {[peer |-> call[t].peer, name |-> call[t].name]}]
  /\ UNCHANGED <<settings, core, lock, quack, keyFile, secrets, redone>>

\* The name is taken, the dial fails, or the token is refused.
AttachFails(t) ==
  /\ Goes(t, "attaching", "dropping")
  /\ UNCHANGED <<settings, core, lock, quack, keyFile, call, catalogVars>>

DropsSecret(t) ==
  LET d == DbOf[t] IN
  /\ Throws(t, "dropping")
  /\ secrets' = [secrets EXCEPT ![d] = @ \ {call[t].peer}]
  /\ UNCHANGED <<settings, core, lock, quack, keyFile, catalogs, redone>>

\* A DETACH knows nothing of the secret.
Detach(t) ==
  LET d == DbOf[t] IN
  /\ Idle(t, "attach")
  /\ \E k \in catalogs[d] : catalogs' = [catalogs EXCEPT ![d] = @ \ {k}]
  /\ UNCHANGED <<settings, core, lock, quack, keyFile, callVars, secrets, redone>>

(***************************************************************************)
(* The process ends, by its own will or not, and another is started.       *)
(***************************************************************************)
Restarts(d) ==
  LET theirs == {t \in Threads : DbOf[t] = d} IN
  /\ settings' = [settings EXCEPT ![d] = Unset]
  /\ core' = [core EXCEPT ![d] = None]
  /\ lock' = [lock EXCEPT ![d] = None]
  /\ quack' = IF quack = d THEN None ELSE quack
  /\ at' = [t \in Threads |-> IF t \in theirs THEN "idle" ELSE at[t]]
  /\ call' = [t \in Threads |-> IF t \in theirs THEN NoCall ELSE call[t]]
  /\ catalogs' = [catalogs EXCEPT ![d] = {}]
  /\ secrets' = [secrets EXCEPT ![d] = {}]
  /\ redone' = [redone EXCEPT ![d] = {}]
  /\ UNCHANGED keyFile

-----------------------------------------------------------------------------
Serves(t) ==
  \/ \E ephemeral \in BOOLEAN : Serve(t, ephemeral)
  \/ ServeRefuses(t) \/ ServeChecks(t) \/ ServeReads(t) \/ ServeCompares(t)
  \/ ServeStarts(t) \/ ServeFails(t) \/ ServeReturns(t)
  \/ Stop(t)

Binds(t) ==
  \/ Dial(t) \/ ReadsSettings(t) \/ FindsCore(t) \/ CreatesCore(t)
  \/ KeyExists(t) \/ CreatesKey(t) \/ WritesKey(t) \/ ReadsKey(t)
  \/ CoreFails(t) \/ BindsCore(t)

AttachesPeer(t) ==
  \/ \E p \in Peers, n \in Aliases : Attach(t, p, n)
  \/ CreatesSecret(t) \/ SecretFails(t) \/ Attaches(t) \/ AttachFails(t) \/ DropsSecret(t) \/ Detach(t)

Next ==
  \/ \E t \in Threads : SetSettings(t) \/ Serves(t) \/ Binds(t) \/ AttachesPeer(t)
  \/ \E d \in Databases : Restarts(d)

Spec == Init /\ [][Next]_vars

Phases == {"idle", "checks", "reading", "comparing", "binding", "locking", "looking", "creating key",
           "writing key", "reading key", "endpoint", "starting", "waiting", "creating", "attaching", "dropping"}

TypeOK ==
  /\ settings \in [Databases -> Settings]
  /\ core \in [Databases -> Cores \cup {None}]
  /\ lock \in [Databases -> Threads \cup {None}]
  /\ quack \in Databases \cup {None}
  /\ keyFile \in {"absent", "empty"} \cup Databases
  /\ at \in [Threads -> Phases]
  /\ call \in [Threads -> Calls]
  /\ catalogs \in [Databases -> SUBSET [peer : Peers, name : Aliases]]
  /\ secrets \in [Databases -> SUBSET TokenPeers]
  /\ redone \in [Databases -> SUBSET Peers]

\* lib.rs: "a plain create lets two processes racing the exists() check above
\* clobber each other's identity".  Every endpoint that is not a throwaway
\* has the identity that is in the file, whichever processes raced for it and
\* wherever one was killed; and none ever binds a key it could not keep.
OneIdentity ==
  \A d \in Databases : Bound(d) => core[d].id \in {Throwaway, keyFile}

\* A serve that is not refused serves as it asked: on a throwaway identity if
\* it said so, homed on the relays of the setting as the call has read it: when
\* it compared them with those of the endpoint that was there, or when it came
\* to bind one.  Not one that found no endpoint when it checked and somebody
\* else's later, nor over an endpoint whose list of relays was too long to be
\* noted.
ServedAsAsked ==
  \A t \in Threads :
    LET c == core[DbOf[t]] IN
    at[t] = "waiting" /\ call[t].saw # "overtaken" /\ c.relays # TooLong =>
      (call[t].ephemeral => c.id = Throwaway) /\ c.relays = call[t].relays

\* While nothing is being attached, every remote that is has the secret its
\* token is in, unless it has been attached a second time over the first.
AttachedHasItsSecret ==
  \A d \in Databases : \A p \in TokenPeers \ redone[d] :
    Attached(d, p) /\ ~Attaching(d, p) => p \in secrets[d]
=============================================================================
