------------------------------- MODULE Session -------------------------------
(***************************************************************************)
(* web/session.js: several remotes attached into one DuckDB-Wasm, and a    *)
(* list of them that has to stay true.                                     *)
(*                                                                         *)
(* DuckDB runs in a worker.  Every query of the page is a message to it:   *)
(* they are run one after the other in the order they were posted, and     *)
(* answered in that order.  A call of the session (attach, detach,         *)
(* tables) is a chain of such queries; between two of them anything else   *)
(* may be posted, typed at the prompt included.                            *)
(*                                                                         *)
(* at[t] is the query call t waits for, job[t] what it works on.  A call   *)
(* that is over leaves at and posted to whoever made it: Continues says    *)
(* what that is.                                                           *)
(*                                                                         *)
(* A catalog name is a number: 1 is `remote`, n is `remote<n>`.  A secret  *)
(* is named after its peer, so the peer stands for it.  A session is       *)
(* numbered after the database it was made for: `.open` resets the         *)
(* database, and a connection to an earlier one only fails.                *)
(***************************************************************************)
EXTENDS Integers, Sequences

CONSTANTS
  Peers,          \* the machines tickets name
  TokenPeers,     \* those whose ticket carries a token
  MaxNames,       \* how many catalog names are told apart
  MaxSessions,    \* how many databases there are, one after the other
  Calls,          \* how many calls may be out at once
  NoPeer          \* a job that names no peer

ASSUME PeersAssumption == TokenPeers \subseteq Peers /\ NoPeer \notin Peers
ASSUME CountsAssumption == MaxNames \in Nat /\ MaxSessions \in Nat \ {0}

Names == 1 .. MaxNames
Sessions == 1 .. MaxSessions

Connection == [name : Names, peer : Peers]
Catalog == [name : Names, peer : Peers \cup {NoPeer}, by : {"session", "hand"}]

Job == [session : Sessions, name : Names \cup {0}, peer : Peers \cup {NoPeer},
        doing : {"nothing", "attach", "list", "hand detach", "buried detach", "hand attach", "open"}]
NoJob == [session |-> 1, name |-> 0, peer |-> NoPeer, doing |-> "nothing"]

\* The queries, in the order their calls go through them.
Queries == {"create secret", "attach", "drop secret", "detach", "databases", "listing",
            "typed", "open", "prepare"}

\* What a call waits for: an answer to one of its queries.
Phases == {"idle", "creating", "attaching", "undoing", "detaching", "dropping",
           "reconciling", "databases", "listing", "typed", "opening", "preparing"}

Query(op, t) == [op |-> op, call |-> t]

VARIABLES
  database,      \* the database the worker holds
  catalogs,      \* what is attached to it
  secrets,       \* the peers it holds a secret for
  connections,   \* [Sessions -> the remotes a session lists]
  at,            \* [Calls -> Phases]
  job,           \* [Calls -> Job]
  posted,        \* the messages on their way to the worker
  replies,       \* the answers on their way back
  unread,        \* history: names detached by hand, in a statement the page makes
                 \* nothing of, since the worker was last asked what is attached
  strayed,       \* history: peers with a token detached by hand or in another's
                 \* name, whose DETACH failed, or whose name went by hand
  crossed        \* history: peers whose attach began while another dialled,
                 \* or while the list was being read, or was dialling then

workerVars == <<database, catalogs, secrets, strayed, unread>>
sessionVars == <<workerVars, connections, at, job, posted, replies, crossed>>

SessionInit ==
  /\ database = 1
  /\ catalogs = {}
  /\ secrets = {}
  /\ connections = [s \in Sessions |-> {}]
  /\ at = [t \in Calls |-> "idle"]
  /\ job = [t \in Calls |-> NoJob]
  /\ posted = <<>>
  /\ replies = <<>>
  /\ unread = {}
  /\ strayed = {}
  /\ crossed = {}

Idle == {t \in Calls : at[t] = "idle"}
Quiet == Idle = Calls

\* The call goes on as j: it waits in `phase` for the last query it posts.
Becomes(t, j, phase, queries) ==
  /\ at' = [at EXCEPT ![t] = phase]
  /\ posted' = posted \o queries
  /\ job' = [job EXCEPT ![t] = j]

Continues(t, phase, queries) == Becomes(t, job[t], phase, queries)
Returns(t) == Becomes(t, NoJob, "idle", <<>>)
Begins(t, j, phase, queries) == at[t] = "idle" /\ Becomes(t, j, phase, queries)

(***************************************************************************)
(* DuckDB in its worker.                                                   *)
(***************************************************************************)
Runs(op) == posted # <<>> /\ Head(posted).op = op
Running == Head(posted).call

\* The session's connection is one to the database there is now.
Connected(t) == job[t].session = database

PeersNamed(S, n) == TokenPeers \cap {k.peer : k \in {k \in S : k.name = n}}
LiveNames == {k.name : k \in catalogs}

Answers(ok) ==
  /\ posted' = Tail(posted)
  /\ replies' = Append(replies, [call |-> Running, ok |-> ok, live |-> {}])

AnswersNames ==
  /\ posted' = Tail(posted)
  /\ replies' = Append(replies, [call |-> Running, ok |-> Connected(Running),
                                 live |-> IF Connected(Running) THEN LiveNames ELSE {}])

pageVars == <<connections, at, job, crossed>>

WorkerCreatesSecret ==
  /\ Runs("create secret")
  /\ LET p == job[Running].peer
         ok == Connected(Running) /\ p \notin secrets IN
     /\ Answers(ok)
     /\ secrets' = IF ok THEN secrets \cup {p} ELSE secrets
  /\ UNCHANGED <<database, catalogs, strayed, unread, pageVars>>

\* The dial, and the token, may fail; the name may be taken by hand.
WorkerAttaches ==
  /\ Runs("attach")
  /\ LET j == job[Running] IN
     \/ /\ Connected(Running)
        /\ j.name \notin LiveNames
        /\ j.peer \in TokenPeers => j.peer \in secrets
        /\ catalogs' = catalogs \cup {[name |-> j.name, peer |-> j.peer, by |-> "session"]}
        /\ strayed' = strayed \ {j.peer}
        /\ Answers(TRUE)
     \/ Answers(FALSE) /\ UNCHANGED <<catalogs, strayed>>
  /\ UNCHANGED <<database, secrets, unread, pageVars>>

WorkerDropsSecret ==
  /\ Runs("drop secret")
  /\ Answers(Connected(Running))
  /\ secrets' = IF Connected(Running) THEN secrets \ {job[Running].peer} ELSE secrets
  /\ strayed' = IF at[Running] = "undoing" THEN strayed \ {job[Running].peer} ELSE strayed
  /\ UNCHANGED <<database, catalogs, unread, pageVars>>

\* A DETACH fails on a catalog that is not there or that is in use.
WorkerDetaches ==
  /\ Runs("detach")
  /\ LET j == job[Running] IN
     \/ /\ Connected(Running)
        /\ j.name \in LiveNames
        /\ catalogs' = {k \in catalogs : k.name # j.name}
        /\ strayed' = strayed \cup (PeersNamed(catalogs, j.name) \ {j.peer})
        /\ Answers(TRUE)
     \/ /\ Answers(FALSE)
        /\ strayed' = IF Connected(Running) THEN strayed \cup (TokenPeers \cap {j.peer}) ELSE strayed
        /\ UNCHANGED catalogs
  /\ UNCHANGED <<database, secrets, unread, pageVars>>

WorkerListsDatabases ==
  /\ Runs("databases")
  /\ AnswersNames
  /\ unread' = IF Connected(Running) THEN {} ELSE unread
  /\ UNCHANGED <<database, catalogs, secrets, strayed, pageVars>>

WorkerListsTables ==
  /\ Runs("listing")
  /\ Answers(Connected(Running))
  /\ UNCHANGED <<workerVars, pageVars>>

\* Mutant: the keyword test leaves out `detach`.
RedrawsAfterAttach(doing) == doing = "hand attach"

\* afterQuery's keyword test: the text begins with create, drop, attach,
\* detach or alter.  A DETACH may stand behind something else: a comment, or
\* another statement (`USE memory; DETACH remote;`).
Redraws(doing) == doing \in {"hand detach", "hand attach"}

\* A line somebody typed, over a connection of its own.  It may hold several
\* statements, so that it may fail with what it did already done.
WorkerRunsTyped ==
  /\ Runs("typed")
  /\ \E ok \in BOOLEAN :
       /\ Answers(ok)
       /\ LET j == job[Running] IN
          \/ /\ j.doing \in {"hand detach", "buried detach"}
             /\ j.name \in LiveNames
             /\ catalogs' = {k \in catalogs : k.name # j.name}
             /\ strayed' = strayed \cup PeersNamed(catalogs, j.name)
             /\ unread' = IF ok /\ j.doing = "hand detach" THEN unread ELSE unread \cup {j.name}
          \/ /\ j.doing = "hand attach"
             /\ j.name \notin LiveNames
             /\ catalogs' = catalogs \cup {[name |-> j.name, peer |-> NoPeer, by |-> "hand"]}
             /\ strayed' = strayed \cup PeersNamed(connections[database], j.name)
             /\ UNCHANGED unread
          \/ UNCHANGED <<catalogs, strayed, unread>>
  /\ UNCHANGED <<database, secrets, pageVars>>

WorkerRunsQuery ==
  \/ WorkerCreatesSecret
  \/ WorkerAttaches
  \/ WorkerDropsSecret
  \/ WorkerDetaches
  \/ WorkerListsDatabases
  \/ WorkerListsTables
  \/ WorkerRunsTyped

(***************************************************************************)
(* The session's calls.                                                    *)
(***************************************************************************)
\* The answer to the query call t waits for in `phase` is handled.
Answered(t, phase) ==
  /\ replies # <<>>
  /\ Head(replies).call = t
  /\ at[t] = phase
  /\ replies' = Tail(replies)

Ok == Head(replies).ok

Taken(s) == {c.name : c \in connections[s]}
UniqueName(s, n) == n \notin Taken(s) /\ \A m \in 1 .. n - 1 : m \in Taken(s)

Dialling(t) == at[t] \in {"creating", "attaching", "undoing"}
Reading(t) == at[t] \in {"detaching", "dropping", "reconciling", "databases", "listing"}

\* History: this attach of p crosses another call.
Crosses(p) ==
  crossed' = IF \E t \in Calls : Dialling(t) \/ Reading(t)
             THEN crossed \cup {p} \cup {job[t].peer : t \in {u \in Calls : Dialling(u)}}
             ELSE crossed

Already(s, p) == \E c \in connections[s] : c.peer = p

Record(t) == [name |-> job[t].name, peer |-> job[t].peer]

\* Mutant: a ticket without a token gets a secret too.
FirstQueryAlike(t, p) == <<Query("create secret", t)>>

\* What attach posts before its first await, the peer's relay (ShimBridge's
\* business) aside.
FirstQuery(t, p) ==
  IF p \in TokenPeers THEN <<Query("create secret", t)>> ELSE <<Query("attach", t)>>

\* Mutant: the list is not asked for the peer.
AttachUnchecked(t, s, p, n) ==
  /\ UniqueName(s, n)
  /\ Begins(t, [session |-> s, name |-> n, peer |-> p, doing |-> "attach"],
            IF p \in TokenPeers THEN "creating" ELSE "attaching", FirstQuery(t, p))
  /\ Crosses(p)
  /\ UNCHANGED <<workerVars, connections, replies>>

\* attach, up to its first await.  A ticket that does not parse, or that
\* names a peer already listed, throws and changes nothing.
Attach(t, s, p, n) ==
  /\ ~Already(s, p)
  /\ UniqueName(s, n)
  /\ Begins(t, [session |-> s, name |-> n, peer |-> p, doing |-> "attach"],
            IF p \in TokenPeers THEN "creating" ELSE "attaching", FirstQuery(t, p))
  /\ Crosses(p)
  /\ UNCHANGED <<workerVars, connections, replies>>

AttachGoesOn(t) ==
  /\ Answered(t, "creating")
  /\ Ok
  /\ Continues(t, "attaching", <<Query("attach", t)>>)
  /\ UNCHANGED <<workerVars, connections, crossed>>

\* Mutant: a failure is thrown as it is.
AttachFailsAtOnce(t) ==
  /\ Answered(t, "attaching") \/ Answered(t, "creating")
  /\ ~Ok
  /\ Returns(t)
  /\ UNCHANGED <<workerVars, connections, crossed>>

\* Either query failed: take the secret back out before throwing.
AttachFails(t) ==
  /\ Answered(t, "attaching") \/ Answered(t, "creating")
  /\ ~Ok
  /\ Continues(t, "undoing", <<Query("drop secret", t)>>)
  /\ UNCHANGED <<workerVars, connections, crossed>>

AttachThrows(t) ==
  /\ Answered(t, "undoing")
  /\ UNCHANGED <<workerVars, connections, crossed>>

AttachReturns(t) ==
  /\ Answered(t, "attaching")
  /\ Ok
  /\ connections' = [connections EXCEPT ![job[t].session] = @ \cup {Record(t)}]
  /\ UNCHANGED <<workerVars, crossed>>

\* Mutant: the remote is taken off the list first, whatever its DETACH says.
DetachForgets(t, s, c) ==
  /\ Begins(t, [session |-> s, name |-> c.name, peer |-> c.peer, doing |-> "nothing"],
            "detaching", <<Query("detach", t)>>)
  /\ connections' = [connections EXCEPT ![s] = @ \ {c}]
  /\ UNCHANGED <<workerVars, replies, crossed>>

Detach(t, s, c) ==
  /\ Begins(t, [session |-> s, name |-> c.name, peer |-> c.peer, doing |-> "nothing"],
            "detaching", <<Query("detach", t)>>)
  /\ UNCHANGED <<workerVars, connections, replies, crossed>>

\* Whether or not it could be detached, its secret goes.
DetachGoesOn(t) ==
  /\ Answered(t, "detaching")
  /\ Continues(t, "dropping", <<Query("drop secret", t)>>)
  /\ UNCHANGED <<workerVars, connections, crossed>>

DetachReconciles(t) ==
  /\ Answered(t, "dropping")
  /\ Continues(t, "reconciling", <<Query("databases", t)>>)
  /\ UNCHANGED <<workerVars, connections, crossed>>

\* reconcile, once its query is answered: a remote the worker does not hold
\* is dropped from the list, unless the worker could not be asked.
Reconciled(s) ==
  connections' =
    IF Ok THEN [connections EXCEPT ![s] = {c \in @ : c.name \in Head(replies).live}]
    ELSE connections

DetachReturns(t) ==
  /\ Answered(t, "reconciling")
  /\ Reconciled(job[t].session)
  /\ UNCHANGED <<workerVars, crossed>>

Tables(t, s, doing) ==
  /\ Begins(t, [NoJob EXCEPT !.session = s, !.doing = doing],
            "databases", <<Query("databases", t)>>)
  /\ UNCHANGED <<workerVars, connections, replies, crossed>>

\* A listing per connection, posted together; one that fails is empty.
TablesLists(t) ==
  /\ Answered(t, "databases")
  /\ Reconciled(job[t].session)
  /\ Continues(t, "listing", <<Query("listing", t)>>)
  /\ UNCHANGED <<workerVars, crossed>>

TablesReturns(t) ==
  /\ Answered(t, "listing")
  /\ UNCHANGED <<workerVars, connections, crossed>>

\* A line typed at the prompt.
Types(t, doing, n) ==
  /\ Begins(t, [NoJob EXCEPT !.doing = doing, !.name = n],
            "typed", <<Query("typed", t)>>)
  /\ UNCHANGED <<workerVars, connections, replies, crossed>>

TypedReturns(t) ==
  /\ Answered(t, "typed")
  /\ UNCHANGED <<workerVars, connections, crossed>>

SessionTypeOK ==
  /\ database \in Sessions
  /\ catalogs \subseteq Catalog
  /\ secrets \subseteq TokenPeers
  /\ connections \in [Sessions -> SUBSET Connection]
  /\ at \in [Calls -> Phases]
  /\ job \in [Calls -> Job]
  /\ posted \in Seq([op : Queries, call : Calls])
  /\ replies \in Seq([call : Calls, ok : BOOLEAN, live : SUBSET Names])
  /\ unread \subseteq Names
  /\ strayed \subseteq TokenPeers
  /\ crossed \subseteq Peers

(***************************************************************************)
(* What is true at every moment, of every session.                         *)
(***************************************************************************)
Distinct(c, d) == c.name # d.name /\ c.peer # d.peer

\* session.js: "a truthful list", in which attaching one machine twice "would
\* be a lie".  No two remotes of a list share a name or a machine.
ConnectionsDistinct ==
  \A s \in Sessions : \A c, d \in connections[s] : c # d => Distinct(c, d)

\* It is so of a remote whose attach crossed no other call: it shares neither
\* its name nor its machine with any other remote of its list, whatever is
\* attached, detached, reconciled or opened meanwhile.
DistinctUnlessCrossed ==
  \A s \in Sessions : \A c, d \in connections[s] :
    c # d /\ c.peer \notin crossed => Distinct(c, d)

\* A catalog the session attached is on its list until it is gone, or the
\* answer to its ATTACH is on the way: no reconcile, however late its answer
\* is applied, takes away a remote that is there.
AttachedIsListed ==
  \A k \in catalogs : k.by = "session" =>
    \/ [name |-> k.name, peer |-> k.peer] \in connections[database]
    \/ \E t \in Calls : at[t] = "attaching" /\ Record(t) = [name |-> k.name, peer |-> k.peer]

\* Once no call is out, there is a secret for every remote with a token that
\* is listed and for no other, but for a peer detached behind the session's
\* back, one that could not be detached and one whose attach crossed another.
SecretsFollowTheList ==
  Quiet => \A p \in TokenPeers \ (strayed \cup crossed) :
             p \in secrets <=> Already(database, p)
=============================================================================
