------------------------------ MODULE Workbench ------------------------------
(***************************************************************************)
(* site/app.js over a session: the rail, one route per remote, the shell's *)
(* `.open`, and the tools an agent calls (site/webmcp.js).                 *)
(*                                                                         *)
(* The rail and the routes are drawn from the session's list, at the end   *)
(* of the calls that change it; between two redraws they show what was.    *)
(* `.open` replaces the database and, once a new session has been made for *)
(* it, the session.  The terminal is Terminal's business: here a statement *)
(* typed at the prompt is what it does to the catalogs.                    *)
(***************************************************************************)
EXTENDS Session

CONSTANT MaxTyped   \* how many statements are typed at the prompt

ASSUME TypedAssumption == MaxTyped \in Nat

VARIABLES
  session,   \* the session the page holds
  rail,      \* the remotes the rail shows
  views,     \* [Names -> the route in `views`: "none", "live", or the call
             \* that drew it and is still dialling]
  orphans,   \* routes in the panel that `views` has lost
  stale,     \* the last rebuild failed
  typed      \* how many statements have been typed

pageState == <<session, rail, views, orphans, stale>>
vars == <<sessionVars, pageState, typed>>

Init ==
  /\ SessionInit
  /\ session = 1
  /\ rail = {}
  /\ views = [n \in Names |-> "none"]
  /\ orphans = {}
  /\ stale = FALSE
  /\ typed = 0

ShownIn(s) == {c.name : c \in connections'[s]}

renderConnections == rail' = connections'[session]

\* A route whose remote is no longer listed is taken down.
syncWires(s) == views' = [n \in Names |-> IF n \in ShownIn(s) THEN views[n] ELSE "none"]

\* A route is put up; one already there under that name stays in the panel.
addWire(t, n) ==
  /\ views' = [views EXCEPT ![n] = t]
  /\ orphans' = IF views[n] = "none" THEN orphans ELSE orphans \cup {n}

\* refreshSchema: list the tables of the session there is, then redraw.
ListTables(t, s, doing) ==
  Becomes(t, [NoJob EXCEPT !.session = s, !.doing = doing], "databases", <<Query("databases", t)>>)

\* The tables are in: take down the routes of what is gone and draw
\* the rail, an agent's list-connections included.
RefreshRedraws(t) ==
  /\ TablesReturns(t)
  /\ Returns(t)
  /\ syncWires(session)
  /\ renderConnections
  /\ UNCHANGED <<session, orphans, stale, typed>>

RefreshGoesOn(t) ==
  /\ TablesLists(t)
  /\ UNCHANGED <<pageState, typed>>

ListConnections(t) ==
  /\ Tables(t, session, "list")
  /\ UNCHANGED <<pageState, typed>>

(***************************************************************************)
(* Attaching: a ticket pasted, followed from a link, or given by an agent. *)
(***************************************************************************)
AddRemote(t) ==
  /\ \E p \in Peers, n \in Names : Attach(t, session, p, n) /\ addWire(t, n)
  /\ UNCHANGED <<session, rail, stale, typed>>

AddRemoteGoesOn(t) ==
  /\ AttachGoesOn(t) \/ AttachFails(t)
  /\ UNCHANGED <<pageState, typed>>

\* Mutant: the route stays as it was drawn when the dial began.
AddRemoteReturnsUnlit(t) ==
  /\ AttachReturns(t)
  /\ renderConnections
  /\ ListTables(t, session, "nothing")
  /\ UNCHANGED <<session, views, orphans, stale, typed>>

\* The remote is listed: the route drawn for it is live, if it is still up,
\* and the rail is redrawn with it (attached).
AddRemoteReturns(t) ==
  /\ AttachReturns(t)
  /\ views' = [n \in Names |-> IF n = job[t].name /\ views[n] = t THEN "live" ELSE views[n]]
  /\ renderConnections
  /\ ListTables(t, session, "nothing")
  /\ UNCHANGED <<session, orphans, stale, typed>>

\* Mutant: the error is passed on and the route stays.
AddRemoteThrowsBare(t) ==
  /\ AttachThrows(t)
  /\ Returns(t)
  /\ UNCHANGED <<pageState, typed>>

AddRemoteThrows(t) ==
  /\ AttachThrows(t)
  /\ Returns(t)
  /\ syncWires(session)
  /\ UNCHANGED <<session, rail, orphans, stale, typed>>

(***************************************************************************)
(* Detaching, by the button of a remote the rail shows, gone or not.       *)
(***************************************************************************)
DropRemote(t) ==
  /\ \E c \in rail : Detach(t, session, c)
  /\ UNCHANGED <<pageState, typed>>

DropRemoteGoesOn(t) ==
  /\ DetachGoesOn(t) \/ DetachReconciles(t)
  /\ UNCHANGED <<pageState, typed>>

DropRemoteRefreshes(t) ==
  /\ DetachReturns(t)
  /\ ListTables(t, session, "nothing")
  /\ UNCHANGED <<pageState, typed>>

(***************************************************************************)
(* The prompt: a statement that changes the catalogs, or `.open`.          *)
(***************************************************************************)
ShellBusy == \E t \in Calls : at[t] \in {"typed", "opening"}

ShellTypes(t) ==
  /\ ~ShellBusy
  /\ typed < MaxTyped
  /\ \E n \in Names, doing \in {"hand detach", "buried detach", "hand attach"} : Types(t, doing, n)
  /\ typed' = typed + 1
  /\ UNCHANGED pageState

\* The line succeeded: the page reads the list again if its text looks like
\* DDL.
AfterQuery(t) ==
  /\ TypedReturns(t)
  /\ Ok
  /\ IF Redraws(job[t].doing) THEN ListTables(t, session, "nothing") ELSE Returns(t)
  /\ UNCHANGED <<pageState, typed>>

\* It failed: the error goes to whoever typed it, and afterQuery is not called.
QueryThrows(t) ==
  /\ TypedReturns(t)
  /\ ~Ok
  /\ Returns(t)
  /\ UNCHANGED <<pageState, typed>>

ShellOpens(t) ==
  /\ ~ShellBusy
  /\ typed < MaxTyped /\ database < MaxSessions
  /\ typed' = typed + 1
  /\ Begins(t, [NoJob EXCEPT !.session = database + 1, !.doing = "open"],
            "opening", <<Query("open", t)>>)
  /\ UNCHANGED <<workerVars, connections, replies, crossed, pageState>>

\* Every connection, catalog and secret goes with the old database.
WorkerOpens ==
  /\ Runs("open")
  /\ database' = database + 1
  /\ catalogs' = {}
  /\ secrets' = {}
  /\ strayed' = {} /\ unread' = {}
  /\ Answers(TRUE)
  /\ UNCHANGED <<pageVars, pageState, typed>>

\* rebuild is started and not awaited.
Rebuild(t) ==
  /\ Answered(t, "opening")
  /\ Continues(t, "preparing", <<Query("prepare", t)>>)
  /\ UNCHANGED <<workerVars, connections, crossed, pageState, typed>>

\* newSession: a connection, the extension, the view and the table.
\* INSTALL goes over the network.
WorkerPrepares ==
  /\ Runs("prepare")
  /\ \/ Connected(Running) /\ Answers(TRUE)
     \/ Answers(FALSE)
  /\ UNCHANGED <<workerVars, pageVars, pageState, typed>>

\* The session there was is let go, and its list with it: what calls of it
\* are left only fail.
Rebuilt(t) ==
  /\ Answered(t, "preparing")
  /\ Ok
  /\ session' = job[t].session
  /\ connections' = [connections EXCEPT ![session] = {}]
  /\ stale' = FALSE
  /\ ListTables(t, job[t].session, "nothing")
  /\ UNCHANGED <<workerVars, crossed, rail, views, orphans, typed>>

\* It swallows its failures: the page keeps the session it had.
RebuildFails(t) ==
  /\ Answered(t, "preparing")
  /\ ~Ok
  /\ stale' = TRUE
  /\ Returns(t)
  /\ UNCHANGED <<workerVars, connections, crossed, session, rail, views, orphans, typed>>

-----------------------------------------------------------------------------
Worker ==
  \/ WorkerRunsQuery /\ UNCHANGED <<pageState, typed>>
  \/ WorkerOpens
  \/ WorkerPrepares

Handles(t) ==
  \/ AddRemoteGoesOn(t) \/ AddRemoteReturns(t) \/ AddRemoteThrows(t)
  \/ DropRemoteGoesOn(t) \/ DropRemoteRefreshes(t)
  \/ RefreshGoesOn(t) \/ RefreshRedraws(t)
  \/ AfterQuery(t) \/ QueryThrows(t)
  \/ Rebuild(t) \/ Rebuilt(t) \/ RebuildFails(t)

Asks(t) == AddRemote(t) \/ DropRemote(t) \/ ListConnections(t) \/ ShellTypes(t) \/ ShellOpens(t)

Next == Worker \/ \E t \in Calls : Handles(t) \/ Asks(t)

Spec == Init /\ [][Next]_vars

TypeOK ==
  /\ SessionTypeOK
  /\ session \in Sessions
  /\ rail \subseteq Connection
  /\ views \in [Names -> {"none", "live"} \cup Calls]
  /\ orphans \subseteq Names
  /\ stale \in BOOLEAN
  /\ typed \in 0 .. MaxTyped

\* app.js: "Draw one route per remote, and remove any whose remote has gone."
\* A remote whose attach crossed no other call has its route, live, from the
\* moment it is listed: a rebuild, a detach, a failure and a list drawn
\* meanwhile leave it alone.
RouteUnlessCrossed ==
  \A c \in connections[session] : c.peer \notin crossed => views[c.name] = "live"

\* Once no call is out, a route that is up belongs to a remote that is
\* listed, and the panel holds no route that nothing will take down, unless
\* attaches have crossed.
NoRouteLeftBehind ==
  Quiet /\ crossed = {} => /\ orphans = {}
                          /\ \A n \in Names : views[n] # "none" => n \in Taken(session)

\* Once no call is out the rail shows the session's list, the session is one
\* over the database that is there, and everything listed is attached, however
\* `.open`, lines typed by hand, failed ones included, and the calls of the
\* old session interleaved.  A rebuild that failed leaves the old list up, and
\* a remote detached by hand stays up if the line failed after that, or does
\* not begin with a keyword the page looks for, until the list is next read.
QuietRailIsTrue ==
  Quiet => /\ rail = connections[session]
           /\ ~stale => /\ session = database
                        /\ Taken(session) \ unread \subseteq LiveNames
=============================================================================
