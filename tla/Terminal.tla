------------------------------ MODULE Terminal -------------------------------
(***************************************************************************)
(* site/app.js at the shell's prompt.                                      *)
(*                                                                         *)
(* The shell is somebody else's: it takes keys, one at a time, while it    *)
(* waits at its prompt, and none while a statement runs or before it is    *)
(* ready.  The visitor types there; so does the page, a whole statement    *)
(* and its Enter in one turn: the greeting, the word that a remote is      *)
(* attached, and the statements of callers (an agent, the rail), who queue *)
(* for their turn and wait to be told how it went.  The line cannot be     *)
(* read back, so the page counts keys (promptLen) to know whether one is   *)
(* part-typed.                                                             *)
(*                                                                         *)
(* The line is the sequence of what is on it: "key" for a key of the       *)
(* visitor's, "end" for a semicolon of hers, and as one element each a     *)
(* statement of the page's (a caller stands for its own) and a statement   *)
(* she called back out of the shell's history (its text stands for it).    *)
(* She presses no keys that spell a caller's statement.                    *)
(***************************************************************************)
EXTENDS Integers, Sequences

CONSTANTS
  Callers,       \* those who call runInShell, once each
  TextOf,        \* [Callers -> the text of the statement a caller asks for]
  MaxLine,       \* how many keys the count, or the line, goes up to
  MaxTries,      \* how often the greeting is tried
  MaxAnnounced,  \* how many remotes are announced
  Results        \* the shapes of the results DuckDB returns

ASSUME CountsAssumption ==
  MaxLine \in Nat /\ MaxTries \in Nat /\ MaxAnnounced \in Nat
Texts == {TextOf[c] : c \in Callers}

ASSUME CallersAssumption ==
  /\ Callers \cap {"key", "end", "greeting", "announcement"} = {}
  /\ Texts \cap (Callers \cup {"key", "end", "greeting", "announcement"}) = {}
ASSUME ResultsAssumption ==
  \A r \in Results : /\ r.rows \in Nat /\ r.columns \in Nat \ {0} /\ r.odd \in BOOLEAN
                     /\ r.long \subseteq (1 .. r.rows) \X (1 .. r.columns)

Keys == {"key", "end"}
Statements == {"greeting", "announcement"} \cup Callers
Pieces == Keys \cup Statements \cup Texts

VARIABLES
  ready,      \* the shell has drawn its prompt
  line,       \* what is on the line, unfinished lines before it included
  cursor,     \* how much of it is left of the cursor
  running,    \* the statement that is out, <<>> if none
  promptLen,  \* the page's count
  queue,      \* runInShell's turns
  at,         \* [Callers -> where the call is]
  pending,    \* the callers whose statement somebody waits for
  greeted, tries, announced,
  strip,      \* the activity strip: hidden, armed (a timer), or shown
  dot,        \* the dot on the remote's wire
  ended,      \* history: the callers whose own statement has run to its end
  overlooked  \* history: the line has held more than the count says since it
              \* was last empty

shellVars == <<ready, line, cursor, running, promptLen>>
callVars == <<queue, at, pending>>
greetVars == <<greeted, tries, announced>>
activityVars == <<strip, dot>>
history == <<ended, overlooked>>
vars == <<shellVars, callVars, greetVars, activityVars, history>>

Outcomes == {"answered", "refused", "busy", "timeout"}

Init ==
  /\ ready = FALSE
  /\ line = <<>>
  /\ cursor = 0
  /\ running = <<>>
  /\ promptLen = 0
  /\ queue = <<>>
  /\ at = [c \in Callers |-> "new"]
  /\ pending = {}
  /\ greeted = FALSE
  /\ tries = MaxTries
  /\ announced = 0
  /\ strip = "hidden"
  /\ dot = "still"
  /\ ended = {}
  /\ overlooked = FALSE

(***************************************************************************)
(* The shell, and what the page does around each query it runs.            *)
(***************************************************************************)
AtPrompt == ready /\ running = <<>>

\* The shell takes a line for a statement when it ends in a semicolon.
Finished(l) == l # <<>> /\ l[Len(l)] # "key"

\* The line is l from now on, and the cursor at i.
Edits(l, i) == line' = l /\ cursor' = i

\* Whether the line has come to hold more than the count says.
Overlooks(more) == overlooked' = (line' # <<>> /\ (overlooked \/ more))

ShellIsReady ==
  /\ ~ready
  /\ ready' = TRUE
  /\ Edits(<<>>, 0)
  /\ Overlooks(FALSE)
  /\ UNCHANGED <<running, promptLen, callVars, greetVars, activityVars, ended>>

\* startActivity: the wires the statement names are busy, a timer is armed.
startActivity ==
  /\ strip' = "armed"
  /\ dot' \in {dot, "busy"}

\* Enter hands the line over, and the proxy sees the query go out.  On a
\* statement that is not finished the shell goes on asking for the rest.
Submits(l) ==
  IF Finished(l) THEN running' = l /\ Edits(<<>>, 0) /\ startActivity
  ELSE Edits(l, Len(l)) /\ UNCHANGED <<running, activityVars>>

\* The 180 ms are over and the statement is still out.
ShowActivity ==
  /\ strip = "armed"
  /\ strip' = "shown"
  /\ UNCHANGED <<shellVars, callVars, greetVars, dot, history>>

stopActivity(pulsed) ==
  /\ strip' = "hidden"
  /\ dot' = IF dot # "busy" THEN dot ELSE IF pulsed THEN "pulsing" ELSE "still"

PulseEnds ==
  /\ dot = "pulsing"
  /\ dot' = "still"
  /\ UNCHANGED <<shellVars, callVars, greetVars, strip, history>>

\* Mutant: whoever waits is told.
settleAnyone(text) ==
  /\ pending' = {}
  /\ at' = [c \in Callers |-> IF c \in pending THEN "answered" ELSE at[c]]
  /\ queue' = IF pending # {} THEN Tail(queue) ELSE queue

\* The text of what ran: a caller's statement has the text the caller gave.
TextOfPiece(p) == IF p \in Callers THEN TextOf[p] ELSE p
SameText(l, c) == Len(l) = 1 /\ TextOfPiece(l[1]) = TextOf[c]

\* The waiter for exactly this text, if there is one, is told.
settle(text) ==
  LET told == {c \in pending : SameText(text, c)} IN
  /\ pending' = pending \ told
  /\ at' = [c \in Callers |-> IF c \in told THEN "answered" ELSE at[c]]
  /\ queue' = IF told # {} THEN Tail(queue) ELSE queue

\* Mutant: the activity is stopped after the await, not in a `finally`.
QueryFailsUnfinally ==
  /\ running # <<>>
  /\ running' = <<>>
  /\ ended' = ended \cup {c \in Callers : running = <<c>>}
  /\ settle(running)
  /\ UNCHANGED <<ready, line, cursor, promptLen, greetVars, activityVars, overlooked>>

QueryFails ==
  /\ running # <<>>
  /\ running' = <<>>
  /\ ended' = ended \cup {c \in Callers : running = <<c>>}
  /\ settle(running)
  /\ stopActivity(FALSE)
  /\ UNCHANGED <<ready, line, cursor, promptLen, greetVars, overlooked>>

\* afterQuery, then the waiter.
QueryReturns ==
  /\ running # <<>>
  /\ running' = <<>>
  /\ ended' = ended \cup {c \in Callers : running = <<c>>}
  /\ stopActivity(TRUE)
  /\ greeted' = (greeted \/ running = <<"greeting">>)
  /\ settle(running)
  /\ UNCHANGED <<ready, line, cursor, promptLen, tries, announced, overlooked>>

(***************************************************************************)
(* The visitor, and the count.  A key pressed while the shell is not at    *)
(* its prompt is lost, and counted.  An arrow key is not counted.          *)
(***************************************************************************)
\* What the line is with `pieces` typed at the cursor, and with a Backspace
\* there: a statement less its last character is some keys.
Typed(pieces) == SubSeq(line, 1, cursor) \o pieces \o SubSeq(line, cursor + 1, Len(line))
Erased ==
  IF line[cursor] \in Keys THEN SubSeq(line, 1, cursor - 1) \o SubSeq(line, cursor + 1, Len(line))
  ELSE [line EXCEPT ![cursor] = "key"]

\* Keys that reach the line one by one, and how many the page counts.
Keyed(pieces, counted) ==
  /\ promptLen + counted <= MaxLine /\ Len(line) + Len(pieces) <= MaxLine
  /\ promptLen' = promptLen + counted
  /\ IF AtPrompt THEN Edits(Typed(pieces), cursor + Len(pieces)) ELSE UNCHANGED <<line, cursor>>
  /\ Overlooks(AtPrompt /\ Len(pieces) > counted)
  /\ UNCHANGED <<ready, running, callVars, greetVars, activityVars, ended>>

Presses(k) == Keyed(<<k>>, 1)

\* However long it is, a paste counts one.
Pastes == Keyed(<<"key", "key">>, 1)

\* The shell's side of a Backspace.
ErasesAtCursor ==
  /\ IF AtPrompt /\ cursor > 0
     THEN Edits(Erased, IF line[cursor] \in Keys THEN cursor - 1 ELSE cursor)
     ELSE UNCHANGED <<line, cursor>>
  /\ Overlooks(AtPrompt /\ cursor = 0)
  /\ UNCHANGED <<ready, running, callVars, greetVars, activityVars, ended>>

\* Mutant: one Backspace is taken to clear the line.
BackspaceClears == promptLen' = 0 /\ ErasesAtCursor

\* Mutant: the count goes below nothing.
BackspaceUnder == promptLen' = promptLen - 1 /\ ErasesAtCursor

\* At the beginning of the line it is counted and deletes nothing.
Backspace ==
  /\ promptLen' = IF promptLen = 0 THEN 0 ELSE promptLen - 1
  /\ ErasesAtCursor

\* ArrowLeft and ArrowRight, however often.
ArrowsSideways ==
  /\ AtPrompt
  /\ \E i \in 0 .. Len(line) : cursor' = i
  /\ UNCHANGED <<ready, line, running, promptLen, callVars, greetVars, activityVars, history>>

\* ArrowUp: the line is a statement that ran before.
ArrowUp ==
  /\ AtPrompt
  /\ \E l \in {<<"key", "end">>} \cup {<<TextOf[c]>> : c \in ended} : Edits(l, Len(l))
  /\ Overlooks(TRUE)
  /\ UNCHANGED <<ready, running, promptLen, callVars, greetVars, activityVars, ended>>

Enter ==
  /\ promptLen' = 0
  /\ IF AtPrompt THEN Submits(line) ELSE UNCHANGED <<line, cursor, running, activityVars>>
  /\ Overlooks(TRUE)
  /\ UNCHANGED <<ready, callVars, greetVars, ended>>

(***************************************************************************)
(* The page.                                                               *)
(***************************************************************************)
promptBusy == promptLen > 0

\* Every character and the Enter, one after the other: the count is back at
\* zero, and what was on the line goes with them.
typeIntoShell(s) ==
  /\ promptLen' = 0
  /\ IF AtPrompt THEN Submits(Typed(<<s>>)) ELSE UNCHANGED <<line, cursor, running, activityVars>>
  /\ Overlooks(FALSE)
  /\ UNCHANGED <<ready, ended>>

leavesShell == UNCHANGED <<shellVars, activityVars, history>>

\* Tried again every 250 ms until it is seen to have run.
greet ==
  /\ ~greeted /\ tries > 0
  /\ tries' = tries - 1
  /\ IF promptBusy THEN leavesShell ELSE typeIntoShell("greeting")
  /\ UNCHANGED <<callVars, greeted, announced>>

announce ==
  /\ announced < MaxAnnounced
  /\ announced' = announced + 1
  /\ IF promptBusy THEN leavesShell ELSE typeIntoShell("announcement")
  /\ UNCHANGED <<callVars, greeted, tries>>

runInShell(c) ==
  /\ at[c] = "new"
  /\ at' = [at EXCEPT ![c] = "queued"]
  /\ queue' = Append(queue, c)
  /\ UNCHANGED <<pending, shellVars, greetVars, activityVars, history>>

\* Mutant: the chain carries the outcome, and stops at the first failure.
TurnStuck(c, outcome) ==
  /\ at' = [at EXCEPT ![c] = outcome]
  /\ UNCHANGED queue

\* The chain carries the turn, not the outcome.
TurnOver(c, outcome) ==
  /\ at' = [at EXCEPT ![c] = outcome]
  /\ queue' = Tail(queue)

HasTurn(c) == queue # <<>> /\ Head(queue) = c

\* No statement, a character the terminal does not take, a comment.
Refuses(c) ==
  /\ at[c] = "queued" /\ HasTurn(c)
  /\ TurnOver(c, "refused")
  /\ UNCHANGED <<pending, shellVars, greetVars, activityVars, history>>

RefusesBusy(c) ==
  /\ at[c] = "queued" /\ HasTurn(c)
  /\ promptBusy
  /\ TurnOver(c, "busy")
  /\ UNCHANGED <<pending, shellVars, greetVars, activityVars, history>>

typeAtPrompt(c) ==
  /\ at[c] = "queued" /\ HasTurn(c)
  /\ ~promptBusy
  /\ pending' = {d \in pending : TextOf[d] # TextOf[c]} \cup {c}
  /\ typeIntoShell(c)
  /\ at' = [at EXCEPT ![c] = "typed"]
  /\ UNCHANGED <<queue, greetVars>>

\* Mutant: a statement that was not answered in time is sent again.
ExpiresAndRetries(c) ==
  /\ at[c] = "typed"
  /\ pending' = pending \ {c}
  /\ at' = [at EXCEPT ![c] = "queued"]
  /\ UNCHANGED <<queue, shellVars, greetVars, activityVars, history>>

Expires(c) ==
  /\ at[c] = "typed"
  /\ pending' = pending \ {c}
  /\ TurnOver(c, "timeout")
  /\ UNCHANGED <<shellVars, greetVars, activityVars, history>>

(***************************************************************************)
(* What a caller is shown of a result: two rows, six columns, 80           *)
(* characters a value.  A result is its size and the values whose text is  *)
(* longer; row 0 holds the names of its columns, which are not cut; one    *)
(* that cannot be read is odd.  DuckDB returns no result without a column. *)
(***************************************************************************)
PREVIEW_ROWS == 2
PREVIEW_COLUMNS == 6

Smaller(a, b) == IF a < b THEN a ELSE b
Shown(r) == (0 .. Smaller(r.rows, PREVIEW_ROWS)) \X (1 .. Smaller(r.columns, PREVIEW_COLUMNS))

\* Mutant: the values are looked at over the whole result's columns only.
previewValuesOnly(r) ==
  [shown |-> Shown(r), cut |-> r.long \cap Shown(r), unavailable |-> r.odd,
   truncated |-> r.long \cap Shown(r) # {}]

previewResult(r) ==
  IF r.odd THEN [shown |-> {}, cut |-> {}, unavailable |-> TRUE, truncated |-> FALSE]
  ELSE [shown |-> Shown(r), cut |-> r.long \cap Shown(r), unavailable |-> FALSE,
        truncated |-> r.rows > PREVIEW_ROWS \/ r.columns > PREVIEW_COLUMNS
                      \/ r.long \cap Shown(r) # {}]

-----------------------------------------------------------------------------
Visitor ==
  \/ \E k \in Keys : Presses(k)
  \/ Pastes \/ Backspace \/ ArrowsSideways \/ ArrowUp \/ Enter

Shell == ShellIsReady \/ QueryFails \/ QueryReturns

Page == greet \/ announce \/ ShowActivity \/ PulseEnds

Call(c) == runInShell(c) \/ Refuses(c) \/ RefusesBusy(c) \/ typeAtPrompt(c) \/ Expires(c)

Next == Visitor \/ Shell \/ Page \/ \E c \in Callers : Call(c)

Spec == Init /\ [][Next]_vars

\* The page's own turns and its timer; no statement need ever end.
FairSpec ==
  Spec /\ \A c \in Callers : WF_vars(RefusesBusy(c) \/ typeAtPrompt(c)) /\ WF_vars(Expires(c))

TypeOK ==
  /\ ready \in BOOLEAN
  /\ line \in Seq(Pieces)
  /\ cursor \in 0 .. Len(line)
  /\ running \in Seq(Pieces)
  /\ promptLen \in 0 .. MaxLine
  /\ queue \in Seq(Callers)
  /\ at \in [Callers -> {"new", "queued", "typed"} \cup Outcomes]
  /\ pending \subseteq Callers
  /\ greeted \in BOOLEAN
  /\ tries \in 0 .. MaxTries
  /\ announced \in 0 .. MaxAnnounced
  /\ strip \in {"hidden", "armed", "shown"}
  /\ dot \in {"still", "busy", "pulsing"}
  /\ ended \subseteq Callers
  /\ overlooked \in BOOLEAN

\* app.js: "Typing into a line that was not clear runs a statement nobody
\* wrote, which is what this exists to stop."  A statement of the page's never
\* stays on a line left open, and never goes out joined onto anything, unless
\* since the line was last empty she pasted, pressed Enter on half a
\* statement, called one back with ArrowUp, or pressed Backspace at its
\* beginning.
NothingSpliced ==
  [][/\ \A i \in DOMAIN line' : line'[i] \in Statements => overlooked'
     /\ running' # running /\ ~overlooked =>
          \A i \in DOMAIN running' : running'[i] \in Statements => Len(running') = 1]_vars

\* A call that was told "Nothing ran" tells the truth, then and later.
RefusedNeverRan ==
  \A c \in Callers : at[c] \in {"new", "queued", "refused", "busy"} =>
    c \notin ended /\ \A i \in DOMAIN running : running[i] # c

\* app.js: "One waiter per text is enough, because `runInShell` lets only one
\* statement be at the prompt at a time."  A call that was answered has the
\* outcome of its own statement, which was on the line alone.
AnswerIsOwn == \A c \in Callers : at[c] = "answered" => c \in ended

\* A call has a twin: another that asked for the same text was typed.
HasTwin(c) ==
  \E d \in Callers \ {c} : TextOf[d] = TextOf[c] /\ at[d] \in {"typed", "answered", "timeout"}

\* What a caller is told of its statement is what became of it: "Nothing ran"
\* if and only if it can be tried again, an outcome only if it is its own or
\* that of a twin.
OutcomesAreTrue ==
  /\ RefusedNeverRan
  /\ \A c \in Callers : at[c] = "answered" => c \in ended \/ HasTwin(c)

\* Delivery is at most once: a statement that has run never runs again, and
\* not after a timeout either.
NeverRunTwice == [][\A c \in ended : running' = <<c>> => running = <<c>>]_vars

\* Nothing says a statement is out once none is: "a bar left sweeping over a
\* failed query".
ActivityIsTrue == strip # "hidden" \/ dot = "busy" => running # <<>>

\* What an agent that was answered is told was left out of its preview,
\* whatever the result was, is what was: a value not shown, or not whole.
PreviewTellsTheTruth ==
  \A c \in Callers : at[c] = "answered" =>
    \A r \in Results : LET told == previewResult(r) IN
      ~told.unavailable =>
        told.truncated <=> \E cell \in (0 .. r.rows) \X (1 .. r.columns) :
                             cell \notin told.shown \/ cell \in told.cut

\* Every call is over in the end, answered, refused or timed out, whatever
\* runs at the prompt and however the calls before it went.  (Each is made
\* once and stays over, so that all are over together some time later.)
EveryCallSettles ==
  (\E c \in Callers : at[c] = "queued") ~> (\A c \in Callers : at[c] \in {"new"} \cup Outcomes)
=============================================================================
