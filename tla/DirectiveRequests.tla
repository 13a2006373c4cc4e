--------------------------- MODULE DirectiveRequests ---------------------------
(***************************************************************************)
(* Requests about directives: the listing and its ETag (api/directives.py) *)
(* for a client that polls it, and the command that disables or enables a  *)
(* directive (cli/directive.py), through the server or, when no server     *)
(* answers, by itself; while an aggregation, of whose writes               *)
(* DirectiveLifecycle says more, changes the same rows.                    *)
(***************************************************************************)
EXTENDS FiniteSetsExt, Integers

CONSTANTS Ids,      \* the directives of the project
          MaxClock  \* bound on the writes

VARIABLES status,     \* [Ids -> "active", "disabled" or "obsolete"]
          updated,    \* [Ids -> updated_at]
          written,    \* [Ids -> the time of the last write]
          clock,      \* every fresh write has a time of its own
          began,      \* when the running aggregation began, or 0
          etag,       \* the ETag the client keeps with its list, or NoTag
          polled,     \* the ETag of the poll that is to list, or NoTag
          kept,       \* the client's list: what it says of a directive is named for its last write
          torn,       \* the list was read after a change that its ETag does not tell of
          command,    \* [id, want, at]
          request,    \* the server has the command's request, to be handled: {<<id, status>>} or {}
          handled,    \* how many times the command was carried out
          told        \* "none", "changed", "no_change", "failed"

vars == <<status, updated, written, clock, began, etag, polled, kept, torn, command, request, handled, told>>
rows == <<status, updated, written, clock, began>>
client == <<etag, polled, kept, torn>>
cli == <<command, request, handled, told>>

NoTag == <<0, 0>>
NoCommand == [id |-> "none", want |-> "none", at |-> "idle"]

Init ==
    /\ status = [d \in Ids |-> "active"] /\ updated = [d \in Ids |-> 1] /\ written = updated
    /\ clock = 1 /\ began = 0
    /\ etag = NoTag /\ polled = NoTag /\ kept = {} /\ torn = FALSE
    /\ command = NoCommand /\ request = {} /\ handled = 0 /\ told = "none"

-------------------------------------------------------------------------------
Now == clock + 1

\* A row gets a new status, and a time.
Write(d, s, at) ==
    /\ clock < MaxClock /\ clock' = Now
    /\ status' = [status EXCEPT ![d] = s]
    /\ updated' = [updated EXCEPT ![d] = at] /\ written' = [written EXCEPT ![d] = Now]
    /\ UNCHANGED began

Aggregate ==
    /\ began = 0 /\ clock < MaxClock
    /\ began' = Now /\ clock' = Now
    /\ UNCHANGED <<status, updated, written, client, cli>>

\* The policy's verdict is stamped with the time of its write, ...
Judge(d) ==
    /\ began > 0 /\ status[d] /= "disabled"
    /\ \E s \in {"active", "obsolete"} : Write(d, s, Now)
    /\ UNCHANGED <<client, cli>>

\* ... but a merge and a revision with the time the aggregation began.
Reword(d) ==
    /\ began > 0 /\ Write(d, status[d], began)
    /\ UNCHANGED <<client, cli>>

AggregationEnds ==
    /\ began > 0 /\ began' = 0
    /\ UNCHANGED <<status, updated, written, clock, client, cli>>

-------------------------------------------------------------------------------
Listed == {d \in Ids : status[d] = "active"}

\* Mutant: the tag is the latest change alone.
TagLatest == IF Listed = {} THEN NoTag ELSE <<Max({updated[d] : d \in Listed}), 1>>

\* The latest change and the number of the rows in scope; none of an empty list.
Tag == IF Listed = {} THEN NoTag ELSE <<Max({updated[d] : d \in Listed}), Cardinality(Listed)>>

Listing == {<<d, written[d]>> : d \in Listed}

Keep(tag, list) == etag' = tag /\ kept' = list /\ torn' = (tag /= Tag) /\ polled' = NoTag

\* GET with If-None-Match: 304, or the list is read next; an empty one has no tag.
Poll ==
    /\ polled = NoTag /\ Tag /= etag
    /\ IF Listed = {} THEN Keep(NoTag, {}) ELSE polled' = Tag /\ UNCHANGED <<etag, kept, torn>>
    /\ UNCHANGED <<rows, cli>>

\* The client keeps the list with the tag that was computed before it.
List ==
    /\ polled /= NoTag /\ Keep(polled, Listing)
    /\ UNCHANGED <<rows, cli>>

-------------------------------------------------------------------------------
At(place) == command' = [command EXCEPT !.at = place]
Tell(what) == command' = NoCommand /\ told' = what

\* A mode, a reason for --disable, none for --enable; else the command ends at once.
Run ==
    /\ command = NoCommand /\ request = {}
    /\ \E d \in Ids, want \in {"disabled", "active"}, at \in {"ask", "look"} :
        command' = [id |-> d, want |-> want, at |-> at]
    /\ handled' = 0 /\ told' = "none"
    /\ UNCHANGED <<rows, client, request>>

\* No connection: the command goes on by itself.
NoServer ==
    /\ command.at = "ask" /\ At("look")
    /\ UNCHANGED <<rows, client, request, handled, told>>

Ask ==
    /\ command.at = "ask" /\ At("wait") /\ request' = {<<command.id, command.want>>}
    /\ UNCHANGED <<rows, client, handled, told>>

\* PATCH: nothing is written if the status is the one that is wanted, and the reason too; else the row.
Patch ==
    /\ \E d \in Ids, want \in {"disabled", "active"} :
        <<d, want>> \in request /\ (Write(d, want, Now) \/ (status[d] = want /\ UNCHANGED rows))
    /\ request' = {} /\ handled' = handled + 1
    /\ IF command.at = "wait" THEN Tell("changed") ELSE UNCHANGED <<command, told>>
    /\ UNCHANGED client

\* 404, 422 or 500: the command does not go on by itself.
Refuse ==
    /\ request /= {} /\ request' = {}
    /\ IF command.at = "wait" THEN Tell("failed") ELSE UNCHANGED <<command, told>>
    /\ UNCHANGED <<rows, client, handled>>

\* Mutant: no answer in time is taken for no server.
AfterTimeoutAgain == At("look") /\ UNCHANGED told

\* No answer in time is an error of its own.
AfterTimeout == Tell("failed")

AskTimesOut ==
    /\ command.at = "wait" /\ AfterTimeout
    /\ UNCHANGED <<rows, client, request, handled>>

\* By itself, --enable looks at the row first and says so when it is active.
Look ==
    /\ command.at = "look"
    /\ \/ At("write") /\ UNCHANGED told
       \/ command.want = "active" /\ status[command.id] = "active" /\ Tell("no_change")
       \/ Tell("failed")  \* not in this project
    /\ UNCHANGED <<rows, client, request, handled>>

\* The write is not conditional on what was seen: a disabled directive gets a new reason and date.
Set ==
    /\ command.at = "write"
    /\ Write(command.id, command.want, Now) /\ handled' = handled + 1 /\ Tell("changed")
    /\ UNCHANGED <<client, request>>

Next ==
    \/ Aggregate \/ AggregationEnds \/ Poll \/ List \/ Run \/ NoServer \/ Ask \/ Patch \/ Refuse
    \/ AskTimesOut \/ Look \/ Set
    \/ \E d \in Ids : Judge(d) \/ Reword(d)

Spec == Init /\ [][Next]_vars

-------------------------------------------------------------------------------
TypeOK ==
    /\ status \in [Ids -> {"active", "disabled", "obsolete"}]
    /\ updated \in [Ids -> 1..MaxClock] /\ clock \in 1..MaxClock /\ began \in 0..MaxClock
    /\ \A d \in Ids : written[d] \in updated[d]..clock
    /\ kept \subseteq Ids \X (1..MaxClock) /\ torn \in BOOLEAN /\ request \subseteq Ids \X {"disabled", "active"}
    /\ command.at \in {"idle", "ask", "wait", "look", "write"}
    /\ told \in {"none", "changed", "no_change", "failed"}

\* A poll answered "not modified" hides a change from the client only if a listed row was stamped by an
\* aggregation with a time before its write, or its list was read after a change of another process.
NotModified ==
    etag /= NoTag /\ Tag = etag => kept = Listing \/ torn \/ \E d \in Listed : updated[d] < written[d]

\* Whether the server answers, refuses, is late or is not there, a command is carried out at most once;
\* one that says it has changed the directive was carried out.
HandledOnce == handled <= 1 /\ (told = "changed" => handled = 1)
===============================================================================
