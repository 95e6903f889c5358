--------------------------- MODULE ControlClient ---------------------------
(***************************************************************************)
(* The client of the control protocol (nmostesting/IS12Utils.py over the   *)
(* WebsocketWorker of TestHelper.py): commands, subscriptions and commands *)
(* that are not legal are sent over one websocket, on which replies and    *)
(* notifications come back in the device's order and its own time.         *)
(*                                                                         *)
(* The client sends one request at a time and gives up on it after         *)
(* 2 * WS_MESSAGE_TIMEOUT; what comes later is still in the socket when it *)
(* sends the next.                                                         *)
(***************************************************************************)
EXTENDS Naturals, Sequences, Functions

CONSTANTS
    Requests,  \* a bound on the requests of a run
    Kinds,     \* the kinds of request the client makes
    Late       \* the kinds of request whose reply may come after the client gave up

ControlClientAssumption ==
    Requests \in Nat /\ Late \subseteq Kinds /\ Kinds \subseteq {"command", "subscription", "illegal"}

VARIABLES
    handle,    \* the number of the last request, as command_handle
    pending,   \* the kind of the request the client waits for, or "none"
    expect,    \* expect_notifications
    results,   \* the replies send_command has found
    outcome,   \* how the last request ended: [by, of], or "none" yet
    log,       \* notifications
    asked,     \* requests that the device has to reply to
    inbox,     \* messages of the WebsocketWorker
    open,      \* whether the socket is connected
    told,      \* notifications sent, from those still in the socket when the logging starts
    lost       \* whether messages were taken from the socket and not looked at

clientVars == <<handle, pending, expect, results, outcome, log, asked, inbox, open, told, lost>>

Reply == [type : {"CommandResponse", "SubscriptionResponse", "Error"}, of : 1..Requests]
Notification == [type : {"Notification"}, of : 1..Requests]
Idle == pending = "none"

TypeOK ==
    /\ handle \in 0..Requests /\ pending \in Kinds \cup {"none"}
    /\ results \subseteq Reply
    /\ Range(inbox) \subseteq Reply \cup Notification
    /\ outcome \in [by : {"none", "reply", "silence", "error", "several", "unnotified"}, of : 0..Requests]

Init ==
    /\ handle = 0 /\ pending = "none" /\ expect = FALSE /\ results = {}
    /\ outcome = [by |-> "none", of |-> 0]
    /\ log = <<>> /\ asked = <<>> /\ inbox = <<>> /\ open = TRUE /\ told = <<>> /\ lost = FALSE

\* create_command_JSON and send_command up to its loop; nothing is sent when the
\* socket is closed, and nobody is told.
Request(kind) ==
    /\ Idle /\ handle < Requests
    /\ handle' = handle + 1 /\ pending' = kind /\ results' = {}
    /\ outcome' = [by |-> "none", of |-> 0]
    /\ asked' = IF open THEN Append(asked, [kind |-> kind, of |-> handle']) ELSE asked
    /\ UNCHANGED <<expect, log, inbox, open, told, lost>>

\* The notifications among messages, in their order.
Notes(messages) ==
    LET notes[n \in 0..Len(messages)] ==
            IF n = 0 THEN <<>>
            ELSE IF messages[n].type = "Notification" THEN Append(notes[n - 1], messages[n])
            ELSE notes[n - 1]
    IN notes[Len(messages)]

\* start_logging_notifications, before a property is set; stop_logging_notifications.
StartLogging ==
    /\ Idle /\ ~expect /\ expect' = TRUE /\ log' = <<>> /\ told' = Notes(inbox)
    /\ UNCHANGED <<handle, pending, results, outcome, asked, inbox, open, lost>>
StopLogging ==
    /\ Idle /\ expect /\ expect' = FALSE
    /\ UNCHANGED <<handle, pending, results, outcome, log, asked, inbox, open, told, lost>>

\* get_notifications: other messages are thrown away.
GetNotifications ==
    /\ Idle
    /\ log' = log \o Notes(inbox) /\ inbox' = <<>>
    /\ UNCHANGED <<handle, pending, expect, results, outcome, asked, open, told, lost>>

\* Fault: any CommandResponse is taken.
OursFault(m) == m.type # "Notification"

\* Which messages send_command takes for replies to the request.
Ours(m) ==
    \/ m.type = "CommandResponse" /\ m.of = handle
    \/ m.type = "SubscriptionResponse"

Finish(by, of) == pending' = "none" /\ outcome' = [by |-> by, of |-> of]

\* Fault: the notifications that come with the reply are left in the socket's past.
PollFault ==
    /\ ~Idle /\ inbox # <<>>
    /\ results' = results \cup {m \in Range(inbox) : Ours(m)}
    /\ log' = IF results' # {} THEN log ELSE log \o Notes(inbox)
    /\ \/ \E m \in results' : ~expect /\ results' = {m} /\ Finish("reply", m.of)
       \/ (expect \/ ~\E m \in results' : results' = {m}) /\ UNCHANGED <<pending, outcome>>
    /\ inbox' = <<>>
    /\ UNCHANGED <<handle, expect, asked, open, told, lost>>

IsError(m) == m.type = "Error"
Several(set) == \E m, n \in set : m # n

\* The loop of send_command: the messages that have come are gone through up to
\* the first Error, which raises an exception.
Poll ==
    /\ ~Idle
    /\ \E until \in DOMAIN inbox :
         LET seen == SubSeq(inbox, 1, until)
             found == expect => \E n \in DOMAIN log' : log'[n].of = handle
         IN  /\ \A k \in 1..(until - 1) : ~IsError(inbox[k])
             /\ IsError(inbox[until]) \/ until = Len(inbox)
             /\ results' = results \cup {m \in Range(seen) : Ours(m)}
             /\ log' = log \o Notes(seen)
             /\ lost' = (lost \/ Notes(inbox) # Notes(seen))
             /\ \/ IsError(inbox[until]) /\ Finish("error", inbox[until].of)
                \/ ~IsError(inbox[until]) /\ found /\ Several(results') /\ Finish("several", 0)
                \/ /\ ~IsError(inbox[until]) /\ found
                   /\ \E m \in results' : results' = {m} /\ Finish("reply", m.of)
                \/ /\ ~IsError(inbox[until]) /\ (~found \/ results' = {})
                   /\ UNCHANGED <<pending, outcome>>
    /\ inbox' = <<>>
    /\ UNCHANGED <<handle, expect, asked, open, told>>

\* The loop's time is up; a device that is not late has replied by then.
TimeOut ==
    /\ ~Idle /\ inbox = <<>>
    /\ \A n \in DOMAIN asked : asked[n].kind \in Late
    /\ \/ results = {} /\ Finish("silence", 0)
       \/ Several(results) /\ Finish("several", 0)
       \/ \E m \in results :
            /\ results = {m}
            /\ IF expect /\ log = <<>> THEN Finish("unnotified", 0) ELSE Finish("reply", m.of)
    /\ UNCHANGED <<handle, expect, results, log, asked, inbox, open, told, lost>>

\* The device carries out a request; a property that changes is notified before or
\* after the reply.
Serve ==
    /\ asked # <<>> /\ open
    /\ LET r == Head(asked)
           note == [type |-> "Notification", of |-> r.of]
           reply == [of |-> r.of,
                     type |-> CASE r.kind = "command" -> "CommandResponse"
                                [] r.kind = "subscription" -> "SubscriptionResponse"
                                [] OTHER -> "Error"]
       IN  \/ /\ inbox' = Append(inbox, reply) /\ UNCHANGED told
           \/ /\ r.kind = "command"
              /\ inbox' \in {inbox \o <<note, reply>>, inbox \o <<reply, note>>}
              /\ told' = Append(told, note)
    /\ asked' = Tail(asked)
    /\ UNCHANGED <<handle, pending, expect, results, outcome, log, open, lost>>

\* The socket is closed by the other side, with what was under way.
Close ==
    /\ open /\ open' = FALSE /\ asked' = <<>>
    /\ UNCHANGED <<handle, pending, expect, results, outcome, log, inbox, told, lost>>

Next ==
    \/ \E kind \in Kinds : Request(kind)
    \/ StartLogging \/ StopLogging \/ GetNotifications \/ Poll \/ TimeOut \/ Serve \/ Close

Spec == Init /\ [][Next]_clientVars

-----------------------------------------------------------------------------

\* send_command returns the reply to the request it has just sent, or none: a reply
\* that comes late is not taken for the reply to the next request ("find the response
\* to our request", IS12Utils.py).
AnswersAreMatched == outcome.by \in {"reply", "error"} => outcome.of = handle

\* While notifications are logged, each one is in the log or still in the socket,
\* in the device's order, unless an Error came before it.
NotificationsAreKept ==
    expect /\ ~lost => log \o Notes(inbox) = told
=============================================================================
