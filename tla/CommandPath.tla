----------------------------- MODULE CommandPath -----------------------------
(***************************************************************************)
(* The way of an operator's command: dashboard (its own connection,          *)
(* useRabbitMQ.js, or the backend's, RabbitMqBridgeService), broker, the     *)
(* bot's consumer (messaging.rs), the command channel,                       *)
(* Aggregator::handle_command, config.json (config.rs) and users.json        *)
(* (auth.rs), and back: the broadcast that the dashboards show.              *)
(*                                                                         *)
(* The connections to the broker break and the broker restarts; the bot      *)
(* crashes, also while it writes a file; files cannot always be written.     *)
(* A setting is represented by the number of the command that gave it.       *)
(***************************************************************************)
EXTENDS Integers, Sequences, SequencesExt

CONSTANTS
  Field,        \* the settings of AppConfig that commands change
  User,         \* names that may register
  CAP,          \* capacity of the command channel (10)
  MAX_COMMANDS, MAX_FAULTS,   \* bounds
  Kinds         \* bound: Kinds[n], what the n-th command may be

ASSUME PathAssumption == "url" \in Field /\ {CAP, MAX_COMMANDS, MAX_FAULTS} \subseteq Nat

VARIABLES
  running,    \* the bot's process lives
  conf,       \* AppConfig in memory
  listening,  \* the URL the listener task was given last
  file,       \* config.json
  users,      \* users.json
  link,       \* the bot's connection: "up", "down", or "off" (messaging is None)
  consumer,   \* a consumer is registered on this connection
  queue,      \* the durable queue bot_commands
  unacked,    \* delivered to the consumer and not acknowledged
  buffer,     \* delivered and not yet handed to CommandForwarder
  acking,     \* CommandForwarder has forwarded a command and will acknowledge it
  inbox,      \* the command channel
  bridge,     \* the connection of the dashboard or of the backend is open
  view,       \* the configuration the dashboards show
  issued,     \* history: commands so far
  applied,    \* history: those handled in this run
  past,       \* history: every configuration that was in force
  heard,      \* history: commands issued when this run lost its consumer
  accepted,   \* history: commands the broker took that the bot can parse
  handled,    \* history: commands handled in any run
  lost,       \* history: commands lost with the broker's or the bot's memory
  faults      \* bound

vars == <<running, conf, listening, file, users, link, consumer, queue, unacked, buffer, acking,
          inbox, bridge, view, issued, applied, past, heard, accepted, handled, lost,
          faults>>
bot == <<running, conf, listening, inbox, applied, past, handled>>
disk == <<file, users>>
wire == <<link, consumer, heard>>
delivery == <<queue, unacked, buffer, acking>>
panel == <<bridge, view, issued, accepted>>

Torn == [torn |-> TRUE]   \* a file that does not parse
Names(S) == [names |-> S]
NoView == [none |-> TRUE]
Default == [f \in Field |-> 0]
LastId(s) == IF s = << >> THEN 0 ELSE Last(s).id
Ids(s) == {c.id : c \in ToSet(s)}

Init ==
  /\ running = TRUE /\ conf = Default /\ listening = 0
  /\ file = Default /\ users = Names({})
  /\ link = "up" /\ consumer = TRUE
  /\ queue = << >> /\ unacked = << >> /\ buffer = << >> /\ acking = FALSE /\ inbox = << >>
  /\ bridge = TRUE /\ view = NoView
  /\ issued = 0 /\ applied = << >> /\ past = {Default} /\ heard = MAX_COMMANDS
  /\ accepted = {} /\ handled = {} /\ lost = {} /\ faults = 0

Fault == faults < MAX_FAULTS /\ faults' = faults + 1

-----------------------------------------------------------------------------
(* The dashboards and the backend. *)

\* A command that changes one setting; the whole configuration a dashboard
\* shows, with one setting changed; a registration; one that only is logged;
\* one that does not parse.
Commands ==
  LET n == issued + 1
  IN {c \in [id : {n}, kind : {"set"}, field : Field]
            \cup (IF view = NoView THEN {}
                  ELSE [id : {n}, kind : {"replace"}, field : Field, shown : {view}])
            \cup [id : {n}, kind : {"register"}, user : User]
            \cup [id : {n}, kind : {"log", "unknown"}] : c.kind \in Kinds[n]}

\* PublishCommandAsync and sendBotCommand: dropped when the connection is not
\* open.
Issue ==
  /\ issued < MAX_COMMANDS
  /\ issued' = issued + 1
  /\ \E c \in Commands :
       /\ queue' = IF bridge THEN Append(queue, c) ELSE queue
       /\ accepted' = IF bridge /\ c.kind # "unknown" THEN accepted \cup {c.id} ELSE accepted
  /\ UNCHANGED <<bot, disk, wire, unacked, buffer, acking, bridge, view, lost, faults>>

BridgeDown ==
  /\ bridge /\ Fault
  /\ bridge' = FALSE
  /\ UNCHANGED <<bot, disk, wire, delivery, view, issued, accepted, lost>>

\* ConnectLoopAsync.
BridgeUp ==
  /\ ~bridge
  /\ bridge' = TRUE
  /\ UNCHANGED <<bot, disk, wire, delivery, view, issued, accepted, lost, faults>>

-----------------------------------------------------------------------------
(* The broker and the bot's consumer. *)

\* What the broker has not seen acknowledged goes back in front of its queue;
\* what was delivered to the client may still be handed on.
LoseLink(buffered) ==
  /\ link' = IF link = "off" THEN "off" ELSE "down"
  /\ consumer' = FALSE
  /\ heard' = IF consumer THEN issued ELSE heard
  /\ buffer' = buffered
  /\ unacked' = << >>

Cut ==
  /\ link = "up" /\ Fault
  /\ \E buffered \in {buffer, << >>} : LoseLink(buffered)
  /\ queue' = unacked \o queue
  /\ UNCHANGED <<bot, disk, acking, panel, lost>>

\* The queue is durable, the commands in it are not.
BrokerRestart ==
  /\ Fault
  /\ \E buffered \in {buffer, << >>} : LoseLink(buffered)
  /\ queue' = << >>
  /\ lost' = lost \cup Ids(unacked) \cup Ids(queue)
  /\ bridge' = FALSE
  /\ UNCHANGED <<bot, disk, acking, view, issued, accepted>>

\* Mutation of Deliver: deliveries count as acknowledged (no_ack).
DeliverAutoAck ==
  /\ consumer /\ queue # << >>
  /\ queue' = Tail(queue)
  /\ buffer' = Append(buffer, Head(queue))
  /\ UNCHANGED <<bot, disk, wire, unacked, acking, panel, lost, faults>>

Deliver ==
  /\ consumer /\ queue # << >>
  /\ queue' = Tail(queue)
  /\ buffer' = Append(buffer, Head(queue)) /\ unacked' = Append(unacked, Head(queue))
  /\ UNCHANGED <<bot, disk, wire, acking, panel, lost, faults>>

\* Mutation of Forward: try_send, which drops a command when there is no room.
ForwardTry ==
  /\ running /\ buffer # << >> /\ ~acking
  /\ inbox' = IF Head(buffer).kind # "unknown" /\ Len(inbox) < CAP
              THEN Append(inbox, Head(buffer)) ELSE inbox
  /\ buffer' = Tail(buffer)
  /\ acking' = TRUE
  /\ UNCHANGED <<running, conf, listening, applied, past, handled, disk, wire, queue, unacked,
                 panel, lost, faults>>

\* Mutation of Forward: an unbounded channel.
ForwardUnbounded ==
  /\ running /\ buffer # << >> /\ ~acking
  /\ inbox' = IF Head(buffer).kind = "unknown" THEN inbox ELSE Append(inbox, Head(buffer))
  /\ buffer' = Tail(buffer)
  /\ acking' = TRUE
  /\ UNCHANGED <<running, conf, listening, applied, past, handled, disk, wire, queue, unacked,
                 panel, lost, faults>>

\* CommandForwarder::consume: the command is sent to the channel, waiting for
\* room, and then acknowledged; one that does not parse is acknowledged only.
Forward ==
  /\ running /\ buffer # << >> /\ ~acking
  /\ LET c == Head(buffer)
     IN IF c.kind = "unknown"
        THEN UNCHANGED inbox
        ELSE Len(inbox) < CAP /\ inbox' = Append(inbox, c)
  /\ buffer' = Tail(buffer)
  /\ acking' = TRUE
  /\ UNCHANGED <<running, conf, listening, applied, past, handled, disk, wire, queue, unacked,
                 panel, lost, faults>>

\* Mutation of Ack: the newest delivery is acknowledged.
AckNewest ==
  /\ acking
  /\ acking' = FALSE
  /\ unacked' = IF consumer THEN Front(unacked) ELSE unacked
  /\ UNCHANGED <<bot, disk, wire, queue, buffer, panel, lost, faults>>

\* The acknowledgement of a delivery reaches only the connection it came on.
Ack ==
  /\ acking
  /\ acking' = FALSE
  /\ unacked' = IF consumer /\ unacked # << >> THEN Tail(unacked) ELSE unacked
  /\ UNCHANGED <<bot, disk, wire, queue, buffer, panel, lost, faults>>

-----------------------------------------------------------------------------
(* The bot. *)

\* Mutation of Publish: the consumer is registered again.
PublishConsumes(shown) ==
  /\ UNCHANGED heard
  /\ \/ /\ link = "up"
        /\ view' = IF bridge THEN shown ELSE view
        /\ UNCHANGED <<link, consumer>>
     \/ /\ link = "down" /\ link' = "up" /\ consumer' = TRUE
        /\ view' = IF bridge THEN shown ELSE view
     \/ /\ link # "up" /\ UNCHANGED <<link, consumer, view>>

\* broadcast_config, RabbitMQClient::publish: a closed connection is opened
\* again first, which may fail; the dashboards see what the bridge receives.
Publish(shown) ==
  /\ UNCHANGED <<consumer, heard>>
  /\ \/ /\ link = "up"
        /\ view' = IF bridge THEN shown ELSE view
        /\ UNCHANGED link
     \/ /\ link = "down" /\ link' = "up"
        /\ view' = IF bridge THEN shown ELSE view
     \/ /\ link # "up" /\ UNCHANGED <<link, view>>

\* Every two seconds.
Broadcast ==
  /\ running
  /\ Publish(conf)
  /\ UNCHANGED <<bot, disk, delivery, bridge, issued, accepted, lost, faults>>

\* The match of handle_command: settings are assigned, UpdateConfig assigns all.
After(c) ==
  CASE c.kind = "set" -> [conf EXCEPT ![c.field] = c.id]
    [] c.kind = "replace" -> [c.shown EXCEPT ![c.field] = c.id]
    [] OTHER -> conf

\* register_user: a store that does not parse is read as an empty one.  A name
\* that is taken is refused and nothing is written, as for a login.
Accounts == IF users = Torn THEN {} ELSE users.names

\* c.save() and save_store(): the file is overwritten in place; an error is
\* ignored and may leave the old file or a torn one.
Written(new, old) == {new} \cup (IF faults < MAX_FAULTS THEN {old, Torn} ELSE {})
Spent(bad) == IF bad THEN faults + 1 ELSE faults

\* Aggregator::handle_command: settings, file, listener URL, broadcast.
Apply ==
  /\ running /\ inbox # << >>
  /\ LET c == Head(inbox)
     IN /\ conf' = After(c)
        /\ past' = past \cup {After(c)}
        /\ listening' = IF c.kind = "set" /\ c.field = "url" THEN c.id ELSE listening
        /\ applied' = Append(applied, c) /\ handled' = handled \cup {c.id}
        /\ IF c.kind = "register"
           THEN /\ UNCHANGED file
                /\ users' \in IF c.user \in Accounts THEN {users}
                              ELSE Written(Names(Accounts \cup {c.user}), users)
                /\ faults' = Spent(users' # users /\ users' # Names(Accounts \cup {c.user}))
                /\ Publish(view)
           ELSE /\ UNCHANGED users
                /\ file' \in Written(After(c), file)
                /\ faults' = Spent(file' # After(c))
                /\ Publish(After(c))
  /\ inbox' = Tail(inbox)
  /\ UNCHANGED <<running, delivery, bridge, issued, accepted, lost>>

\* The process dies; what it had acknowledged and not handled is lost.
Die ==
  /\ running' = FALSE
  /\ link' = "down" /\ consumer' = FALSE
  /\ queue' = unacked \o queue
  /\ unacked' = << >> /\ buffer' = << >> /\ acking' = FALSE /\ inbox' = << >>
  /\ lost' = lost \cup (Ids(inbox) \ Ids(unacked))
  /\ UNCHANGED <<conf, listening, applied, past, handled, heard, panel>>

Crash == running /\ Fault /\ Die /\ UNCHANGED disk

\* Half a file is written.
CrashInSave ==
  /\ running /\ inbox # << >> /\ Fault /\ Die
  /\ IF Head(inbox).kind = "register"
     THEN Head(inbox).user \notin Accounts /\ users' = Torn /\ UNCHANGED file
     ELSE file' = Torn /\ UNCHANGED users

\* Mutation of Start: the listener's channel is created empty.
StartSilent ==
  /\ ~running
  /\ running' = TRUE
  /\ conf' = IF file = Torn THEN Default ELSE file
  /\ listening' = 0
  /\ applied' = << >> /\ past' = past \cup {conf'}
  /\ link' = "up" /\ consumer' = TRUE /\ heard' = MAX_COMMANDS
  /\ UNCHANGED <<disk, delivery, inbox, panel, handled, lost, faults>>

\* main: a file that does not parse gives the defaults; the broker may be out
\* of reach, and the consumer may fail to be set up.
Start ==
  /\ ~running
  /\ running' = TRUE
  /\ conf' = IF file = Torn THEN Default ELSE file
  /\ listening' = conf'["url"]
  /\ applied' = << >> /\ past' = past \cup {conf'}
  /\ \/ link' = "up" /\ consumer' = TRUE /\ heard' = MAX_COMMANDS
     \/ link' \in {"up", "off"} /\ consumer' = FALSE /\ heard' = 0
  /\ UNCHANGED <<disk, delivery, inbox, panel, handled, lost, faults>>

Next ==
  \/ Issue \/ BridgeDown \/ BridgeUp
  \/ Cut \/ BrokerRestart \/ Deliver \/ Forward \/ Ack
  \/ Broadcast \/ Apply \/ Crash \/ CrashInSave \/ Start

\* The broker's and the bot's own tasks go on; nobody has to reconnect.
Fairness == WF_vars(Deliver) /\ WF_vars(Forward) /\ WF_vars(Ack) /\ WF_vars(Apply)

Spec == Init /\ [][Next]_vars /\ Fairness

-----------------------------------------------------------------------------
(* Properties. *)

Command == UNION {[id : 1..MAX_COMMANDS, kind : {"set"}, field : Field],
                  [id : 1..MAX_COMMANDS, kind : {"register"}, user : User],
                  [id : 1..MAX_COMMANDS, kind : {"log", "unknown"}]}
Replacing(c) == c.kind = "replace" /\ c.id \in 1..MAX_COMMANDS

\* Settings are numbers of commands, channels carry commands, and the command
\* channel stays within its capacity.
TypeOK ==
  /\ conf \in [Field -> 0..MAX_COMMANDS]
  /\ file = Torn \/ file \in [Field -> 0..MAX_COMMANDS]
  /\ users = Torn \/ users.names \subseteq User
  /\ link \in {"up", "down", "off"} /\ (consumer => link = "up" /\ running)
  /\ \A s \in {queue, unacked, buffer, inbox} : \A c \in ToSet(s) : c \in Command \/ Replacing(c)
  /\ Len(inbox) <= CAP

\* In one run commands take effect in the order they were issued, each at most
\* once, and no configuration is a mixture (see SettingsLog): acknowledgements
\* that are lost, connections that break and files that are half written
\* included.
Log == INSTANCE SettingsLog WITH
  MaxCommands <- MAX_COMMANDS, last <- IF running THEN LastId(applied) ELSE 0
ImplementsLog == Log!LSpec

\* publish opens a connection again, but nothing consumes from it: a command
\* issued after the consumer's connection was lost has no effect in that run.
DeafAfterCut == running => \A c \in ToSet(applied) : c.id <= heard

\* A command the broker took is handled, or it is still on its way, or it was
\* lost with the memory of the broker or of the bot; acknowledging it loses
\* nothing, for it is in the channel by then.
AcceptedIsKept ==
  accepted \subseteq handled \cup lost \cup Ids(queue) \cup Ids(unacked) \cup Ids(inbox)

\* A command for one setting undoes a newer one only when it is delivered a
\* second time, after a lost acknowledgement; the newer one then follows,
\* unless the broker has lost it meanwhile.
UndoneIsRedone ==
  [][ \A f \in Field :
        /\ running /\ running' /\ conf'[f] < conf[f]
        /\ Last(applied').kind = "set"
        => /\ Last(applied').id \in handled
           /\ conf[f] \in lost \cup Ids(inbox') \cup Ids(unacked') \cup Ids(queue')
    ]_vars

\* The listener task uses the URL of the configuration, unless a whole
\* configuration was assigned in this run: UpdateConfig does not tell it.
ListenerFollows ==
  running /\ listening # conf["url"] => \E c \in ToSet(applied) : c.kind = "replace"

\* A command the bot's consumer can still receive is handled, or the
\* connection is lost first.
HeardIsHandled ==
  \A n \in 1..MAX_COMMANDS : (consumer /\ n \in accepted \ lost) ~> (n \in handled \cup lost \/ ~consumer)

=============================================================================
