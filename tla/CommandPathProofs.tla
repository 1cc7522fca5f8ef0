--------------------------- MODULE CommandPathProofs ---------------------------
(***************************************************************************)
(* Proofs about CommandPath, for every set of settings and users, every      *)
(* capacity of the command channel, any number of commands and faults, and   *)
(* whatever kinds the commands may be of.                                    *)
(***************************************************************************)
EXTENDS CommandPath, Collections, TLAPS

ConfType == [Field -> 0..MAX_COMMANDS]
Whole == [id : 1..MAX_COMMANDS, kind : {"replace"}, field : Field, shown : ConfType]
Cmd == Command \cup Whole

\* Commands that are somewhere between the dashboards and the configuration.
Travelling == ToSet(queue) \cup ToSet(unacked) \cup ToSet(buffer) \cup ToSet(inbox)

\* What the variables may hold.
Types ==
  /\ running \in BOOLEAN /\ consumer \in BOOLEAN /\ acking \in BOOLEAN /\ bridge \in BOOLEAN
  /\ link \in {"up", "down", "off"} /\ (consumer => link = "up" /\ running)
  /\ queue \in Seq(Cmd) /\ unacked \in Seq(Cmd) /\ buffer \in Seq(Cmd)
  /\ inbox \in Seq(Cmd) /\ Len(inbox) <= CAP /\ applied \in Seq(Cmd)
  /\ issued \in 0..MAX_COMMANDS /\ heard \in 0..MAX_COMMANDS
  /\ users = Torn \/ users.names \subseteq User

\* Configurations only come from configurations.
Pasts ==
  /\ past \subseteq ConfType /\ conf \in past /\ Default \in past
  /\ file \in past \cup {Torn} /\ view \in past \cup {NoView}
  /\ \A c \in Travelling : c.id <= issued /\ (c.kind = "replace" => c.shown \in past)
  /\ \A c \in ToSet(applied) : c.id <= issued

\* A process that is dead holds no command, and a connection that nothing
\* consumes from has nothing to acknowledge.
Gone ==
  /\ ~running => inbox = << >> /\ buffer = << >> /\ acking = FALSE
  /\ ~consumer => unacked = << >>

\* The order of the commands in every place, and from one place to the next.
InOrder ==
  /\ Rising(queue) /\ Rising(unacked) /\ Rising(buffer) /\ Rising(inbox)
  /\ Below(ToSet(unacked), ToSet(queue)) /\ Below(ToSet(inbox), ToSet(buffer))
  /\ running => Above(LastId(applied), ToSet(inbox) \cup ToSet(buffer))
  /\ consumer => /\ Below(ToSet(inbox) \cup ToSet(buffer), ToSet(queue))
                 /\ Above(LastId(applied), ToSet(queue))

\* While a consumer is registered this run can hear everything; later only
\* what was issued before.
Heard ==
  /\ consumer => heard = MAX_COMMANDS
  /\ \A c \in ToSet(inbox) \cup ToSet(buffer) : c.id <= heard
  /\ DeafAfterCut

\* What is unacknowledged is what the client still buffers, after the command
\* it has just forwarded.
InHand == consumer =>
  IF acking
  THEN /\ unacked # << >> /\ Tail(unacked) = buffer
       /\ Head(unacked).id \in accepted => Head(unacked).id \in Ids(inbox) \cup handled
  ELSE unacked = buffer

Kept ==
  /\ accepted \subseteq 1..issued
  /\ \A c \in Travelling : c.kind = "unknown" => c.id \notin accepted
  /\ AcceptedIsKept
  /\ InHand

IInv == Types /\ Pasts /\ Gone /\ InOrder /\ Heard /\ Kept

-----------------------------------------------------------------------------
(* Sequences of commands. *)

LEMMA HeadTail ==
  ASSUME NEW s \in Seq(Cmd), s # << >>
  PROVE  /\ Head(s) \in Cmd /\ Tail(s) \in Seq(Cmd) /\ Len(Tail(s)) = Len(s) - 1
         /\ ToSet(s) = {Head(s)} \cup ToSet(Tail(s))
         /\ Rising(s) => Rising(Tail(s)) /\ Below({Head(s)}, ToSet(Tail(s)))
BY NumberedTail

LEMMA Appended ==
  ASSUME NEW s \in Seq(Cmd), NEW c \in Cmd
  PROVE  /\ Append(s, c) \in Seq(Cmd) /\ Len(Append(s, c)) = Len(s) + 1
         /\ ToSet(Append(s, c)) = ToSet(s) \cup {c}
         /\ Rising(s) /\ Below(ToSet(s), {c}) => Rising(Append(s, c))
         /\ LastId(Append(s, c)) = c.id /\ Last(Append(s, c)) = c
<1>1. /\ Append(s, c) \in Seq(Cmd) /\ Len(Append(s, c)) = Len(s) + 1
      /\ ToSet(Append(s, c)) = ToSet(s) \cup {c}
      /\ Rising(s) /\ Below(ToSet(s), {c}) => Rising(Append(s, c))
  BY NumberedAppend
<1>2. Append(s, c) # << >> /\ Last(Append(s, c)) = c
  BY NumberedAppend
<1>3. LastId(Append(s, c)) = c.id
  BY <1>2, Zenon DEF LastId
<1> QED BY <1>1, <1>2, <1>3

LEMMA Joined ==
  ASSUME NEW s \in Seq(Cmd), NEW t \in Seq(Cmd)
  PROVE  /\ s \o t \in Seq(Cmd)
         /\ ToSet(s \o t) = ToSet(s) \cup ToSet(t)
         /\ Rising(s) /\ Rising(t) /\ Below(ToSet(s), ToSet(t)) => Rising(s \o t)
BY NumberedJoin

LEMMA Nothing ==
  << >> \in Seq(Cmd) /\ ToSet(<< >>) = {} /\ Rising(<< >>) /\ LastId(<< >>) = 0
BY DEF ToSet, Rising, LastId

LEMMA TailAppended ==
  ASSUME NEW s \in Seq(Cmd), s # << >>, NEW c \in Cmd
  PROVE  /\ Append(s, c) # << >> /\ Head(Append(s, c)) = Head(s)
         /\ Tail(Append(s, c)) = Append(Tail(s), c)
BY NumberedBoth

\* What is known of every command.
LEMMA Commanded ==
  ASSUME NEW c \in Cmd
  PROVE  /\ c.id \in 1..MAX_COMMANDS
         /\ c.kind \in {"set", "replace"} => c.field \in Field
         /\ c.kind = "register" => c.user \in User
         /\ c.kind = "replace" => c \in Whole
         /\ c \in Command \/ Replacing(c)
BY DEF Cmd, Command, Whole, Replacing

LEMMA Numbers == MAX_COMMANDS \in Nat /\ CAP \in Nat /\ "url" \in Field
BY PathAssumption

-----------------------------------------------------------------------------
(* The dashboards and the backend. *)

LEMMA InitStep ==
  ASSUME Init
  PROVE  IInv
<1>1. Default \in ConfType
  BY Numbers DEF Default, ConfType
<1>2. Types
  <2>1. users.names = {} /\ Len(inbox) = 0
    BY DEF Init, Names
  <2>2. issued \in 0..MAX_COMMANDS /\ heard \in 0..MAX_COMMANDS
    BY Numbers DEF Init
  <2>3. {queue, unacked, buffer, inbox, applied} \subseteq Seq(Cmd) /\ Len(inbox) <= CAP
    BY <2>1, Nothing, Numbers DEF Init
  <2> QED BY <2>1, <2>2, <2>3 DEF Init, Types
<1>3. Pasts
  BY <1>1, Nothing DEF Init, Pasts, Travelling
<1>4. Gone
  BY DEF Init, Gone
<1>5. InOrder
  BY Nothing DEF Init, InOrder, Below, Above
<1>6. Heard
  BY Nothing DEF Init, Heard, DeafAfterCut
<1>7. Kept
  BY Nothing DEF Init, Kept, Travelling, AcceptedIsKept, InHand
<1> QED BY <1>2, <1>3, <1>4, <1>5, <1>6, <1>7 DEF IInv

LEMMA NewCommand ==
  ASSUME IInv, issued < MAX_COMMANDS, NEW c \in Commands
  PROVE  c \in Cmd /\ c.id = issued + 1 /\ (c.kind = "replace" => c.shown \in past)
<1> DEFINE n == issued + 1
<1>1. n \in 1..MAX_COMMANDS
  BY Numbers DEF IInv, Types
<1>2. CASE c \in [id : {n}, kind : {"set"}, field : Field]
  BY <1>1, <1>2 DEF Cmd, Command
<1>3. CASE c \in [id : {n}, kind : {"register"}, user : User]
  BY <1>1, <1>3 DEF Cmd, Command
<1>4. CASE c \in [id : {n}, kind : {"log", "unknown"}]
  BY <1>1, <1>4 DEF Cmd, Command
<1>5. CASE view # NoView /\ c \in [id : {n}, kind : {"replace"}, field : Field, shown : {view}]
  <2>1. view \in past /\ view \in ConfType
    BY <1>5 DEF IInv, Pasts
  <2> QED BY <1>1, <1>5, <2>1 DEF Cmd, Whole
<1> QED BY <1>2, <1>3, <1>4, <1>5 DEF Commands

LEMMA IssueStep ==
  ASSUME IInv, Issue
  PROVE  IInv'
<1>1. PICK c \in Commands :
        /\ queue' = IF bridge THEN Append(queue, c) ELSE queue
        /\ accepted' = IF bridge /\ c.kind # "unknown" THEN accepted \cup {c.id} ELSE accepted
  BY DEF Issue
<1>2. issued < MAX_COMMANDS /\ issued' = issued + 1 /\ issued \in 0..MAX_COMMANDS
  BY DEF Issue, IInv, Types
<1>3. c \in Cmd /\ c.id = issued + 1 /\ (c.kind = "replace" => c.shown \in past)
  BY <1>2, NewCommand
<1>4. UNCHANGED <<bot, disk, wire, unacked, buffer, acking, bridge, view, lost>>
  BY DEF Issue
<1>5. queue \in Seq(Cmd)
  BY DEF IInv, Types
<1>6. /\ queue' \in Seq(Cmd)
      /\ ToSet(queue) \subseteq ToSet(queue') /\ ToSet(queue') \subseteq ToSet(queue) \cup {c}
      /\ bridge => c \in ToSet(queue')
  <2>1. CASE bridge
    <3>1. Append(queue, c) \in Seq(Cmd) /\ ToSet(Append(queue, c)) = ToSet(queue) \cup {c}
      BY <1>3, <1>5, Appended
    <3> QED BY <1>1, <2>1, <3>1
  <2>2. CASE ~bridge
    BY <1>1, <1>5, <2>2
  <2> QED BY <2>1, <2>2
<1>7. \A d \in Travelling \cup ToSet(applied) : d.id \in Int /\ d.id < c.id
  <2>1. Travelling \cup ToSet(applied) \subseteq Cmd
    BY DEF IInv, Types, Travelling, ToSet
  <2> QED BY <1>2, <1>3, <2>1, Commanded DEF IInv, Pasts
<1>8. Types'
  BY <1>2, <1>4, <1>6, Numbers DEF IInv, Types, bot, disk, wire
<1>9. Pasts'
  BY <1>2, <1>3, <1>4, <1>6, <1>7 DEF IInv, Pasts, Travelling, bot, disk, wire
<1>10. Gone'
  BY <1>4 DEF IInv, Gone, bot, disk, wire
<1>11. InOrder'
  <2>1. Rising(queue')
    BY <1>1, <1>3, <1>5, <1>7, Appended DEF IInv, InOrder, Below, Travelling
  <2>2. Below(ToSet(unacked), ToSet(queue'))
    BY <1>6, <1>7 DEF IInv, InOrder, Below, Travelling
  <2>3. consumer => Below(ToSet(inbox) \cup ToSet(buffer), ToSet(queue'))
    BY <1>6, <1>7 DEF IInv, InOrder, Below, Travelling
  <2>4. consumer => Above(LastId(applied), ToSet(queue'))
    <3>1. LastId(applied) < c.id
      <4>1. CASE applied = << >>
        BY <4>1, <1>2, <1>3, Nothing
      <4>2. CASE applied # << >>
        <5>1. applied \in Seq(Cmd)
          BY DEF IInv, Types
        <5>2. Last(applied) \in ToSet(applied)
          BY <4>2, <5>1 DEF Last, ToSet
        <5> QED BY <1>7, <4>2, <5>2 DEF LastId
      <4> QED BY <4>1, <4>2
    <3> QED BY <1>6, <3>1 DEF IInv, InOrder, Above
  <2> QED BY <1>4, <2>1, <2>2, <2>3, <2>4 DEF IInv, InOrder, bot, disk, wire
<1>12. Heard'
  BY <1>4 DEF IInv, Heard, DeafAfterCut, bot, disk, wire
<1>13. Kept'
  <2>1. accepted' \subseteq 1..issued'
    BY <1>1, <1>2, <1>3 DEF IInv, Kept
  <2>2. \A d \in Travelling' : d.kind = "unknown" => d.id \notin accepted'
    <3>1. Travelling' \subseteq Travelling \cup {c} /\ c.id \notin accepted
      BY <1>2, <1>3, <1>4, <1>6 DEF Travelling, bot, IInv, Kept
    <3> QED BY <1>1, <1>7, <3>1 DEF IInv, Kept
  <2>3. AcceptedIsKept'
    BY <1>1, <1>4, <1>6 DEF IInv, Kept, AcceptedIsKept, Ids, bot
  <2>4. InHand'
    <3>1. ASSUME consumer, acking PROVE Head(unacked).id # c.id
      <4>1. unacked # << >> /\ unacked \in Seq(Cmd)
        BY <3>1 DEF IInv, Kept, InHand, Types
      <4>2. Head(unacked) \in Travelling
        BY <4>1, HeadTail DEF Travelling
      <4> QED BY <1>7, <4>2
    <3> QED BY <1>1, <1>4, <3>1 DEF IInv, Kept, InHand, Ids, bot, wire
  <2> QED BY <2>1, <2>2, <2>3, <2>4 DEF Kept
<1> QED BY <1>8, <1>9, <1>10, <1>11, <1>12, <1>13 DEF IInv

\* Connections and broadcasts: only what is shown and how to reach the broker.
LEMMA ShowStep ==
  ASSUME IInv, view' \in past \cup {NoView}, bridge' \in BOOLEAN,
         link' \in {"up", "down", "off"}, consumer => link' = "up",
         UNCHANGED <<bot, disk, consumer, heard, delivery, issued, accepted, lost>>
  PROVE  IInv'
<1>1. Types'
  BY DEF IInv, Types, bot, disk, delivery
<1>2. Pasts'
  BY DEF IInv, Pasts, Travelling, bot, disk, delivery
<1>3. Gone' /\ InOrder'
  BY DEF IInv, Gone, InOrder, bot, delivery
<1>4. Heard'
  BY DEF IInv, Heard, DeafAfterCut, bot, delivery
<1>5. Kept'
  BY DEF IInv, Kept, Travelling, AcceptedIsKept, InHand, bot, delivery
<1> QED BY <1>1, <1>2, <1>3, <1>4, <1>5 DEF IInv

\* What publish may do.
LEMMA Published ==
  ASSUME Types, NEW shown, Publish(shown)
  PROVE  /\ UNCHANGED <<consumer, heard>> /\ view' \in {view, shown}
         /\ link' \in {"up", "down", "off"} /\ (consumer => link' = "up")
BY DEF Types, Publish

LEMMA BridgeSteps ==
  ASSUME IInv, BridgeDown \/ BridgeUp
  PROVE  IInv'
<1>1. view \in past \cup {NoView} /\ link \in {"up", "down", "off"} /\ (consumer => link = "up")
  BY DEF IInv, Types, Pasts
<1>2. bridge' \in BOOLEAN /\ UNCHANGED <<bot, disk, link, consumer, heard, delivery, view, issued, accepted, lost>>
  BY DEF BridgeDown, BridgeUp, wire
<1> QED BY <1>1, <1>2, ShowStep

LEMMA BroadcastStep ==
  ASSUME IInv, Broadcast
  PROVE  IInv'
<1>1. Publish(conf) /\ UNCHANGED <<bot, disk, delivery, bridge, issued, accepted, lost>>
  BY DEF Broadcast
<1>2. conf \in past /\ view \in past \cup {NoView} /\ bridge \in BOOLEAN /\ Types
  BY DEF IInv, Types, Pasts
<1>3. /\ UNCHANGED <<consumer, heard>> /\ view' \in {view, conf}
      /\ link' \in {"up", "down", "off"} /\ (consumer => link' = "up")
  BY <1>1, <1>2, Published
<1> QED BY <1>1, <1>2, <1>3, ShowStep

-----------------------------------------------------------------------------
(* The broker and the bot's consumer. *)

\* What a lost connection leaves with the client is what it had, or nothing.
LEMMA LostLink ==
  ASSUME IInv, NEW buffered \in {buffer, << >>}, LoseLink(buffered)
  PROVE  /\ link' \in {"down", "off"} /\ consumer' = FALSE /\ unacked' = << >>
         /\ buffer' \in Seq(Cmd) /\ ToSet(buffer') \subseteq ToSet(buffer)
         /\ Rising(buffer') /\ (buffer = << >> => buffer' = << >>)
         /\ heard' \in 0..MAX_COMMANDS
         /\ \A c \in ToSet(inbox) \cup ToSet(buffer) : c.id <= heard'
         /\ running => \A c \in ToSet(applied) : c.id <= heard'
<1>1. buffer' = buffered /\ link' \in {"down", "off"} /\ consumer' = FALSE /\ unacked' = << >>
      /\ heard' = IF consumer THEN issued ELSE heard
  BY DEF LoseLink
<1>2. buffer' \in Seq(Cmd) /\ ToSet(buffer') \subseteq ToSet(buffer) /\ Rising(buffer')
  BY <1>1, Nothing DEF IInv, Types, InOrder
<1>3. heard' \in 0..MAX_COMMANDS
  BY <1>1 DEF IInv, Types
<1>4. CASE consumer
  BY <1>1, <1>2, <1>3, <1>4 DEF IInv, Pasts, Travelling
<1>5. CASE ~consumer
  BY <1>1, <1>2, <1>3, <1>5 DEF IInv, Heard, DeafAfterCut
<1> QED BY <1>1, <1>2, <1>3, <1>4, <1>5

LEMMA Requeued ==
  ASSUME IInv
  PROVE  /\ unacked \o queue \in Seq(Cmd) /\ Rising(unacked \o queue)
         /\ ToSet(unacked \o queue) = ToSet(unacked) \cup ToSet(queue)
BY Joined DEF IInv, Types, InOrder

LEMMA CutStep ==
  ASSUME IInv, Cut
  PROVE  IInv'
<1>1. PICK buffered \in {buffer, << >>} : LoseLink(buffered)
  BY DEF Cut
<1>2. queue' = unacked \o queue /\ UNCHANGED <<bot, disk, acking, panel, lost>>
  BY DEF Cut
<1>3. /\ queue' \in Seq(Cmd) /\ Rising(queue') /\ ToSet(queue') = ToSet(unacked) \cup ToSet(queue)
  BY <1>2, Requeued
<1>4. Types'
  BY <1>1, <1>2, <1>3, LostLink, Nothing DEF IInv, Types, bot, disk, panel
<1>5. Travelling' \subseteq Travelling
  BY <1>1, <1>2, <1>3, LostLink, Nothing DEF Travelling, bot
<1>6. Pasts'
  BY <1>2, <1>5 DEF IInv, Pasts, bot, disk, panel
<1>7. Gone'
  BY <1>1, <1>2, LostLink DEF IInv, Gone, bot
<1>8. InOrder'
  BY <1>1, <1>2, <1>3, LostLink, Nothing DEF IInv, InOrder, Below, Above, bot
<1>9. Heard'
  BY <1>1, <1>2, LostLink DEF IInv, Heard, DeafAfterCut, bot
<1>10. Kept'
  <2>1. AcceptedIsKept'
    BY <1>2, <1>3 DEF IInv, Kept, AcceptedIsKept, Ids, bot, panel
  <2>2. InHand'
    BY <1>1, LostLink DEF InHand
  <2> QED BY <1>2, <1>5, <2>1, <2>2 DEF IInv, Kept, panel
<1> QED BY <1>4, <1>6, <1>7, <1>8, <1>9, <1>10 DEF IInv

LEMMA BrokerRestartStep ==
  ASSUME IInv, BrokerRestart
  PROVE  IInv'
<1>1. PICK buffered \in {buffer, << >>} : LoseLink(buffered)
  BY DEF BrokerRestart
<1>2. /\ queue' = << >> /\ lost' = lost \cup Ids(unacked) \cup Ids(queue) /\ bridge' = FALSE
      /\ UNCHANGED <<bot, disk, acking, view, issued, accepted>>
  BY DEF BrokerRestart
<1>3. Types'
  BY <1>1, <1>2, LostLink, Nothing DEF IInv, Types, bot, disk
<1>4. Travelling' \subseteq Travelling
  BY <1>1, <1>2, LostLink, Nothing DEF Travelling, bot
<1>5. Pasts'
  BY <1>2, <1>4 DEF IInv, Pasts, bot, disk
<1>6. Gone'
  BY <1>1, <1>2, LostLink DEF IInv, Gone, bot
<1>7. InOrder'
  BY <1>1, <1>2, LostLink, Nothing DEF IInv, InOrder, Below, Above, bot
<1>8. Heard'
  BY <1>1, <1>2, LostLink DEF IInv, Heard, DeafAfterCut, bot
<1>9. Kept'
  <2>1. AcceptedIsKept'
    BY <1>2 DEF IInv, Kept, AcceptedIsKept, Ids, bot
  <2>2. InHand'
    BY <1>1, LostLink DEF InHand
  <2> QED BY <1>2, <1>4, <2>1, <2>2 DEF IInv, Kept
<1> QED BY <1>3, <1>5, <1>6, <1>7, <1>8, <1>9 DEF IInv

LEMMA DeliverStep ==
  ASSUME IInv, Deliver
  PROVE  IInv'
<1> DEFINE c == Head(queue)
<1>1. /\ consumer /\ queue # << >> /\ queue' = Tail(queue)
      /\ buffer' = Append(buffer, c) /\ unacked' = Append(unacked, c)
      /\ UNCHANGED <<bot, disk, wire, acking, panel, lost>>
  BY DEF Deliver
<1>2. queue \in Seq(Cmd) /\ buffer \in Seq(Cmd) /\ unacked \in Seq(Cmd) /\ Rising(queue)
  BY DEF IInv, Types, InOrder
<1>3. /\ c \in Cmd /\ queue' \in Seq(Cmd) /\ Rising(queue')
      /\ ToSet(queue) = {c} \cup ToSet(queue') /\ Below({c}, ToSet(queue'))
  BY <1>1, <1>2, HeadTail
<1>4. /\ buffer' \in Seq(Cmd) /\ ToSet(buffer') = ToSet(buffer) \cup {c}
      /\ Rising(buffer) /\ Below(ToSet(buffer), {c}) => Rising(buffer')
  BY <1>1, <1>2, <1>3, Appended
<1>5. /\ unacked' \in Seq(Cmd) /\ ToSet(unacked') = ToSet(unacked) \cup {c}
      /\ Rising(unacked) /\ Below(ToSet(unacked), {c}) => Rising(unacked')
  BY <1>1, <1>2, <1>3, Appended
<1> HIDE DEF c
<1>6. Types'
  BY <1>1, <1>3, <1>4, <1>5 DEF IInv, Types, bot, disk, wire, panel
<1>7. Travelling' = Travelling
  BY <1>1, <1>3, <1>4, <1>5 DEF Travelling, bot
<1>8. Pasts'
  BY <1>1, <1>7 DEF IInv, Pasts, bot, disk, panel
<1>9. Gone'
  BY <1>1 DEF IInv, Gone, Types, bot, wire
<1>10. InOrder'
  <2>1. Rising(buffer') /\ Rising(unacked')
    BY <1>1, <1>3, <1>4, <1>5 DEF IInv, InOrder, Below
  <2>2. Below(ToSet(unacked'), ToSet(queue')) /\ Below(ToSet(inbox), ToSet(buffer'))
    BY <1>1, <1>3, <1>4, <1>5 DEF IInv, InOrder, Below
  <2>3. running => Above(LastId(applied), ToSet(inbox) \cup ToSet(buffer'))
    BY <1>1, <1>3, <1>4 DEF IInv, InOrder, Above
  <2>4. /\ Below(ToSet(inbox) \cup ToSet(buffer'), ToSet(queue'))
        /\ Above(LastId(applied), ToSet(queue'))
    BY <1>1, <1>3, <1>4 DEF IInv, InOrder, Below, Above
  <2> QED BY <1>1, <1>3, <2>1, <2>2, <2>3, <2>4 DEF IInv, InOrder, bot, wire
<1>11. Heard'
  <2>1. c.id <= heard
    BY <1>1, <1>3, Commanded DEF IInv, Heard
  <2> QED BY <1>1, <1>4, <2>1 DEF IInv, Heard, DeafAfterCut, bot, wire
<1>12. Kept'
  <2>1. AcceptedIsKept'
    BY <1>1, <1>3, <1>5 DEF IInv, Kept, AcceptedIsKept, Ids, bot, panel
  <2>2. InHand'
    <3>1. CASE acking
      <4>1. unacked # << >>
        BY <1>1, <3>1 DEF IInv, Kept, InHand
      <4>2. /\ unacked' # << >> /\ Head(unacked') = Head(unacked)
            /\ Tail(unacked') = Append(Tail(unacked), c)
        BY <1>1, <1>2, <1>3, <4>1, TailAppended
      <4> QED BY <1>1, <3>1, <4>2 DEF IInv, Kept, InHand, Ids, bot, wire, panel
    <3>2. CASE ~acking
      BY <1>1, <3>2 DEF IInv, Kept, InHand, wire
    <3> QED BY <3>1, <3>2
  <2> QED BY <1>1, <1>7, <2>1, <2>2 DEF IInv, Kept, panel
<1> QED BY <1>6, <1>8, <1>9, <1>10, <1>11, <1>12 DEF IInv

LEMMA ForwardStep ==
  ASSUME IInv, Forward
  PROVE  IInv'
<1> DEFINE c == Head(buffer)
<1>1. /\ running /\ buffer # << >> /\ ~acking /\ buffer' = Tail(buffer) /\ acking' = TRUE
      /\ \/ c.kind = "unknown" /\ UNCHANGED inbox
         \/ c.kind # "unknown" /\ Len(inbox) < CAP /\ inbox' = Append(inbox, c)
      /\ UNCHANGED <<running, conf, listening, applied, past, handled, disk, wire, queue, unacked,
                     panel, lost>>
  BY DEF Forward
<1>2. inbox \in Seq(Cmd) /\ buffer \in Seq(Cmd) /\ Rising(buffer) /\ Len(inbox) \in Nat /\ Len(inbox) <= CAP
  BY DEF IInv, Types, InOrder
<1>3. /\ c \in Cmd /\ buffer' \in Seq(Cmd) /\ Rising(buffer')
      /\ ToSet(buffer) = {c} \cup ToSet(buffer') /\ Below({c}, ToSet(buffer'))
  BY <1>1, <1>2, HeadTail
<1>4. /\ Append(inbox, c) \in Seq(Cmd) /\ Len(Append(inbox, c)) = Len(inbox) + 1
      /\ ToSet(Append(inbox, c)) = ToSet(inbox) \cup {c}
      /\ Rising(inbox) /\ Below(ToSet(inbox), {c}) => Rising(Append(inbox, c))
  BY <1>2, <1>3, Appended
<1>5. Below(ToSet(inbox), {c}) /\ Rising(inbox)
  BY <1>3 DEF IInv, InOrder, Below
<1>6. /\ inbox' \in Seq(Cmd) /\ Len(inbox') <= CAP /\ Rising(inbox')
      /\ ToSet(inbox) \subseteq ToSet(inbox') /\ ToSet(inbox') \subseteq ToSet(inbox) \cup {c}
      /\ c.kind # "unknown" => c \in ToSet(inbox')
  <2>1. CASE UNCHANGED inbox /\ c.kind = "unknown"
    BY <1>2, <1>5, <2>1
  <2>2. CASE c.kind # "unknown" /\ Len(inbox) < CAP /\ inbox' = Append(inbox, c)
    BY <1>2, <1>4, <1>5, <2>2, Numbers
  <2> QED BY <1>1, <2>1, <2>2
<1> HIDE DEF c
<1>7. Types'
  BY <1>1, <1>3, <1>6 DEF IInv, Types, disk, wire, panel
<1>8. Travelling' \subseteq Travelling
  BY <1>1, <1>3, <1>6 DEF Travelling
<1>9. Pasts'
  BY <1>1, <1>8 DEF IInv, Pasts, disk, panel
<1>10. Gone'
  BY <1>1 DEF IInv, Gone, wire
<1>11. InOrder'
  <2>1. Below(ToSet(inbox'), ToSet(buffer'))
    BY <1>3, <1>6 DEF IInv, InOrder, Below
  <2>2. Above(LastId(applied), ToSet(inbox') \cup ToSet(buffer'))
    BY <1>1, <1>3, <1>6 DEF IInv, InOrder, Above
  <2>3. consumer => Below(ToSet(inbox') \cup ToSet(buffer'), ToSet(queue))
    BY <1>3, <1>6 DEF IInv, InOrder, Below
  <2> QED BY <1>1, <1>3, <1>6, <2>1, <2>2, <2>3 DEF IInv, InOrder, wire
<1>12. Heard'
  BY <1>1, <1>3, <1>6 DEF IInv, Heard, DeafAfterCut, wire
<1>13. Kept'
  <2>1. AcceptedIsKept'
    BY <1>1, <1>6 DEF IInv, Kept, AcceptedIsKept, Ids, panel
  <2>2. InHand'
    <3> SUFFICES ASSUME consumer PROVE InHand'
      BY <1>1 DEF InHand, wire
    <3>1. unacked = buffer /\ c \in Travelling
      BY <1>1, <1>3 DEF IInv, Kept, InHand, Travelling
    <3>2. c.id \in accepted => c.kind # "unknown"
      BY <3>1 DEF IInv, Kept
    <3>3. c.id \in accepted => c.id \in Ids(inbox')
      BY <1>6, <3>2 DEF Ids
    <3> QED BY <1>1, <3>1, <3>3 DEF InHand, wire, panel, c
  <2> QED BY <1>1, <1>8, <2>1, <2>2 DEF IInv, Kept, panel
<1> QED BY <1>7, <1>9, <1>10, <1>11, <1>12, <1>13 DEF IInv

LEMMA AckStep ==
  ASSUME IInv, Ack
  PROVE  IInv'
<1>1. /\ acking /\ acking' = FALSE
      /\ unacked' = IF consumer /\ unacked # << >> THEN Tail(unacked) ELSE unacked
      /\ UNCHANGED <<bot, disk, wire, queue, buffer, panel, lost>>
  BY DEF Ack
<1>2. unacked \in Seq(Cmd) /\ Rising(unacked)
  BY DEF IInv, Types, InOrder
<1>3. /\ unacked' \in Seq(Cmd) /\ Rising(unacked') /\ ToSet(unacked') \subseteq ToSet(unacked)
      /\ \A c \in ToSet(unacked) : c \in ToSet(unacked') \/ (consumer /\ unacked # << >> /\ c = Head(unacked))
  <2>1. CASE consumer /\ unacked # << >>
    BY <1>1, <1>2, <2>1, HeadTail
  <2>2. CASE ~(consumer /\ unacked # << >>)
    BY <1>1, <1>2, <2>2
  <2> QED BY <2>1, <2>2
<1>4. Types'
  BY <1>1, <1>3 DEF IInv, Types, bot, disk, wire, panel
<1>5. Travelling' \subseteq Travelling
  BY <1>1, <1>3 DEF Travelling, bot
<1>6. Pasts'
  BY <1>1, <1>5 DEF IInv, Pasts, bot, disk, panel
<1>7. Gone'
  BY <1>1 DEF IInv, Gone, bot, wire
<1>8. InOrder'
  BY <1>1, <1>3 DEF IInv, InOrder, Below, bot, wire
<1>9. Heard'
  BY <1>1 DEF IInv, Heard, DeafAfterCut, bot, wire
<1>10. Kept'
  <2>1. AcceptedIsKept'
    BY <1>1, <1>3 DEF IInv, Kept, InHand, AcceptedIsKept, Ids, bot, panel
  <2>2. InHand'
    BY <1>1 DEF IInv, Kept, InHand, wire
  <2> QED BY <1>1, <1>5, <2>1, <2>2 DEF IInv, Kept, panel
<1> QED BY <1>4, <1>6, <1>7, <1>8, <1>9, <1>10 DEF IInv

-----------------------------------------------------------------------------
(* The bot. *)

\* A command changes one setting of a configuration that was in force.
LEMMA AfterOne ==
  ASSUME IInv, NEW c \in Cmd, c.kind = "replace" => c.shown \in past
  PROVE  /\ After(c) \in ConfType
         /\ \/ After(c) = conf
            \/ \E p \in past, f \in Field : After(c) = [p EXCEPT ![f] = c.id]
<1>1. past \subseteq ConfType /\ conf \in past
  BY DEF IInv, Pasts
<1>2. c.id \in 1..MAX_COMMANDS /\ (c.kind \in {"set", "replace"} => c.field \in Field)
  BY Commanded
<1>3. c.id \in 0..MAX_COMMANDS
  BY <1>2, Numbers
<1>4. CASE c.kind = "set"
  BY <1>1, <1>2, <1>3, <1>4 DEF After, ConfType
<1>5. CASE c.kind = "replace"
  BY <1>1, <1>2, <1>3, <1>5 DEF After, ConfType
<1>6. CASE c.kind \notin {"set", "replace"}
  BY <1>1, <1>6 DEF After
<1> QED BY <1>4, <1>5, <1>6

LEMMA ApplyFacts ==
  ASSUME IInv, Apply
  PROVE  LET c == Head(inbox)
         IN /\ running /\ inbox # << >> /\ inbox' = Tail(inbox) /\ c \in Cmd /\ c \in Travelling
            /\ conf' = After(c) /\ past' = past \cup {After(c)}
            /\ applied' = Append(applied, c) /\ handled' = handled \cup {c.id}
            /\ listening' = IF c.kind = "set" /\ c.field = "url" THEN c.id ELSE listening
            /\ file' \in {file, Torn, After(c)}
            /\ users' = Torn \/ users'.names \subseteq User
            /\ UNCHANGED <<consumer, heard, running, delivery, bridge, issued, accepted, lost>>
            /\ view' \in past' \cup {NoView}
            /\ link' \in {"up", "down", "off"} /\ (consumer => link' = "up")
<1> DEFINE c == Head(inbox)
<1>1. /\ running /\ inbox # << >> /\ inbox' = Tail(inbox)
      /\ conf' = After(c) /\ past' = past \cup {After(c)}
      /\ applied' = Append(applied, c) /\ handled' = handled \cup {c.id}
      /\ listening' = IF c.kind = "set" /\ c.field = "url" THEN c.id ELSE listening
      /\ UNCHANGED <<running, delivery, bridge, issued, accepted, lost>>
  BY DEF Apply
<1>2. inbox \in Seq(Cmd) /\ Types /\ view \in past \cup {NoView} /\ (users = Torn \/ users.names \subseteq User)
  BY DEF IInv, Types, Pasts
<1>3. c \in Cmd /\ c \in Travelling
  BY <1>1, <1>2, HeadTail DEF Travelling
<1>4. CASE c.kind = "register"
  <2>1. UNCHANGED file /\ Publish(view)
        /\ users' \in IF c.user \in Accounts THEN {users} ELSE Written(Names(Accounts \cup {c.user}), users)
    BY <1>4 DEF Apply
  <2>2. c.user \in User /\ Accounts \subseteq User
    BY <1>2, <1>3, <1>4, Commanded DEF Accounts
  <2>3. users' \in {users, Torn, Names(Accounts \cup {c.user})}
    BY <2>1 DEF Written
  <2>4. users' = Torn \/ users'.names \subseteq User
    BY <1>2, <2>2, <2>3 DEF Names
  <2> QED BY <1>1, <1>2, <1>3, <2>1, <2>4, Published
<1>5. CASE c.kind # "register"
  <2>1. UNCHANGED users /\ Publish(After(c)) /\ file' \in Written(After(c), file)
    BY <1>5 DEF Apply
  <2> QED BY <1>1, <1>2, <1>3, <2>1, Published DEF Written
<1> QED BY <1>4, <1>5

LEMMA ApplyStep ==
  ASSUME IInv, Apply
  PROVE  IInv'
<1> DEFINE c == Head(inbox)
<1>1. /\ running /\ inbox # << >> /\ inbox' = Tail(inbox) /\ c \in Cmd /\ c \in Travelling
      /\ conf' = After(c) /\ past' = past \cup {After(c)}
      /\ applied' = Append(applied, c) /\ handled' = handled \cup {c.id}
      /\ file' \in {file, Torn, After(c)}
      /\ users' = Torn \/ users'.names \subseteq User
      /\ UNCHANGED <<consumer, heard, running, delivery, bridge, issued, accepted, lost>>
      /\ view' \in past' \cup {NoView}
      /\ link' \in {"up", "down", "off"} /\ (consumer => link' = "up")
  BY ApplyFacts
<1>2. inbox \in Seq(Cmd) /\ applied \in Seq(Cmd) /\ Rising(inbox) /\ Len(inbox) \in Nat /\ Len(inbox) <= CAP
  BY DEF IInv, Types, InOrder
<1>3. /\ inbox' \in Seq(Cmd) /\ Rising(inbox') /\ Len(inbox') = Len(inbox) - 1
      /\ ToSet(inbox) = {c} \cup ToSet(inbox') /\ Below({c}, ToSet(inbox'))
  BY <1>1, <1>2, HeadTail
<1>4. /\ applied' \in Seq(Cmd) /\ ToSet(applied') = ToSet(applied) \cup {c}
      /\ LastId(applied') = c.id
  BY <1>1, <1>2, Appended
<1>5. After(c) \in ConfType /\ c.id <= issued
  BY <1>1, AfterOne DEF IInv, Pasts
<1> HIDE DEF c
<1>6. Types'
  <2>1. Len(inbox') <= CAP
    BY <1>2, <1>3, Numbers
  <2> QED BY <1>1, <1>3, <1>4, <2>1 DEF IInv, Types, delivery
<1>7. Travelling' \subseteq Travelling
  BY <1>1, <1>3 DEF Travelling, delivery
<1>8. Pasts'
  BY <1>1, <1>4, <1>5, <1>7 DEF IInv, Pasts
<1>9. Gone'
  BY <1>1 DEF IInv, Gone, delivery
<1>10. InOrder'
  <2>1. Above(c.id, ToSet(inbox') \cup ToSet(buffer))
    BY <1>3 DEF IInv, InOrder, Below, Above
  <2>2. consumer => Above(c.id, ToSet(queue))
    BY <1>3 DEF IInv, InOrder, Below, Above
  <2>3. Below(ToSet(inbox'), ToSet(buffer)) /\ (consumer => Below(ToSet(inbox') \cup ToSet(buffer), ToSet(queue)))
    BY <1>3 DEF IInv, InOrder, Below
  <2> QED BY <1>1, <1>3, <1>4, <2>1, <2>2, <2>3 DEF IInv, InOrder, delivery
<1>11. Heard'
  BY <1>1, <1>3, <1>4 DEF IInv, Heard, DeafAfterCut, delivery
<1>12. Kept'
  <2>1. Ids(inbox) \subseteq Ids(inbox') \cup handled'
    BY <1>1, <1>3 DEF Ids
  <2>2. AcceptedIsKept'
    BY <1>1, <2>1 DEF IInv, Kept, AcceptedIsKept, Ids, delivery
  <2>3. InHand'
    BY <1>1, <2>1 DEF IInv, Kept, InHand, delivery
  <2> QED BY <1>1, <1>7, <2>2, <2>3 DEF IInv, Kept
<1> QED BY <1>6, <1>8, <1>9, <1>10, <1>11, <1>12 DEF IInv

\* The process dies, between two steps or in the middle of a save.
LEMMA CrashSteps ==
  ASSUME IInv, Crash \/ CrashInSave
  PROVE  IInv'
<1>1. /\ running' = FALSE /\ link' = "down" /\ consumer' = FALSE
      /\ queue' = unacked \o queue
      /\ unacked' = << >> /\ buffer' = << >> /\ acking' = FALSE /\ inbox' = << >>
      /\ lost' = lost \cup (Ids(inbox) \ Ids(unacked))
      /\ UNCHANGED <<conf, listening, applied, past, handled, heard, panel>>
  BY DEF Crash, CrashInSave, Die
<1>2. file' \in {file, Torn} /\ users' \in {users, Torn}
  BY DEF Crash, CrashInSave, disk
<1>3. queue' \in Seq(Cmd) /\ Rising(queue') /\ ToSet(queue') = ToSet(unacked) \cup ToSet(queue)
  BY <1>1, Requeued
<1>4. Types'
  <2>1. Len(inbox') <= CAP
    BY <1>1, Numbers
  <2> QED BY <1>1, <1>2, <1>3, <2>1, Nothing DEF IInv, Types, panel
<1>5. Travelling' \subseteq Travelling
  BY <1>1, <1>3, Nothing DEF Travelling
<1>6. Pasts'
  BY <1>1, <1>2, <1>5 DEF IInv, Pasts, panel
<1>7. Gone' /\ Heard'
  BY <1>1, Nothing DEF Gone, Heard, DeafAfterCut
<1>8. InOrder'
  BY <1>1, <1>3, Nothing DEF InOrder, Below
<1>9. Kept'
  <2>1. AcceptedIsKept'
    BY <1>1, <1>3 DEF IInv, Kept, AcceptedIsKept, Ids, panel
  <2>2. InHand'
    BY <1>1 DEF InHand
  <2> QED BY <1>1, <1>5, <2>1, <2>2 DEF IInv, Kept, panel
<1> QED BY <1>4, <1>6, <1>7, <1>8, <1>9 DEF IInv

LEMMA StartStep ==
  ASSUME IInv, Start
  PROVE  IInv'
<1>1. /\ ~running /\ running' = TRUE
      /\ conf' = IF file = Torn THEN Default ELSE file
      /\ applied' = << >> /\ past' = past \cup {conf'}
      /\ \/ link' = "up" /\ consumer' = TRUE /\ heard' = MAX_COMMANDS
         \/ link' \in {"up", "off"} /\ consumer' = FALSE /\ heard' = 0
      /\ UNCHANGED <<disk, delivery, inbox, panel, handled, lost>>
  BY DEF Start
<1>2. /\ inbox = << >> /\ buffer = << >> /\ acking = FALSE /\ ~consumer /\ unacked = << >>
      /\ conf' \in past
  BY <1>1 DEF IInv, Gone, Types, Pasts
<1>3. Types'
  <2>1. heard' \in 0..MAX_COMMANDS /\ consumer' \in BOOLEAN /\ link' \in {"up", "down", "off"}
        /\ (consumer' => link' = "up")
    <3>1. 0 \in 0..MAX_COMMANDS /\ MAX_COMMANDS \in 0..MAX_COMMANDS
      BY Numbers
    <3>2. CASE link' = "up" /\ consumer' = TRUE /\ heard' = MAX_COMMANDS
      BY <3>1, <3>2
    <3>3. CASE link' \in {"up", "off"} /\ consumer' = FALSE /\ heard' = 0
      BY <3>1, <3>3
    <3> QED BY <1>1, <3>2, <3>3
  <2> QED BY <1>1, <2>1, Nothing DEF IInv, Types, disk, delivery, panel
<1>4. Travelling' = Travelling /\ past' = past
  BY <1>1, <1>2 DEF Travelling, delivery
<1>5. Pasts'
  BY <1>1, <1>2, <1>4, Nothing DEF IInv, Pasts, disk, panel
<1>6. Gone'
  BY <1>1, <1>2 DEF Gone, delivery
<1>7. InOrder'
  <2>1. Above(0, ToSet(queue))
    <3>1. ToSet(queue) \subseteq Cmd
      BY DEF IInv, Types, ToSet
    <3> QED BY <3>1, Commanded DEF Above
  <2> QED BY <1>1, <1>2, <2>1, Nothing DEF IInv, InOrder, Below, Above, delivery
<1>8. Heard'
  BY <1>1, <1>2, Nothing DEF Heard, DeafAfterCut, delivery
<1>9. Kept'
  <2>1. AcceptedIsKept'
    BY <1>1 DEF IInv, Kept, AcceptedIsKept, Ids, delivery, panel
  <2>2. InHand'
    BY <1>1, <1>2 DEF InHand, delivery
  <2> QED BY <1>1, <1>4, <2>1, <2>2 DEF IInv, Kept, panel
<1> QED BY <1>3, <1>5, <1>6, <1>7, <1>8, <1>9 DEF IInv

LEMMA Stutter ==
  ASSUME IInv, UNCHANGED vars
  PROVE  IInv'
BY DEF IInv, Types, Pasts, Gone, InOrder, Heard, Kept, Travelling, DeafAfterCut, AcceptedIsKept, InHand,
       Ids, vars

-----------------------------------------------------------------------------
(* The theorems. *)

\* What the theorems below rest on: ids rise along queue, deliveries, buffer and
\* channel, and what disappears from one of them is in the next, or accounted for.
THEOREM Inductive == Spec => []IInv
<1>1. IInv /\ [Next]_vars => IInv'
  <2> SUFFICES ASSUME IInv, [Next]_vars PROVE IInv'
    OBVIOUS
  <2> QED BY IssueStep, BridgeSteps, CutStep, BrokerRestartStep, DeliverStep, ForwardStep, AckStep,
             BroadcastStep, ApplyStep, CrashSteps, StartStep, Stutter DEF Next
<1> QED BY <1>1, InitStep, PTL DEF Spec

\* The command channel stays within its capacity, settings are numbers of
\* commands, and nothing consumes from a connection that is not open.
THEOREM TypeCorrect == Spec => []TypeOK
<1>1. IInv => TypeOK
  <2> SUFFICES ASSUME IInv PROVE TypeOK
    OBVIOUS
  <2>1. conf \in ConfType /\ (file = Torn \/ file \in ConfType)
    BY DEF IInv, Pasts
  <2>2. \A s \in {queue, unacked, buffer, inbox} : \A c \in ToSet(s) : c \in Command \/ Replacing(c)
    <3>1. \A s \in {queue, unacked, buffer, inbox} : ToSet(s) \subseteq Cmd
      BY DEF IInv, Types, ToSet
    <3> QED BY <3>1, Commanded
  <2> QED BY <2>1, <2>2 DEF TypeOK, ConfType, IInv, Types
<1> QED BY <1>1, Inductive, PTL

\* A command issued after the consumer's connection was lost has no effect in
\* that run (RabbitMQClient::publish opens a connection nobody consumes from).
THEOREM Deaf == Spec => []DeafAfterCut
<1>1. IInv => DeafAfterCut
  BY DEF IInv, Heard
<1> QED BY <1>1, Inductive, PTL

\* No command the broker took disappears, except with somebody's memory
\* (CommandForwarder::consume forwards first and acknowledges then).
THEOREM NoneForgotten == Spec => []AcceptedIsKept
<1>1. IInv => AcceptedIsKept
  BY DEF IInv, Kept
<1> QED BY <1>1, Inductive, PTL

\* The listener's URL is that of the configuration until a whole configuration
\* is assigned (UpdateListenerWsUrl sends it, UpdateConfig does not).
THEOREM Followed == Spec => []ListenerFollows
<1>1. Init => ListenerFollows
  BY Numbers DEF Init, ListenerFollows, Default
<1>2. IInv /\ ListenerFollows /\ [Next]_vars => ListenerFollows'
  <2> SUFFICES ASSUME IInv, ListenerFollows, [Next]_vars PROVE ListenerFollows'
    OBVIOUS
  <2>1. CASE Apply
    <3> DEFINE c == Head(inbox)
    <3>1. /\ running /\ conf' = After(c) /\ applied' = Append(applied, c)
          /\ listening' = IF c.kind = "set" /\ c.field = "url" THEN c.id ELSE listening
      BY <2>1, ApplyFacts
    <3>2. ToSet(applied') = ToSet(applied) \cup {c}
      BY <2>1, ApplyFacts, Appended DEF IInv, Types
    <3>3. conf \in ConfType
      BY DEF IInv, Pasts
    <3> HIDE DEF c
    <3>4. CASE c.kind = "replace"
      BY <3>2, <3>4 DEF ListenerFollows
    <3>5. CASE c.kind = "set"
      <4>1. conf' = [conf EXCEPT ![c.field] = c.id]
        BY <3>1, <3>5 DEF After
      <4>2. IF c.field = "url" THEN conf'["url"] = c.id ELSE conf'["url"] = conf["url"]
        BY <3>3, <4>1, Numbers DEF ConfType
      <4>3. c.field = "url" => listening' = conf'["url"]
        BY <3>1, <3>5, <4>2
      <4>4. c.field # "url" => listening' = listening /\ conf'["url"] = conf["url"]
        BY <3>1, <4>2
      <4> QED BY <3>1, <3>2, <4>3, <4>4 DEF ListenerFollows
    <3>6. CASE c.kind \notin {"set", "replace"}
      <4>1. conf' = conf /\ listening' = listening
        BY <3>1, <3>6 DEF After
      <4> QED BY <3>1, <3>2, <4>1 DEF ListenerFollows
    <3> QED BY <3>4, <3>5, <3>6
  <2>2. CASE Start
    BY <2>2 DEF Start, ListenerFollows
  <2>3. CASE Crash \/ CrashInSave
    BY <2>3 DEF Crash, CrashInSave, Die, ListenerFollows
  <2>4. CASE \/ Issue \/ BridgeDown \/ BridgeUp \/ Cut \/ BrokerRestart \/ Deliver
             \/ Forward \/ Ack \/ Broadcast \/ UNCHANGED vars
    <3>1. UNCHANGED <<running, conf, listening, applied>>
      BY <2>4 DEF Issue, BridgeDown, BridgeUp, Cut, BrokerRestart, Deliver, Forward, Ack, Broadcast, vars, bot
    <3> QED BY <3>1 DEF ListenerFollows
  <2> QED BY <2>1, <2>2, <2>3, <2>4 DEF Next
<1> QED BY <1>1, <1>2, Inductive, PTL DEF Spec

\* In one run commands take effect in the order they were issued, each at most
\* once, and no configuration is a mixture: the way of a command, with its
\* broker, channels, files and crashes, implements SettingsLog.
THEOREM CommandRefinement == Spec => ImplementsLog
<1> DEFINE last == IF running THEN LastId(applied) ELSE 0
<1>1. Init => Log!LInit
  BY Nothing DEF Init, Log!LInit, Default
<1>2. IInv /\ [Next]_vars => [Log!LNext]_(Log!lvars)
  <2> SUFFICES ASSUME IInv, [Next]_vars PROVE Log!LNext \/ UNCHANGED Log!lvars
    OBVIOUS
  <2>1. CASE Issue
    <3>1. UNCHANGED <<running, applied, conf, past>> /\ issued < MAX_COMMANDS /\ issued' = issued + 1
      BY <2>1 DEF Issue, bot
    <3> QED BY <3>1 DEF Log!LNext, Log!Issue
  <2>2. CASE Apply
    <3> DEFINE c == Head(inbox)
    <3>1. /\ running /\ running' = running /\ inbox # << >> /\ c \in Cmd /\ c \in Travelling
          /\ conf' = After(c) /\ past' = past \cup {After(c)}
          /\ applied' = Append(applied, c) /\ issued' = issued
      BY <2>2, ApplyFacts
    <3>2. inbox \in Seq(Cmd) /\ applied \in Seq(Cmd)
      BY DEF IInv, Types
    <3>3. c \in ToSet(inbox)
      BY <3>1, <3>2, HeadTail
    <3>4. LastId(applied) < c.id /\ c.id <= issued /\ c.id \in 1..MAX_COMMANDS
      BY <3>1, <3>3, Commanded DEF IInv, InOrder, Above, Pasts
    <3>5. LastId(applied') = c.id
      BY <3>1, <3>2, Appended
    <3>6. conf' \in {conf} \cup {[p EXCEPT ![f] = c.id] : p \in past, f \in Field}
      <4> HIDE DEF c
      <4>1. c.kind = "replace" => c.shown \in past
        BY <3>1 DEF IInv, Pasts
      <4>2. \/ After(c) = conf
            \/ \E p \in past, f \in Field : After(c) = [p EXCEPT ![f] = c.id]
        BY <3>1, <4>1, AfterOne
      <4> QED BY <3>1, <4>2
    <3> HIDE DEF c
    <3>7. Log!TakeEffect(c.id)
      BY <3>1, <3>4, <3>5, <3>6 DEF Log!TakeEffect
    <3> QED BY <3>4, <3>7 DEF Log!LNext
  <2>3. CASE Crash \/ CrashInSave
    <3>1. running' = FALSE /\ UNCHANGED <<conf, past, issued>>
      BY <2>3 DEF Crash, CrashInSave, Die, panel
    <3>2. conf \in past
      BY DEF IInv, Pasts
    <3> QED BY <3>1, <3>2 DEF Log!LNext, Log!Restart
  <2>4. CASE Start
    <3>1. /\ running' = TRUE /\ applied' = << >> /\ issued' = issued /\ past' = past \cup {conf'}
          /\ conf' = IF file = Torn THEN Default ELSE file
      BY <2>4 DEF Start, panel
    <3>2. conf' \in past
      BY <3>1 DEF IInv, Pasts
    <3> QED BY <3>1, <3>2, Nothing DEF Log!LNext, Log!Restart
  <2>5. CASE \/ BridgeDown \/ BridgeUp \/ Cut \/ BrokerRestart \/ Deliver
             \/ Forward \/ Ack \/ Broadcast \/ UNCHANGED vars
    <3>1. UNCHANGED <<running, conf, applied, past, issued>>
      BY <2>5 DEF BridgeDown, BridgeUp, Cut, BrokerRestart, Deliver, Forward, Ack, Broadcast, vars, bot, panel
    <3> QED BY <3>1 DEF Log!lvars
  <2> QED BY <2>1, <2>2, <2>3, <2>4, <2>5 DEF Next
<1> QED BY <1>1, <1>2, Inductive, PTL DEF Spec, ImplementsLog, Log!LSpec

-----------------------------------------------------------------------------
(* What undoes a newer command. *)

\* The numbers of the commands the broker still holds, and of those the bot has
\* taken from it and not handled.
Held == Ids(queue) \cup Ids(unacked)
Taken == Ids(inbox) \cup Ids(buffer)

\* A setting in force anywhere was given by a command that was handled.
Values == \A p \in past : \A f \in Field : p[f] \in handled \cup {0}

Known ==
  /\ handled \cup Ids(inbox) \subseteq accepted
  /\ \A c \in Travelling : c.kind = "unknown" \/ c.id \in accepted

\* What is to be acknowledged next was forwarded in this run.
ThisRun ==
  /\ \A c \in ToSet(applied) : c.id <= LastId(applied)
  /\ consumer /\ acking /\ Head(unacked).id \in accepted =>
       Head(unacked).id \in Ids(inbox) \cup Ids(applied)

\* A command that comes after a newer one has come before; and the newer one is
\* behind it wherever the older one is.
Again ==
  /\ \A i \in (Held \cup Taken) \cap accepted, m \in handled : i < m => i \in handled
  /\ \A i \in Held \cap accepted, m \in Taken : i < m => i \in Taken \cup handled
Behind ==
  /\ \A i \in Held, m \in Taken \cup handled : i < m => m \in Held \cup lost
  /\ \A i \in Taken, m \in handled : i < m => m \in lost \cup Held \cup Ids(inbox)

Repeats == Values /\ Known /\ ThisRun /\ Again /\ Behind

LEMMA Foremost ==
  ASSUME NEW s \in Seq(Cmd), s # << >>
  PROVE  /\ Ids(s) = {Head(s).id} \cup Ids(Tail(s)) /\ Head(s).id \in 1..MAX_COMMANDS
         /\ Rising(s) => \A j \in Ids(Tail(s)) : Head(s).id < j
<1>1. Head(s) \in Cmd /\ ToSet(s) = {Head(s)} \cup ToSet(Tail(s))
      /\ (Rising(s) => Below({Head(s)}, ToSet(Tail(s))))
  BY HeadTail
<1>2. Head(s).id \in 1..MAX_COMMANDS
  BY <1>1, Commanded
<1> HIDE DEF Cmd
<1> QED BY <1>1, <1>2 DEF Ids, Below

LEMMA Order ==
  ASSUME IInv
  PROVE  /\ Held \cup Taken \subseteq 1..issued /\ accepted \subseteq 1..issued
         /\ issued \in Nat /\ LastId(applied) \in Int
         /\ \A i \in Ids(inbox), j \in Ids(buffer) : i < j
         /\ \A i \in Ids(unacked), j \in Ids(queue) : i < j
         /\ running => \A i \in Taken : LastId(applied) < i
<1>1. Travelling \subseteq Cmd /\ issued \in Nat
  BY Numbers DEF IInv, Types, Travelling, ToSet
<1>2. \A c \in Travelling : c.id \in 1..issued
  BY <1>1, Commanded, Numbers DEF IInv, Pasts
<1>3. Held \cup Taken \subseteq 1..issued /\ accepted \subseteq 1..issued
  BY <1>2 DEF Held, Taken, Ids, Travelling, IInv, Kept
<1>4. LastId(applied) \in Int
  <2>1. CASE applied = << >>
    BY <2>1, Nothing
  <2>2. CASE applied # << >>
    <3>1. applied \in Seq(Cmd)
      BY DEF IInv, Types
    <3>2. Last(applied) \in Cmd
      BY <2>2, <3>1 DEF Last
    <3> QED BY <2>2, <3>2, Commanded DEF LastId
  <2> QED BY <2>1, <2>2
<1>5. /\ \A i \in Ids(inbox), j \in Ids(buffer) : i < j
      /\ \A i \in Ids(unacked), j \in Ids(queue) : i < j
  BY DEF IInv, InOrder, Below, Ids
<1>6. running => \A i \in Taken : LastId(applied) < i
  BY DEF IInv, InOrder, Above, Ids, Taken
<1> QED BY <1>1, <1>3, <1>4, <1>5, <1>6

LEMMA NoIds == Ids(<< >>) = {}
BY Nothing DEF Ids

LEMMA RepeatsInit ==
  ASSUME Init
  PROVE  Repeats
<1>1. Values
  BY DEF Init, Values, Default
<1>2. Known /\ ThisRun
  BY Nothing, NoIds DEF Init, Known, ThisRun, Travelling
<1>3. Again /\ Behind
  BY NoIds DEF Init, Again, Behind, Held, Taken
<1> QED BY <1>1, <1>2, <1>3 DEF Repeats

LEMMA RepeatsIssue ==
  ASSUME IInv, Repeats, Issue
  PROVE  Repeats'
<1>1. PICK c \in Commands :
        /\ queue' = IF bridge THEN Append(queue, c) ELSE queue
        /\ accepted' = IF bridge /\ c.kind # "unknown" THEN accepted \cup {c.id} ELSE accepted
  BY DEF Issue
<1>2. issued < MAX_COMMANDS
      /\ UNCHANGED <<bot, wire, unacked, buffer, acking, lost>>
  BY DEF Issue
<1>3. c \in Cmd /\ c.id = issued + 1
  BY <1>2, NewCommand
<1>4. queue \in Seq(Cmd) /\ unacked \in Seq(Cmd)
  BY DEF IInv, Types
<1>5. ToSet(Append(queue, c)) = ToSet(queue) \cup {c}
  BY <1>3, <1>4, Appended
<1>6. /\ ToSet(queue) \subseteq ToSet(queue') /\ ToSet(queue') \subseteq ToSet(queue) \cup {c}
      /\ (bridge <=> queue' = Append(queue, c)) \/ queue' = queue
      /\ ~bridge => ToSet(queue') = ToSet(queue)
  BY <1>1, <1>5
<1>7. /\ Held \subseteq Held' /\ Held' \subseteq Held \cup {c.id} /\ Taken' = Taken
      /\ accepted \subseteq accepted' /\ accepted' \subseteq accepted \cup {c.id}
      /\ handled' = handled /\ lost' = lost /\ Ids(inbox)' = Ids(inbox)
  BY <1>1, <1>2, <1>6 DEF Held, Taken, Ids, bot
<1>8. Values'
  BY <1>2 DEF Repeats, Values, bot
<1>9. Known'
  <2>1. Travelling' \subseteq Travelling \cup {c} /\ (~bridge => Travelling' = Travelling)
    BY <1>2, <1>6 DEF Travelling, bot
  <2> QED BY <1>1, <1>7, <2>1 DEF Repeats, Known
<1>10. ThisRun'
  <2>1. ASSUME consumer, acking PROVE Head(unacked).id # c.id
    <3>1. unacked # << >>
      BY <2>1 DEF IInv, Kept, InHand
    <3>2. Head(unacked).id \in Held
      BY <1>4, <3>1, Foremost DEF Held
    <3> QED BY <1>3, <3>2, Order
  <2> QED BY <1>2, <1>7, <2>1 DEF Repeats, ThisRun, bot, wire, Ids
<1>11. c.id \in Int /\ (\A i \in Held \cup Taken \cup accepted \cup handled : i \in Int /\ i < c.id)
  BY <1>3, Order DEF Repeats, Known
<1>12. Again' /\ Behind'
  <2>1. \A i \in Taken \cup handled : ~(c.id < i)
    BY <1>11
  <2>2. c.id \notin accepted \cup Held \cup Taken
    BY <1>11
  <2>3. Again'
    BY <1>7, <2>1, <2>2 DEF Repeats, Again
  <2>4. Behind'
    BY <1>7, <2>1 DEF Repeats, Behind
  <2> QED BY <2>3, <2>4
<1> QED BY <1>8, <1>9, <1>10, <1>12 DEF Repeats

\* Connections and broadcasts.
LEMMA RepeatsShow ==
  ASSUME Repeats, BridgeDown \/ BridgeUp \/ Broadcast \/ UNCHANGED vars
  PROVE  Repeats'
<1>1. UNCHANGED <<bot, consumer, delivery, accepted, lost>>
  BY DEF BridgeDown, BridgeUp, Broadcast, Publish, vars, bot, disk, wire, delivery, panel
<1>2. Values' /\ Known'
  BY <1>1 DEF Repeats, Values, Known, Travelling, Ids, bot, delivery
<1>3. ThisRun'
  BY <1>1 DEF Repeats, ThisRun, Ids, bot, delivery
<1>4. Again' /\ Behind'
  BY <1>1 DEF Repeats, Again, Behind, Held, Taken, Ids, bot, delivery
<1> QED BY <1>2, <1>3, <1>4 DEF Repeats

LEMMA RepeatsCut ==
  ASSUME IInv, Repeats, Cut
  PROVE  Repeats'
<1>1. PICK buffered \in {buffer, << >>} : LoseLink(buffered)
  BY DEF Cut
<1>2. queue' = unacked \o queue /\ UNCHANGED <<bot, acking, accepted, lost>>
  BY DEF Cut, panel
<1>3. /\ consumer' = FALSE /\ buffer' \in {buffer, << >>} /\ unacked' = << >>
      /\ ToSet(queue') = ToSet(unacked) \cup ToSet(queue)
  BY <1>1, <1>2, Requeued DEF LoseLink
<1>4. /\ Held' = Held /\ Ids(inbox)' = Ids(inbox) /\ Ids(buffer)' \in {Ids(buffer), {}}
      /\ handled' = handled
  BY <1>2, <1>3, NoIds DEF Held, Ids, bot
<1>5. Values' /\ ThisRun'
  BY <1>2, <1>3 DEF Repeats, Values, ThisRun, bot
<1>6. Known'
  <2>1. Travelling' \subseteq Travelling
    BY <1>2, <1>3, Nothing DEF Travelling, bot
  <2> QED BY <1>2, <1>4, <2>1 DEF Repeats, Known
<1>7. Again'
  <2>1. CASE Ids(buffer)' = Ids(buffer)
    BY <1>2, <1>4, <2>1 DEF Repeats, Again, Taken
  <2>2. CASE Ids(buffer)' = {}
    <3>1. Taken' = Ids(inbox)
      BY <1>4, <2>2 DEF Taken
    <3>2. \A i \in Ids(buffer), m \in Ids(inbox) : ~(i < m)
      BY Order DEF Held, Taken
    <3> QED BY <1>2, <1>4, <3>1, <3>2 DEF Repeats, Again, Taken
  <2> QED BY <1>4, <2>1, <2>2
<1>8. Behind'
  BY <1>2, <1>4 DEF Repeats, Behind, Taken
<1> QED BY <1>5, <1>6, <1>7, <1>8 DEF Repeats

LEMMA RepeatsBrokerRestart ==
  ASSUME IInv, Repeats, BrokerRestart
  PROVE  Repeats'
<1>1. /\ consumer' = FALSE /\ buffer' \in {buffer, << >>} /\ unacked' = << >> /\ queue' = << >>
      /\ lost' = lost \cup Held /\ UNCHANGED <<bot, acking, accepted>>
  BY DEF BrokerRestart, LoseLink, Held
<1>2. /\ Held' = {} /\ Ids(inbox)' = Ids(inbox) /\ Ids(buffer)' \in {Ids(buffer), {}}
      /\ handled' = handled
  BY <1>1, NoIds DEF Held, Ids, bot
<1>3. Values' /\ ThisRun'
  BY <1>1 DEF Repeats, Values, ThisRun, bot
<1>4. Known'
  <2>1. Travelling' \subseteq Travelling
    BY <1>1, Nothing DEF Travelling, bot
  <2> QED BY <1>1, <1>2, <2>1 DEF Repeats, Known
<1>5. Again' /\ Behind'
  BY <1>1, <1>2 DEF Repeats, Again, Behind, Taken
<1> QED BY <1>3, <1>4, <1>5 DEF Repeats

LEMMA RepeatsDeliver ==
  ASSUME IInv, Repeats, Deliver
  PROVE  Repeats'
<1> DEFINE c == Head(queue)
<1>1. /\ consumer /\ queue # << >> /\ queue' = Tail(queue)
      /\ buffer' = Append(buffer, c) /\ unacked' = Append(unacked, c)
      /\ UNCHANGED <<bot, wire, acking, accepted, lost>>
  BY DEF Deliver, panel
<1>2. queue \in Seq(Cmd) /\ buffer \in Seq(Cmd) /\ unacked \in Seq(Cmd) /\ Rising(queue)
  BY DEF IInv, Types, InOrder
<1>3. c \in Cmd /\ ToSet(queue) = {c} \cup ToSet(queue')
  BY <1>1, <1>2, HeadTail
<1>4. ToSet(buffer') = ToSet(buffer) \cup {c} /\ ToSet(unacked') = ToSet(unacked) \cup {c}
  BY <1>1, <1>2, <1>3, Appended
<1>5. \A j \in Ids(queue') : c.id < j
  BY <1>1, <1>2, Foremost
<1> HIDE DEF c
<1>6. /\ Ids(queue) = {c.id} \cup Ids(queue') /\ Ids(unacked') = Ids(unacked) \cup {c.id}
      /\ Ids(buffer') = Ids(buffer) \cup {c.id} /\ Ids(inbox') = Ids(inbox)
      /\ handled' = handled /\ lost' = lost /\ accepted' = accepted
  BY <1>1, <1>3, <1>4 DEF Ids, bot
<1>7. Held' = Held /\ Taken' = Taken \cup {c.id} /\ c.id \in Held
  BY <1>6 DEF Held, Taken
<1>8. Values'
  BY <1>1 DEF Repeats, Values, bot
<1>9. Known'
  <2>1. Travelling' = Travelling
    BY <1>1, <1>3, <1>4 DEF Travelling, bot
  <2> QED BY <1>6, <2>1 DEF Repeats, Known
<1>10. ThisRun'
  <2>1. acking => Head(unacked') = Head(unacked)
    <3>1. acking => unacked # << >>
      BY <1>1 DEF IInv, Kept, InHand
    <3> QED BY <1>1, <1>2, <1>3, <3>1, TailAppended
  <2>2. acking' = acking /\ consumer' = consumer /\ applied' = applied
    BY <1>1 DEF wire, bot
  <2> QED BY <1>6, <2>1, <2>2 DEF Repeats, ThisRun, Ids
<1>11. \A i \in Held \cap accepted : i < c.id => i \in Taken \cup handled
  <2> SUFFICES ASSUME NEW i \in Held \cap accepted, i < c.id PROVE i \in Taken \cup handled
    OBVIOUS
  <2>1. Held \subseteq 1..issued /\ issued \in Nat
    BY Order
  <2>2. i \in Ids(unacked)
    BY <1>5, <1>6, <1>7, <2>1 DEF Held
  <2>3. CASE acking
    <3>1. unacked # << >> /\ Tail(unacked) = buffer
      BY <1>1, <2>3 DEF IInv, Kept, InHand
    <3>2. Ids(unacked) = {Head(unacked).id} \cup Ids(Tail(unacked))
      BY <1>2, <3>1, Foremost
    <3>3. i = Head(unacked).id \/ i \in Ids(buffer)
      BY <2>2, <3>1, <3>2
    <3>4. Head(unacked).id \in accepted => Head(unacked).id \in Ids(inbox) \cup handled
      BY <1>1, <2>3 DEF IInv, Kept, InHand
    <3> QED BY <3>3, <3>4 DEF Taken
  <2>4. CASE ~acking
    BY <1>1, <2>2, <2>4 DEF IInv, Kept, InHand, Taken
  <2> QED BY <2>3, <2>4
<1>12. Again'
  BY <1>6, <1>7, <1>11 DEF Repeats, Again
<1>13. Behind'
  BY <1>6, <1>7 DEF Repeats, Behind
<1> QED BY <1>8, <1>9, <1>10, <1>12, <1>13 DEF Repeats

LEMMA RepeatsForward ==
  ASSUME IInv, Repeats, Forward
  PROVE  Repeats'
<1> DEFINE c == Head(buffer)
<1>1. /\ buffer # << >> /\ ~acking /\ buffer' = Tail(buffer) /\ acking' = TRUE
      /\ \/ c.kind = "unknown" /\ inbox' = inbox
         \/ c.kind # "unknown" /\ inbox' = Append(inbox, c)
      /\ UNCHANGED <<applied, past, handled, consumer, queue, unacked, accepted, lost>>
  BY DEF Forward, panel, wire
<1>2. inbox \in Seq(Cmd) /\ buffer \in Seq(Cmd)
  BY DEF IInv, Types
<1>3. c \in Cmd /\ ToSet(buffer) = {c} \cup ToSet(buffer')
  BY <1>1, <1>2, HeadTail
<1>4. ToSet(Append(inbox, c)) = ToSet(inbox) \cup {c}
  BY <1>2, <1>3, Appended
<1>5. c \in Travelling
  BY <1>3 DEF Travelling
<1>6. c.kind = "unknown" <=> c.id \notin accepted
  BY <1>5 DEF Repeats, Known, IInv, Kept
<1>7. consumer => unacked = buffer
  BY <1>1 DEF IInv, Kept, InHand
<1>8. consumer => Head(unacked).id = c.id
  BY <1>7
<1> HIDE DEF c
<1>9. /\ Ids(buffer) = {c.id} \cup Ids(buffer')
      /\ c.id \in accepted => Ids(inbox') = Ids(inbox) \cup {c.id}
      /\ c.id \notin accepted => Ids(inbox') = Ids(inbox)
  <2>1. c.id \in accepted => ToSet(inbox') = ToSet(inbox) \cup {c}
    BY <1>1, <1>4, <1>6
  <2>2. c.id \notin accepted => inbox' = inbox
    BY <1>1, <1>6
  <2> QED BY <1>3, <2>1, <2>2 DEF Ids
<1>10. Held' = Held /\ handled' = handled /\ lost' = lost /\ accepted' = accepted
  BY <1>1 DEF Held, Ids
<1>11. /\ c.id \in accepted => Taken' = Taken
       /\ c.id \notin accepted => Taken = Taken' \cup {c.id}
       /\ Ids(inbox) \subseteq Ids(inbox')
  BY <1>9 DEF Taken
<1>12. Values'
  BY <1>1 DEF Repeats, Values
<1>13. Known'
  <2>1. Travelling' \subseteq Travelling
    BY <1>1, <1>3, <1>4 DEF Travelling
  <2> QED BY <1>9, <1>10, <2>1 DEF Repeats, Known
<1>14. ThisRun'
  BY <1>1, <1>8, <1>9 DEF Repeats, ThisRun, Ids
<1>15. Again'
  BY <1>10, <1>11 DEF Repeats, Again
<1>16. Behind'
  BY <1>10, <1>11 DEF Repeats, Behind
<1> QED BY <1>12, <1>13, <1>14, <1>15, <1>16 DEF Repeats

LEMMA RepeatsAck ==
  ASSUME IInv, Repeats, Ack
  PROVE  Repeats'
<1>1. /\ acking /\ acking' = FALSE
      /\ unacked' = IF consumer /\ unacked # << >> THEN Tail(unacked) ELSE unacked
      /\ UNCHANGED <<bot, wire, queue, buffer, accepted, lost>>
  BY DEF Ack, panel
<1>2. unacked \in Seq(Cmd) /\ Rising(unacked)
  BY DEF IInv, Types, InOrder
<1>3. Values' /\ ThisRun'
  BY <1>1 DEF Repeats, Values, ThisRun, bot
<1>4. Known'
  <2>1. ToSet(unacked') \subseteq ToSet(unacked)
    BY <1>1, <1>2, HeadTail
  <2> QED BY <1>1, <2>1 DEF Repeats, Known, Travelling, Ids, bot
<1>5. Taken' = Taken /\ Ids(inbox)' = Ids(inbox) /\ Ids(queue)' = Ids(queue) /\ handled' = handled
  BY <1>1 DEF Taken, Ids, bot
<1>6. CASE ~(consumer /\ unacked # << >>)
  <2>1. Held' = Held
    BY <1>1, <1>6 DEF Held, Ids
  <2> QED BY <1>1, <1>3, <1>4, <1>5, <2>1 DEF Repeats, Again, Behind
<1>7. CASE consumer /\ unacked # << >>
  <2> DEFINE h == Head(unacked).id
  <2>1. /\ Ids(unacked) = {h} \cup Ids(unacked') /\ h \in Int
        /\ \A j \in Ids(unacked') : h < j
    BY <1>1, <1>2, <1>7, Foremost
  <2>2. \A j \in Ids(queue) : h < j
    BY <2>1, Order
  <2>3. Held = {h} \cup Held' /\ Held' \subseteq Held /\ \A j \in Held' : h < j
    BY <1>5, <2>1, <2>2 DEF Held
  <2>4. h \in accepted => h \in Ids(inbox) \cup Ids(applied)
    BY <1>1, <1>7 DEF Repeats, ThisRun
  <2>5. \A j \in Ids(buffer) : h < j
    <3>1. Tail(unacked) = buffer
      BY <1>1, <1>7 DEF IInv, Kept, InHand
    <3> QED BY <1>1, <1>7, <2>1, <3>1
  <2>6. running
    BY <1>7 DEF IInv, Types
  <2>7. h \in Ids(applied) => \A i \in Taken : h < i
    <3>1. h \in Ids(applied) => h <= LastId(applied)
      BY DEF Repeats, ThisRun, Ids
    <3>2. LastId(applied) \in Int /\ Taken \subseteq Int /\ \A i \in Taken : LastId(applied) < i
      BY <2>6, Order
    <3> QED BY <2>1, <3>1, <3>2
  <2> HIDE DEF h
  <2>8. Held \subseteq Int /\ Taken \subseteq Int
    BY Order
  <2>9. Again'
    BY <1>1, <1>5, <2>3 DEF Repeats, Again
  <2>10. \A i \in Held' : ~(i < h)
    BY <2>1, <2>3, <2>8
  <2>11. \A i \in Held', m \in Taken \cup handled : i < m => m \in Held' \cup lost
    BY <2>3, <2>10 DEF Repeats, Behind
  <2>12. \A i \in Taken, m \in handled : i < m => m \in lost \cup Held' \cup Ids(inbox)
    <3> SUFFICES ASSUME NEW i \in Taken, h \in handled, i < h PROVE h \in Ids(inbox)
      BY <2>3 DEF Repeats, Behind
    <3>1. h \in accepted
      BY DEF Repeats, Known
    <3>2. ~(h < i)
      BY <2>1, <2>8
    <3> QED BY <2>4, <2>7, <3>1, <3>2
  <2>13. Behind'
    BY <1>1, <1>5, <2>11, <2>12 DEF Behind
  <2> QED BY <1>3, <1>4, <2>9, <2>13 DEF Repeats
<1> QED BY <1>6, <1>7

LEMMA RepeatsApply ==
  ASSUME IInv, Repeats, Apply
  PROVE  Repeats'
<1> DEFINE c == Head(inbox)
<1>1. /\ running /\ inbox # << >> /\ inbox' = Tail(inbox) /\ c \in Cmd /\ c \in Travelling
      /\ past' = past \cup {After(c)}
      /\ applied' = Append(applied, c) /\ handled' = handled \cup {c.id}
      /\ UNCHANGED <<consumer, delivery, accepted, lost>>
  BY ApplyFacts
<1>2. inbox \in Seq(Cmd) /\ applied \in Seq(Cmd) /\ Rising(inbox)
  BY DEF IInv, Types, InOrder
<1>3. ToSet(inbox) = {c} \cup ToSet(inbox')
  BY <1>1, <1>2, HeadTail
<1>4. ToSet(applied') = ToSet(applied) \cup {c} /\ LastId(applied') = c.id
  BY <1>1, <1>2, Appended
<1>5. c.id \in Int /\ \A j \in Ids(inbox') : c.id < j
  BY <1>1, <1>2, Foremost
<1>6. c.kind = "replace" => c.shown \in past
  BY <1>1 DEF IInv, Pasts
<1>7. c \in Cmd /\ (After(c) = conf \/ \E p \in past, f \in Field : After(c) = [p EXCEPT ![f] = c.id])
  BY <1>1, <1>6, AfterOne
<1> HIDE DEF c
<1>8. Ids(inbox) = {c.id} \cup Ids(inbox') /\ Ids(buffer') = Ids(buffer)
      /\ Ids(applied') = Ids(applied) \cup {c.id} /\ Held' = Held
  BY <1>1, <1>3, <1>4 DEF Ids, Held, delivery
<1>9. /\ Taken = Taken' \cup {c.id} /\ \A j \in Taken' : c.id < j
      /\ Taken \subseteq Int /\ Held \subseteq Int /\ LastId(applied) < c.id
  <2>1. \A j \in Ids(buffer) : c.id < j
    BY <1>8, Order
  <2> QED BY <1>1, <1>5, <1>8, <2>1, Order DEF Taken
<1>10. Values'
  <2>1. \A f \in Field : After(c)[f] \in handled' \cup {0}
    <3> SUFFICES ASSUME NEW f \in Field PROVE After(c)[f] \in handled \cup {c.id} \cup {0}
      BY <1>1
    <3>1. CASE After(c) = conf
      BY <3>1 DEF Repeats, Values, IInv, Pasts
    <3>2. CASE \E p \in past, g \in Field : After(c) = [p EXCEPT ![g] = c.id]
      <4>1. PICK p \in past, g \in Field : After(c) = [p EXCEPT ![g] = c.id]
        BY <3>2
      <4>2. p \in ConfType
        BY DEF IInv, Pasts
      <4>3. After(c)[f] \in {p[f], c.id}
        BY <4>1, <4>2 DEF ConfType
      <4> QED BY <4>3 DEF Repeats, Values
    <3> QED BY <1>7, <3>1, <3>2
  <2> QED BY <1>1, <2>1 DEF Repeats, Values
<1>11. Known'
  <2>1. Travelling' \subseteq Travelling
    BY <1>1, <1>3 DEF Travelling, delivery
  <2> QED BY <1>1, <1>8, <2>1 DEF Repeats, Known
<1>12. ThisRun'
  <2>1. \A d \in ToSet(applied) : d.id \in Int
    <3>1. ToSet(applied) \subseteq Cmd
      BY <1>2 DEF ToSet
    <3> QED BY <3>1, Commanded
  <2>2. \A d \in ToSet(applied) : d.id < c.id
    BY <1>5, <1>9, <2>1, Order DEF Repeats, ThisRun
  <2>3. \A d \in ToSet(applied') : d.id <= LastId(applied')
    BY <1>4, <1>5, <2>1, <2>2
  <2>4. Ids(inbox) \cup Ids(applied) \subseteq Ids(inbox') \cup Ids(applied')
    BY <1>8
  <2> QED BY <1>1, <2>3, <2>4 DEF Repeats, ThisRun, delivery
<1>13. Again'
  <2>1. \A i \in Held \cap accepted : i < c.id => i \in handled
    <3>1. \A i \in Taken : ~(i < c.id)
      BY <1>5, <1>9
    <3> QED BY <1>9, <3>1 DEF Repeats, Again
  <2>2. \A i \in Taken' : ~(i < c.id)
    BY <1>5, <1>9
  <2> QED BY <1>1, <1>8, <1>9, <2>1, <2>2 DEF Repeats, Again
<1>14. Behind'
  <2>1. Taken' \cup handled' = Taken \cup handled
    BY <1>1, <1>9
  <2>2. \A i \in Taken' : ~(i < c.id) /\ \A m \in handled : i < m => m \in lost \cup Held \cup Ids(inbox')
    <3> SUFFICES ASSUME NEW i \in Taken'
                 PROVE  ~(i < c.id) /\ \A m \in handled : i < m => m \in lost \cup Held \cup Ids(inbox')
      OBVIOUS
    <3>1. c.id < i /\ i \in Int /\ i \in Taken
      BY <1>9
    <3>2. ~(i < c.id)
      BY <1>5, <3>1
    <3> QED BY <1>8, <3>1, <3>2 DEF Repeats, Behind
  <2> QED BY <1>1, <1>8, <2>1, <2>2 DEF Repeats, Behind
<1> QED BY <1>10, <1>11, <1>12, <1>13, <1>14 DEF Repeats

LEMMA RepeatsCrash ==
  ASSUME IInv, Repeats, Crash \/ CrashInSave
  PROVE  Repeats'
<1>1. /\ consumer' = FALSE /\ queue' = unacked \o queue
      /\ unacked' = << >> /\ buffer' = << >> /\ inbox' = << >>
      /\ lost \subseteq lost' /\ UNCHANGED <<applied, past, handled, accepted>>
  BY DEF Crash, CrashInSave, Die, panel
<1>2. ToSet(queue') = ToSet(unacked) \cup ToSet(queue)
  BY <1>1, Requeued
<1>3. Held' = Held /\ Taken' = {} /\ Ids(inbox') = {}
  BY <1>1, <1>2, NoIds DEF Held, Taken, Ids
<1>4. Values' /\ ThisRun'
  BY <1>1 DEF Repeats, Values, ThisRun
<1>5. Known'
  <2>1. Travelling' \subseteq Travelling
    BY <1>1, <1>2, Nothing DEF Travelling
  <2> QED BY <1>1, <1>3, <2>1 DEF Repeats, Known
<1>6. Again' /\ Behind'
  BY <1>1, <1>3 DEF Repeats, Again, Behind
<1> QED BY <1>4, <1>5, <1>6 DEF Repeats

LEMMA RepeatsStart ==
  ASSUME IInv, Repeats, Start
  PROVE  Repeats'
<1>1. /\ ~running /\ applied' = << >> /\ past' = past \cup {conf'}
      /\ conf' = IF file = Torn THEN Default ELSE file
      /\ UNCHANGED <<delivery, inbox, accepted, handled, lost>>
  BY DEF Start, panel
<1>2. acking = FALSE /\ past' = past
  BY <1>1 DEF IInv, Gone, Pasts
<1>3. Values' /\ Known'
  BY <1>1, <1>2 DEF Repeats, Values, Known, Travelling, Ids, delivery
<1>4. ThisRun'
  BY <1>1, <1>2, Nothing DEF ThisRun, delivery
<1>5. Again' /\ Behind'
  BY <1>1 DEF Repeats, Again, Behind, Held, Taken, Ids, delivery
<1> QED BY <1>3, <1>4, <1>5 DEF Repeats

\* A setting falls back to an older command only when that command is delivered
\* a second time (a connection that breaks before its acknowledgement), and then
\* the newer one is delivered after it, unless the broker has lost it.
THEOREM FollowedAgain == Spec => UndoneIsRedone
<1> DEFINE Redone ==
      \A f \in Field :
        /\ running /\ running' /\ conf'[f] < conf[f]
        /\ Last(applied').kind = "set"
        => /\ Last(applied').id \in handled
           /\ conf[f] \in lost \cup Ids(inbox') \cup Ids(unacked') \cup Ids(queue')
<1>1. ASSUME IInv, Repeats, [Next]_vars PROVE Repeats'
  BY <1>1, RepeatsIssue, RepeatsShow, RepeatsCut, RepeatsBrokerRestart, RepeatsDeliver, RepeatsForward,
     RepeatsAck, RepeatsApply, RepeatsCrash, RepeatsStart DEF Next
<1>2. ASSUME IInv, Repeats, [Next]_vars PROVE Redone
  <2> SUFFICES ASSUME NEW f \in Field, running, running', conf'[f] < conf[f], Last(applied').kind = "set"
               PROVE  /\ Last(applied').id \in handled
                      /\ conf[f] \in lost \cup Ids(inbox') \cup Ids(unacked') \cup Ids(queue')
    OBVIOUS
  <2> DEFINE c == Head(inbox)
  <2>1. conf \in past /\ conf \in ConfType /\ conf[f] \in Int
    BY <1>2, Numbers DEF IInv, Pasts, ConfType
  <2>2. Apply
    <3>1. conf' # conf
      BY <2>1
    <3>2. ~Start /\ ~Crash /\ ~CrashInSave
      BY DEF Start, Crash, CrashInSave, Die
    <3> QED BY <1>2, <3>1, <3>2 DEF Next, Issue, BridgeDown, BridgeUp, Cut, BrokerRestart, Deliver, Forward,
                                    Ack, Broadcast, bot, vars
  <2>3. /\ inbox # << >> /\ inbox' = Tail(inbox) /\ c \in Cmd /\ conf' = After(c)
        /\ applied' = Append(applied, c) /\ UNCHANGED <<delivery, lost>>
    BY <1>2, <2>2, ApplyFacts
  <2>4. inbox \in Seq(Cmd) /\ applied \in Seq(Cmd)
    BY <1>2 DEF IInv, Types
  <2>5. Last(applied') = c
    BY <2>3, <2>4, Appended
  <2>6. Ids(inbox) = {c.id} \cup Ids(inbox') /\ c.id \in Int
    BY <2>3, <2>4, Foremost
  <2> HIDE DEF c
  <2>7. conf' = [conf EXCEPT ![c.field] = c.id]
    BY <2>3, <2>5 DEF After
  <2>8. c.id < conf[f]
    <3>1. conf'[f] \in {c.id, conf[f]}
      BY <2>1, <2>7 DEF ConfType
    <3> QED BY <2>1, <3>1
  <2>9. conf[f] \in handled
    <3>1. conf[f] \in handled \cup {0}
      BY <1>2, <2>1 DEF Repeats, Values
    <3>2. 0 < c.id
      BY <2>3, Commanded
    <3> QED BY <2>1, <2>6, <2>8, <3>1, <3>2
  <2>10. c.id \in Taken /\ c.id \in accepted
    BY <1>2, <2>6 DEF Taken, Repeats, Known
  <2>11. c.id \in handled
    BY <1>2, <2>8, <2>9, <2>10 DEF Repeats, Again
  <2>12. conf[f] \in lost \cup Held \cup Ids(inbox)
    BY <1>2, <2>8, <2>9, <2>10 DEF Repeats, Behind
  <2>13. conf[f] # c.id /\ Held = Ids(queue') \cup Ids(unacked')
    BY <2>1, <2>3, <2>6, <2>8 DEF Held, Ids, delivery
  <2> QED BY <2>5, <2>6, <2>11, <2>12, <2>13
<1>3. IInv /\ Repeats /\ [Next]_vars => Repeats' /\ [Redone]_vars
  BY <1>1, <1>2
<1> QED BY <1>3, RepeatsInit, Inductive, PTL DEF Spec, UndoneIsRedone

=============================================================================
