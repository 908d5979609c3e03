-------------------------- MODULE DiscSwitch_proofs -------------------------
(***************************************************************************)
(* The drive and the data of its images.                                   *)
(*                                                                         *)
(* For any number of games, timers and requests, and for every order in    *)
(* which messages and expiries reach the module: a console that follows    *)
(* the protocol never misses a change of the disc, a WBFS game is read     *)
(* with its own key, and every step of the drive is a step of DiscChanger. *)
(*                                                                         *)
(* For images of any size, cut anywhere, with any holes, and caches of any *)
(* size: a block of a WBFS game is the one asked for, unless one of five   *)
(* things has happened.                                                    *)
(***************************************************************************)
EXTENDS DiscSwitch, DiscData, TLAPS, FiniteSetTheorems, SequenceTheorems, WellFoundedInduction

-----------------------------------------------------------------------------
(* The drive.                                                              *)
Message_ == [from : {"menu", "ppc", "timer"}, cmd : Commands,
             slot : Slots \cup {Gamecount, NoGame}]

(* What the queue holds.  Commands tell who sent them; the console has at  *)
(* most one message in it, and, if it is polite, one its phase allows.     *)
Tagged(m) ==
  /\ m.cmd \in PpcCommands <=> m.from = "ppc"
  /\ m.cmd = "expired" => m.from = "timer"
  /\ m.cmd \in {"select", "load"} => m.slot \in Slots \cup {Gamecount}
  /\ m.cmd \in {"eject", "insert"} => m.cmd \in MenuCommands

QueueOK ==
  /\ queue \in Seq(Message_)
  /\ \A i \in DOMAIN queue : Tagged(queue[i])
  /\ \A i \in DOMAIN queue : queue[i].from = "ppc" => "ppc" \in waiting /\ queue[i].cmd \in Allowed
  /\ \A i, j \in DOMAIN queue : queue[i].from = "ppc" /\ queue[j].from = "ppc" => i = j

DriveOK ==
  /\ timers \in [Timers -> {"free", "armed", "fired"}]
  /\ switchtimer \in Timers \cup {NoTimer}
  /\ requested \in Slots \cup {Gamecount, NoGame}
  /\ disc \in Slots
  /\ phase \in {"poll", "reset", "readid", "open"}
  /\ waiting \subseteq {"menu", "ppc"}

(* The queue without its head, when the console's phase is left alone or   *)
(* the head was the console's.                                             *)
LEMMA TailOK ==
  ASSUME QueueOK, queue # <<>>, queue' = Tail(queue), waiting' = waiting \ {Head(queue).from},
         phase' = phase \/ Head(queue).from = "ppc"
  PROVE  QueueOK'
<1>1. queue' \in Seq(Message_)
  BY DEF QueueOK
<1>2. /\ DOMAIN queue = 1 .. Len(queue) /\ DOMAIN queue' = 1 .. Len(queue) - 1
      /\ Len(queue) \in Nat /\ Len(queue) >= 1
      /\ \A i \in DOMAIN queue' : i + 1 \in DOMAIN queue /\ queue'[i] = queue[i + 1]
      /\ Head(queue) = queue[1] /\ 1 \in DOMAIN queue
  BY DEF QueueOK
<1>3. \A i \in DOMAIN queue' : Tagged(queue'[i])
  BY <1>2 DEF QueueOK, Tagged
<1>4. ASSUME NEW i \in DOMAIN queue', queue'[i].from = "ppc"
      PROVE  "ppc" \in waiting' /\ queue'[i].cmd \in Allowed'
  <2>1. queue[i + 1].from = "ppc" /\ i + 1 \in DOMAIN queue /\ i + 1 # 1
    BY <1>2, <1>4
  <2>2. Head(queue).from # "ppc"
    BY <1>2, <2>1 DEF QueueOK
  <2>3. phase' = phase
    BY <2>2
  <2>4. "ppc" \in waiting /\ queue[i + 1].cmd \in Allowed
    BY <2>1 DEF QueueOK
  <2> QED  BY <1>2, <2>2, <2>3, <2>4 DEF Allowed
<1>5. ASSUME NEW i \in DOMAIN queue', NEW j \in DOMAIN queue',
             queue'[i].from = "ppc", queue'[j].from = "ppc"
      PROVE  i = j
  <2>1. i + 1 = j + 1
    BY <1>2, <1>5 DEF QueueOK
  <2> QED  BY <1>2, <2>1
<1> QED  BY <1>1, <1>3, <1>4, <1>5 DEF QueueOK

(* A message joins the queue.                                              *)
LEMMA AppendOK ==
  ASSUME QueueOK, NEW m \in Message_, Tagged(m), queue' = Append(queue, m),
         phase' = phase, waiting \subseteq waiting',
         m.from = "ppc" => "ppc" \notin waiting /\ "ppc" \in waiting' /\ m.cmd \in Allowed
  PROVE  QueueOK'
<1>1. queue' \in Seq(Message_)
  BY DEF QueueOK
<1>2. /\ DOMAIN queue = 1 .. Len(queue) /\ DOMAIN queue' = 1 .. Len(queue) + 1
      /\ Len(queue) \in Nat
      /\ \A i \in DOMAIN queue : queue'[i] = queue[i]
      /\ queue'[Len(queue) + 1] = m
  BY DEF QueueOK
<1>3. \A i \in DOMAIN queue' : i \in DOMAIN queue \/ i = Len(queue) + 1
  BY <1>2
<1>4. \A i \in DOMAIN queue' : Tagged(queue'[i])
  BY <1>2, <1>3 DEF QueueOK, Tagged
<1>5. \A i \in DOMAIN queue' :
        queue'[i].from = "ppc" => "ppc" \in waiting' /\ queue'[i].cmd \in Allowed'
  BY <1>2, <1>3 DEF QueueOK, Allowed
<1>6. \A i, j \in DOMAIN queue' : queue'[i].from = "ppc" /\ queue'[j].from = "ppc" => i = j
  BY <1>2, <1>3 DEF QueueOK
<1> QED  BY <1>1, <1>4, <1>5, <1>6 DEF QueueOK

-----------------------------------------------------------------------------
(* Every message but the timer's is answered, and only four commands move  *)
(* the console on.                                                         *)
LEMMA ServeShape ==
  ASSUME QueueOK, DriveOK, Serve
  PROVE  \/ UNCHANGED <<queue, waiting, phase>>
         \/ /\ queue # <<>> /\ queue' = Tail(queue) /\ waiting' = waiting \ {Head(queue).from}
            /\ \/ phase' = phase
               \/ Head(queue).cmd \in {"cover", "reset", "readid", "open"}
<1>1. ASSUME NEW ret, NEW e, Answer(ret, e), queue # <<>>,
             phase' = phase \/ Head(queue).cmd \in {"cover", "reset", "readid", "open"}
      PROVE  /\ queue # <<>> /\ queue' = Tail(queue) /\ waiting' = waiting \ {Head(queue).from}
             /\ \/ phase' = phase
                \/ Head(queue).cmd \in {"cover", "reset", "readid", "open"}
  BY <1>1 DEF Answer, Message
<1>2. CASE ServeRequest
  BY <1>2, <1>1 DEF ServeRequest, Serves
<1>3. CASE ServeTray
  BY <1>3, <1>1 DEF ServeTray, Serves
<1>4. CASE ServeCover
  BY <1>4, <1>1 DEF ServeCover, Serves, Message
<1>5. CASE ServeAck
  BY <1>5, <1>1 DEF ServeAck, Serves
<1>6. CASE ServeReset
  BY <1>6, <1>1 DEF ServeReset, Serves, Message
<1>7. CASE Hang
  BY <1>7 DEF Hang, client
<1>8. CASE ServeReadId
  BY <1>8, <1>1 DEF ServeReadId, Serves, Message
<1>9. CASE ServeOpen
  BY <1>9, <1>1 DEF ServeOpen, Serves, Message
<1>10. CASE ServeClose
  BY <1>10, <1>1 DEF ServeClose, Serves
<1>11. CASE ServeRead
  BY <1>11, <1>1 DEF ServeRead, Serves
<1>12. CASE ServeRefused \/ ServeError \/ ServeReportKey \/ ServeOther
  BY <1>12, <1>1 DEF ServeRefused, ServeError, ServeReportKey, ServeOther, Serves, Quiet
<1>13. CASE ServeExpired
  <2>1. queue # <<>> /\ Head(queue).cmd = "expired" /\ queue' = Tail(queue)
    BY <1>13 DEF ServeExpired, Serves, Message
  <2>2. 1 \in DOMAIN queue /\ Head(queue) = queue[1]
    BY <2>1 DEF QueueOK
  <2>3. Head(queue).from = "timer"
    BY <2>1, <2>2 DEF QueueOK, Tagged
  <2>4. waiting' = waiting /\ phase' = phase
    BY <1>13 DEF ServeExpired, client
  <2> QED  BY <2>1, <2>3, <2>4 DEF DriveOK
<1> QED  BY <1>2, <1>3, <1>4, <1>5, <1>6, <1>7, <1>8, <1>9, <1>10, <1>11, <1>12, <1>13 DEF Serve

(* A message of the console moves it on only along the protocol.           *)
LEMMA HeadOK ==
  ASSUME QueueOK, queue # <<>>
  PROVE  /\ Tagged(Message) /\ Message \in Message_
         /\ Message.from = "ppc" => Message.cmd \in Allowed
  BY DEF QueueOK, Message

LEMMA QueueStep ==
  ASSUME QueueOK, DriveOK, [Next]_vars
  PROVE  QueueOK'
<1>1. CASE UNCHANGED vars
  BY <1>1 DEF vars, client, QueueOK, Tagged, Allowed
<1>2. CASE Serve
  <2>1. CASE UNCHANGED <<queue, waiting, phase>>
    BY <2>1 DEF QueueOK, Tagged, Allowed
  <2>2. CASE /\ queue # <<>> /\ queue' = Tail(queue) /\ waiting' = waiting \ {Head(queue).from}
             /\ \/ phase' = phase
                \/ Head(queue).cmd \in {"cover", "reset", "readid", "open"}
    <3>1. Head(queue).cmd \in {"cover", "reset", "readid", "open"} => Head(queue).from = "ppc"
      BY <2>2, HeadOK DEF Message, Tagged, PpcCommands
    <3> QED  BY <2>2, <3>1, TailOK
  <2> QED  BY <1>2, <2>1, <2>2, ServeShape
<1>3. ASSUME NEW t \in Timers, Expire(t)  PROVE  QueueOK'
  <2>1. Expired \in Message_ /\ Tagged(Expired) /\ Expired.from # "ppc"
    BY DEF Expired, Message_, Tagged, Commands, PpcCommands
  <2>2. queue' = Append(queue, Expired) /\ UNCHANGED <<waiting, phase>>
    BY <1>3 DEF Expire, client
  <2> QED  BY <2>1, <2>2, AppendOK
<1>4. ASSUME NEW cmd \in {"select", "load"}, NEW slot \in Slots \cup {Gamecount},
             MenuRequest(cmd, slot)
      PROVE  QueueOK'
  <2> DEFINE m == Msg("menu", cmd, slot)
  <2>1. m \in Message_ /\ Tagged(m) /\ m.from = "menu"
    BY DEF Msg, Message_, Tagged, Commands, PpcCommands
  <2>2. queue' = Append(queue, m) /\ waiting' = waiting \cup {"menu"} /\ phase' = phase
    BY <1>4, <2>1 DEF MenuRequest, Send
  <2> HIDE DEF m
  <2> QED  BY <2>1, <2>2, AppendOK
<1>5. ASSUME NEW cmd \in {"eject", "insert"}, MenuTray(cmd)  PROVE  QueueOK'
  <2> DEFINE m == Msg("menu", cmd, NoGame)
  <2>1. m \in Message_ /\ Tagged(m) /\ m.from = "menu"
    BY <1>5 DEF Msg, Message_, Tagged, Commands, PpcCommands, MenuTray
  <2>2. queue' = Append(queue, m) /\ waiting' = waiting \cup {"menu"} /\ phase' = phase
    BY <1>5, <2>1 DEF MenuTray, Send
  <2> HIDE DEF m
  <2> QED  BY <2>1, <2>2, AppendOK
<1>6. ASSUME NEW cmd \in PpcCommands, PpcSend(cmd)  PROVE  QueueOK'
  <2> DEFINE m == Msg("ppc", cmd, NoGame)
  <2>1. m \in Message_ /\ Tagged(m) /\ m.from = "ppc" /\ m.cmd = cmd
    BY DEF Msg, Message_, Tagged, Commands, PpcCommands
  <2>2. /\ queue' = Append(queue, m) /\ waiting' = waiting \cup {"ppc"} /\ phase' = phase
        /\ "ppc" \notin waiting /\ cmd \in Allowed
    BY <1>6, <2>1 DEF PpcSend, Send
  <2> HIDE DEF m
  <2> QED  BY <2>1, <2>2, AppendOK
<1> QED  BY <1>1, <1>2, <1>3, <1>4, <1>5, <1>6 DEF Next

-----------------------------------------------------------------------------
(* Every other command leaves the switch and the game in the drive alone.  *)
OtherServe ==
  \/ ServeTray \/ ServeCover \/ ServeAck \/ ServeReset \/ Hang
  \/ ServeReadId \/ ServeOpen \/ ServeClose \/ ServeRead \/ ServeRefused
  \/ ServeError \/ ServeReportKey \/ ServeOther

LEMMA OtherShape ==
  ASSUME OtherServe
  PROVE  /\ UNCHANGED <<timers, switchtimer, requested, disc, key, asked, requests>>
         /\ queue # <<>>
         /\ Message.cmd \notin {"select", "load", "expired"}
         /\ queue' = queue \/ queue' = Tail(queue)
<1>1. ASSUME NEW ret, NEW e, Answer(ret, e)
      PROVE  UNCHANGED <<asked, requests>> /\ queue' = Tail(queue)
  BY <1>1 DEF Answer
<1>2. CASE ServeTray
  BY <1>2, <1>1 DEF ServeTray, Serves, switch
<1>3. CASE ServeCover
  BY <1>3, <1>1 DEF ServeCover, Serves, switch
<1>4. CASE ServeAck
  BY <1>4, <1>1 DEF ServeAck, Serves, switch
<1>5. CASE ServeReset
  BY <1>5, <1>1 DEF ServeReset, Serves, switch
<1>6. CASE Hang
  BY <1>6 DEF Hang, Serves, switch, client
<1>7. CASE ServeReadId
  BY <1>7, <1>1 DEF ServeReadId, Serves, switch
<1>8. CASE ServeOpen
  BY <1>8, <1>1 DEF ServeOpen, Serves, switch
<1>9. CASE ServeClose
  BY <1>9, <1>1 DEF ServeClose, Serves, switch
<1>10. CASE ServeRead
  BY <1>10, <1>1 DEF ServeRead, Serves, switch
<1>11. CASE ServeRefused \/ ServeError \/ ServeReportKey \/ ServeOther
  BY <1>11, <1>1 DEF ServeRefused, ServeError, ServeReportKey, ServeOther, Serves,
     Quiet, switch
<1> QED
  BY <1>2, <1>3, <1>4, <1>5, <1>6, <1>7, <1>8, <1>9, <1>10, <1>11 DEF OtherServe

LEMMA ClampInSlots ==
  ASSUME NEW slot  PROVE  Clamp(slot) \in Slots
  BY DiscSwitchAssumption DEF Clamp, Slots

LEMMA CreateTimerTyped ==
  ASSUME DriveOK, CreateTimer
  PROVE  /\ timers' \in [Timers -> {"free", "armed", "fired"}]
         /\ switchtimer' \in Timers \cup {NoTimer}
         /\ switchtimer' # NoTimer => \E t \in Timers : timers'[t] = "armed"
<1> DEFINE free == {t \in Timers : timers[t] = "free"}
<1>1. CASE free = {}
  BY <1>1 DEF CreateTimer, DriveOK
<1>2. CASE free # {}
  <2>1. PICK t \in free : switchtimer' = t /\ timers' = [timers EXCEPT ![t] = "armed"]
    BY <1>2 DEF CreateTimer
  <2> QED  BY <2>1 DEF DriveOK
<1> QED  BY <1>1, <1>2

LEMMA DriveStep ==
  ASSUME QueueOK, DriveOK, [Next]_vars
  PROVE  DriveOK'
<1>1. CASE UNCHANGED vars
  BY <1>1 DEF vars, client, switch, drive, DriveOK
<1>2. CASE ServeRequest
  <2>1. requested' \in Slots \cup {Gamecount, NoGame}
    BY <1>2, HeadOK DEF ServeRequest, Serves, Tagged, Message_
  <2>2. CreateTimer /\ UNCHANGED <<disc, phase>> /\ waiting' \subseteq waiting
    BY <1>2 DEF ServeRequest, Answer
  <2> QED  BY <2>1, <2>2, CreateTimerTyped DEF DriveOK
<1>3. CASE ServeExpired
  <2>1. disc' \in Slots
    BY <1>3, ClampInSlots DEF ServeExpired, Select
  <2>2. timers' \in [Timers -> {"free", "armed", "fired"}]
    BY <1>3 DEF ServeExpired, DriveOK
  <2> QED  BY <1>3, <2>1, <2>2 DEF ServeExpired, client, DriveOK
<1>4. CASE OtherServe
  <2>1. UNCHANGED <<timers, switchtimer, requested, disc>>
    BY <1>4, OtherShape
  <2>2. waiting' \subseteq waiting
    BY <1>4, ServeShape DEF OtherServe, Serve
  <2>3. phase' \in {"poll", "reset", "readid", "open"}
    <3>1. ASSUME NEW x \in {"poll", "reset", "readid", "open"}, Goto(x)
          PROVE  phase' \in {"poll", "reset", "readid", "open"}
      BY <3>1 DEF Goto, DriveOK
    <3>2. CASE ServeCover
      BY <3>2, <3>1 DEF ServeCover
    <3>3. CASE ServeReset
      BY <3>3, <3>1 DEF ServeReset
    <3>4. CASE ServeReadId
      BY <3>4, <3>1 DEF ServeReadId
    <3>5. CASE ServeOpen
      BY <3>5, <3>1 DEF ServeOpen
    <3>6. CASE ~(ServeCover \/ ServeReset \/ ServeReadId \/ ServeOpen)
      BY <1>4, <3>6 DEF OtherServe, ServeTray, ServeAck, Hang, ServeClose, ServeRead,
         client,
           ServeRefused, ServeError, ServeReportKey, ServeOther, Quiet, DriveOK
    <3> QED  BY <3>2, <3>3, <3>4, <3>5, <3>6
  <2> QED  BY <2>1, <2>2, <2>3 DEF DriveOK
<1>5. ASSUME NEW t \in Timers, Expire(t)  PROVE  DriveOK'
  BY <1>5 DEF Expire, client, drive, DriveOK
<1>6. ASSUME NEW m, m.from \in {"menu", "ppc"}, Send(m)  PROVE  DriveOK'
  BY <1>6 DEF Send, switch, drive, DriveOK
<1>7. ASSUME NEW cmd, NEW slot, MenuRequest(cmd, slot)  PROVE  DriveOK'
  BY <1>7, <1>6 DEF MenuRequest, Msg
<1>8. ASSUME NEW cmd, MenuTray(cmd) \/ PpcSend(cmd)  PROVE  DriveOK'
  BY <1>8, <1>6 DEF MenuTray, PpcSend, Msg
<1> QED  BY <1>1, <1>2, <1>3, <1>4, <1>5, <1>7, <1>8 DEF Next, Serve, OtherServe

Base == QueueOK /\ DriveOK

LEMMA InitBase == Init => Base
<1> SUFFICES ASSUME Init  PROVE  Base
  OBVIOUS
<1>1. queue \in Seq(Message_) /\ DOMAIN queue = {}
  BY DEF Init
<1> QED  BY <1>1 DEF Init, Base, QueueOK, DriveOK

LEMMA NextBase == Base /\ [Next]_vars => Base'
  BY QueueStep, DriveStep DEF Base

-----------------------------------------------------------------------------
(* What the console cannot miss.  With no insertion by the menu, only 0x7A *)
(* and RESET close the cover, and each moves a polite console towards the  *)
(* id of the disc.                                                         *)
LEMMA NextNoMissed ==
  ASSUME Polite, "insert" \notin MenuCommands, Base, NoMissedChange, [Next]_vars
  PROVE  NoMissedChange'
<1> USE DEF Base
<1>1. CASE UNCHANGED vars
  BY <1>1 DEF vars, client, drive, NoMissedChange
<1>2. CASE ServeRequest
  BY <1>2 DEF ServeRequest, NoMissedChange
<1>3. CASE ServeExpired
  BY <1>3 DEF ServeExpired, Select, client, NoMissedChange
<1>4. CASE ServeTray
  <2>1. Message.cmd \in MenuCommands /\ Message.cmd \in {"eject", "insert"}
    BY <1>4, HeadOK DEF ServeTray, Serves, Tagged
  <2>2. cover' = cover \cup {"open"}
    BY <1>4, <2>1 DEF ServeTray
  <2> QED  BY <1>4, <2>2 DEF ServeTray, NoMissedChange
<1>5. CASE ServeCover
  <2>1. Message.cmd = "cover" /\ Message.from = "ppc"
    BY <1>5, HeadOK DEF ServeCover, Serves, Tagged, PpcCommands
  <2>2. phase = "poll"
    BY <2>1, <1>5, HeadOK DEF ServeCover, Serves, Allowed, DriveOK
  <2>3. "open" \in cover => phase' = "reset"
    BY <1>5 DEF ServeCover, Goto
  <2> QED  BY <1>5, <2>2, <2>3 DEF ServeCover, NoMissedChange
<1>6. CASE ServeAck
  BY <1>6 DEF ServeAck, NoMissedChange
<1>7. CASE ServeReset
  BY <1>7 DEF ServeReset, Goto, NoMissedChange
<1>8. CASE Hang
  BY <1>8 DEF Hang, client, NoMissedChange
<1>9. CASE ServeReadId
  BY <1>9 DEF ServeReadId, NoMissedChange
<1>10. CASE ServeOpen
  <2>1. Message.cmd = "open" /\ Message.from = "ppc"
    BY <1>10, HeadOK DEF ServeOpen, Serves, Tagged, PpcCommands
  <2>2. phase = "open"
    BY <2>1, <1>10, HeadOK DEF ServeOpen, Serves, Allowed, DriveOK
  <2> QED  BY <1>10, <2>2 DEF ServeOpen, NoMissedChange
<1>11. CASE ServeClose \/ ServeRead
  BY <1>11 DEF ServeClose, ServeRead, NoMissedChange
<1>12. CASE ServeRefused \/ ServeError \/ ServeReportKey \/ ServeOther
  BY <1>12 DEF ServeRefused, ServeError, ServeReportKey, ServeOther, Quiet, NoMissedChange
<1>13. ASSUME NEW t \in Timers, Expire(t)  PROVE  NoMissedChange'
  BY <1>13 DEF Expire, client, drive, NoMissedChange
<1>14. ASSUME NEW m, Send(m)  PROVE  NoMissedChange'
  BY <1>14 DEF Send, drive, NoMissedChange
<1>15. ASSUME NEW cmd, NEW slot, MenuRequest(cmd, slot) \/ MenuTray(cmd) \/ PpcSend(cmd)
       PROVE  NoMissedChange'
  BY <1>15, <1>14 DEF MenuRequest, MenuTray, PpcSend
<1> QED
  BY <1>1, <1>2, <1>3, <1>4, <1>5, <1>6, <1>7, <1>8, <1>9, <1>10, <1>11, <1>12, <1>13, <1>15
  DEF Next, Serve

(* A console that follows the protocol never goes on with a disc that is   *)
(* no longer in the drive without the cover telling it so.                 *)
THEOREM ChangeIsNoticed ==
  ASSUME Polite, "insert" \notin MenuCommands
  PROVE  Spec => []NoMissedChange
<1>1. Init => Base /\ NoMissedChange
  BY InitBase DEF Init, NoMissedChange
<1>2. Base /\ NoMissedChange /\ [Next]_vars => (Base /\ NoMissedChange)'
  BY NextBase, NextNoMissed
<1> QED  BY <1>1, <1>2, PTL DEF Spec

-----------------------------------------------------------------------------
LEMMA NextRightKey ==
  ASSUME Base, RightKey, [Next]_vars
  PROVE  RightKey'
<1>1. CASE UNCHANGED vars
  BY <1>1 DEF vars, drive, RightKey
<1>2. CASE ServeRequest
  BY <1>2 DEF ServeRequest, RightKey
<1>3. CASE ServeExpired
  BY <1>3 DEF ServeExpired, Select, KeyAfter, RightKey
<1>4. CASE OtherServe
  BY <1>4, OtherShape DEF RightKey
<1>5. ASSUME NEW t \in Timers, Expire(t)  PROVE  RightKey'
  BY <1>5 DEF Expire, drive, RightKey
<1>6. ASSUME NEW m, Send(m)  PROVE  RightKey'
  BY <1>6 DEF Send, drive, RightKey
<1>7. ASSUME NEW cmd, NEW slot, MenuRequest(cmd, slot) \/ MenuTray(cmd) \/ PpcSend(cmd)
      PROVE  RightKey'
  BY <1>6, <1>7 DEF MenuRequest, MenuTray, PpcSend
<1> QED  BY <1>1, <1>2, <1>3, <1>4, <1>5, <1>7 DEF Next, Serve, OtherServe

(* A WBFS game is read with its own title key, whatever games were in the  *)
(* drive before it.                                                        *)
THEOREM KeyIsRight == Spec => []RightKey
<1>1. Init => Base /\ RightKey
  BY InitBase DEF Init, RightKey
<1>2. Base /\ RightKey /\ [Next]_vars => (Base /\ RightKey)'
  BY NextBase, NextRightKey
<1> QED  BY <1>1, <1>2, PTL DEF Spec

-----------------------------------------------------------------------------
(* Why the last request wins: the menu's request is in the queue, or it is *)
(* the one in requested_game; and that one is in the drive unless a timer  *)
(* or its message is still to come.                                        *)
Underway == (\E t \in Timers : timers[t] = "armed") \/ Queued("expired")

MenuQueue ==
  /\ \A i \in DOMAIN queue : queue[i].from = "menu" => "menu" \in waiting
  /\ \A i, j \in DOMAIN queue : queue[i].from = "menu" /\ queue[j].from = "menu" => i = j
  /\ \A i \in DOMAIN queue : queue[i].cmd \in {"select", "load"} =>
       queue[i].from = "menu" /\ queue[i].slot = asked

LastWins ==
  /\ asked # NoGame => Queued("select") \/ Queued("load") \/ requested = asked
  /\ requested # NoGame /\ switchtimer # NoTimer => Underway \/ disc = Clamp(requested)
  /\ Underway => requested # NoGame

LEMMA TailQueued ==
  ASSUME QueueOK, queue # <<>>, queue' = Tail(queue), NEW cmd
  PROVE  /\ Queued(cmd) => Queued(cmd)' \/ Message.cmd = cmd
         /\ Queued(cmd)' => Queued(cmd)
<1>1. /\ DOMAIN queue = 1 .. Len(queue) /\ DOMAIN queue' = 1 .. Len(queue) - 1
      /\ Len(queue) \in Nat
      /\ \A i \in DOMAIN queue' : i + 1 \in DOMAIN queue /\ queue'[i] = queue[i + 1]
      /\ Message = queue[1]
  BY DEF QueueOK, Message
<1>2. ASSUME NEW i \in DOMAIN queue, queue[i].cmd = cmd
      PROVE  Queued(cmd)' \/ Message.cmd = cmd
  <2>1. CASE i = 1
    BY <1>1, <1>2, <2>1
  <2>2. CASE i # 1
    <3>1. i - 1 \in DOMAIN queue' /\ (i - 1) + 1 = i
      BY <1>1, <2>2
    <3>2. queue'[i - 1].cmd = cmd
      BY <1>1, <1>2, <3>1
    <3> QED  BY <3>1, <3>2 DEF Queued
  <2> QED  BY <2>1, <2>2
<1>3. Queued(cmd)' => Queued(cmd)
  BY <1>1 DEF Queued
<1> QED  BY <1>2, <1>3 DEF Queued

LEMMA AppendQueued ==
  ASSUME QueueOK, NEW m \in Message_, queue' = Append(queue, m), NEW cmd
  PROVE  Queued(cmd)' <=> Queued(cmd) \/ m.cmd = cmd
<1>1. /\ DOMAIN queue = 1 .. Len(queue) /\ DOMAIN queue' = 1 .. Len(queue) + 1
      /\ Len(queue) \in Nat
      /\ \A i \in DOMAIN queue : queue'[i] = queue[i]
      /\ queue'[Len(queue) + 1] = m
  BY DEF QueueOK
<1>2. \A i \in DOMAIN queue' : i \in DOMAIN queue \/ i = Len(queue) + 1
  BY <1>1
<1>3. Len(queue) + 1 \in DOMAIN queue' /\ DOMAIN queue \subseteq DOMAIN queue'
  BY <1>1
<1> QED  BY <1>1, <1>2, <1>3 DEF Queued

LEMMA NextMenuQueue ==
  ASSUME Base, MenuQueue, [Next]_vars
  PROVE  MenuQueue'
<1> USE DEF Base
<1>1. CASE UNCHANGED vars
  BY <1>1 DEF vars, client, MenuQueue
<1>2. CASE Serve
  <2>0. asked' = asked
    <3>1. CASE ServeRequest
      BY <3>1 DEF ServeRequest, Answer
    <3>2. CASE ServeExpired
      BY <3>2 DEF ServeExpired, client
    <3>3. CASE OtherServe
      BY <3>3, OtherShape
    <3> QED  BY <1>2, <3>1, <3>2, <3>3 DEF Serve, OtherServe
  <2>1. CASE UNCHANGED <<queue, waiting, phase>>
    BY <2>0, <2>1 DEF MenuQueue
  <2>2. CASE queue # <<>> /\ queue' = Tail(queue) /\ waiting' = waiting \ {Head(queue).from}
    <3>1. /\ DOMAIN queue = 1 .. Len(queue) /\ DOMAIN queue' = 1 .. Len(queue) - 1
          /\ Len(queue) \in Nat
          /\ \A i \in DOMAIN queue' : i + 1 \in DOMAIN queue /\ queue'[i] = queue[i + 1]
          /\ Head(queue) = queue[1]
      BY <2>2 DEF QueueOK
    <3>2. ASSUME NEW i \in DOMAIN queue', queue'[i].from = "menu"  PROVE  "menu" \in waiting'
      <4>1. i + 1 # 1 /\ 1 \in DOMAIN queue
        BY <3>1
      <4>2. Head(queue).from # "menu"
        BY <3>1, <3>2, <4>1 DEF MenuQueue
      <4> QED  BY <2>2, <3>1, <3>2, <4>2 DEF MenuQueue
    <3>3. ASSUME NEW i \in DOMAIN queue', NEW j \in DOMAIN queue',
                 queue'[i].from = "menu", queue'[j].from = "menu"
          PROVE  i = j
      <4>1. i + 1 = j + 1
        BY <3>1, <3>3 DEF MenuQueue
      <4> QED  BY <3>1, <4>1
    <3>4. \A i \in DOMAIN queue' : queue'[i].cmd \in {"select", "load"} =>
            queue'[i].from = "menu" /\ queue'[i].slot = asked
      BY <3>1 DEF MenuQueue
    <3> QED  BY <2>0, <3>2, <3>3, <3>4 DEF MenuQueue
  <2> QED  BY <1>2, <2>1, <2>2, ServeShape
<1>3. ASSUME NEW m \in Message_, queue' = Append(queue, m), waiting \subseteq waiting',
             m.from = "menu" => "menu" \notin waiting /\ "menu" \in waiting',
             m.from # "menu" => asked' = asked,
             m.cmd \in {"select", "load"} => m.from = "menu" /\ m.slot = asked'
      PROVE  MenuQueue'
  <2>1. /\ DOMAIN queue = 1 .. Len(queue) /\ DOMAIN queue' = 1 .. Len(queue) + 1
        /\ Len(queue) \in Nat
        /\ \A i \in DOMAIN queue : queue'[i] = queue[i]
        /\ queue'[Len(queue) + 1] = m
    BY <1>3 DEF QueueOK
  <2>2. \A i \in DOMAIN queue' : i \in DOMAIN queue \/ i = Len(queue) + 1
    BY <2>1
  <2>3. m.from = "menu" => \A i \in DOMAIN queue : queue[i].from # "menu"
    BY <1>3 DEF MenuQueue
  <2>4. \A i \in DOMAIN queue' : queue'[i].from = "menu" => "menu" \in waiting'
    BY <1>3, <2>1, <2>2 DEF MenuQueue
  <2>5. \A i, j \in DOMAIN queue' : queue'[i].from = "menu" /\ queue'[j].from = "menu" => i = j
    BY <2>1, <2>2, <2>3 DEF MenuQueue
  <2>6. \A i \in DOMAIN queue' : queue'[i].cmd \in {"select", "load"} =>
          queue'[i].from = "menu" /\ queue'[i].slot = asked'
    BY <1>3, <2>1, <2>2, <2>3 DEF MenuQueue
  <2> QED  BY <2>4, <2>5, <2>6 DEF MenuQueue
<1>4. ASSUME NEW t \in Timers, Expire(t)  PROVE  MenuQueue'
  <2>1. Expired \in Message_ /\ Expired.from = "timer" /\ Expired.cmd = "expired"
    BY DEF Expired, Message_, Commands
  <2> QED  BY <1>3, <1>4, <2>1 DEF Expire, client
<1>5. ASSUME NEW cmd \in {"select", "load"}, NEW slot \in Slots \cup {Gamecount},
             MenuRequest(cmd, slot)
      PROVE  MenuQueue'
  <2> DEFINE m == Msg("menu", cmd, slot)
  <2>1. m \in Message_ /\ m.from = "menu" /\ m.slot = slot
    BY DEF Msg, Message_, Commands
  <2>2. /\ queue' = Append(queue, m) /\ waiting' = waiting \cup {"menu"} /\ asked' = slot
        /\ "menu" \notin waiting
    BY <1>5, <2>1 DEF MenuRequest, Send
  <2> HIDE DEF m
  <2> QED  BY <1>3, <2>1, <2>2
<1>6. ASSUME NEW cmd \in {"eject", "insert"}, MenuTray(cmd)  PROVE  MenuQueue'
  <2> DEFINE m == Msg("menu", cmd, NoGame)
  <2>1. m \in Message_ /\ m.from = "menu" /\ m.cmd \notin {"select", "load"}
    BY DEF Msg, Message_, Commands
  <2>2. /\ queue' = Append(queue, m) /\ waiting' = waiting \cup {"menu"} /\ asked' = asked
        /\ "menu" \notin waiting
    BY <1>6, <2>1 DEF MenuTray, Send
  <2> HIDE DEF m
  <2> QED  BY <1>3, <2>1, <2>2
<1>7. ASSUME NEW cmd \in PpcCommands, PpcSend(cmd)  PROVE  MenuQueue'
  <2> DEFINE m == Msg("ppc", cmd, NoGame)
  <2>1. m \in Message_ /\ m.from = "ppc" /\ m.cmd \notin {"select", "load"}
    BY DEF Msg, Message_, Commands, PpcCommands
  <2>2. queue' = Append(queue, m) /\ waiting' = waiting \cup {"ppc"} /\ asked' = asked
    BY <1>7, <2>1 DEF PpcSend, Send
  <2> HIDE DEF m
  <2> QED  BY <1>3, <2>1, <2>2
<1> QED  BY <1>1, <1>2, <1>4, <1>5, <1>6, <1>7 DEF Next

LEMMA NextLastWins ==
  ASSUME Base, MenuQueue, LastWins, [Next]_vars
  PROVE  LastWins'
<1> USE DEF Base
<1>1. CASE UNCHANGED vars
  BY <1>1 DEF vars, switch, drive, client, LastWins, Underway, Queued
<1>2. CASE ServeRequest
  <2>1. queue # <<>> /\ queue' = Tail(queue) /\ UNCHANGED <<asked, disc>>
    BY <1>2 DEF ServeRequest, Answer, Serves
  <2>2. Message.slot = asked /\ Message.slot \in Slots \cup {Gamecount} /\ Message.slot # NoGame
    <3>1. Message = queue[1] /\ 1 \in DOMAIN queue
      BY <2>1 DEF QueueOK, Message
    <3> QED  BY <1>2, <2>1, <3>1, HeadOK, DiscSwitchAssumption
             DEF ServeRequest, Serves, MenuQueue, Tagged
  <2>3. requested' = asked'
    BY <1>2, <2>1, <2>2 DEF ServeRequest
  <2>4. switchtimer' # NoTimer => \E t \in Timers : timers'[t] = "armed"
    BY <1>2, CreateTimerTyped DEF ServeRequest
  <2> QED  BY <2>1, <2>2, <2>3, <2>4 DEF LastWins, Underway
<1>3. CASE ServeExpired
  <2>1. queue # <<>> /\ queue' = Tail(queue) /\ Message.cmd = "expired"
    BY <1>3 DEF ServeExpired, Serves
  <2>2. disc' = Clamp(requested') /\ UNCHANGED <<requested, asked>>
    BY <1>3 DEF ServeExpired, Select, client
  <2>3. Queued("select") => Queued("select")'
    BY <2>1, TailQueued
  <2>4. Queued("load") => Queued("load")'
    BY <2>1, TailQueued
  <2>5. Underway
    BY <2>1, HeadOK DEF Underway, Queued, QueueOK, Message
  <2> QED  BY <2>2, <2>3, <2>4, <2>5 DEF LastWins
<1>4. CASE OtherServe
  <2>1. UNCHANGED <<timers, switchtimer, requested, disc, asked>>
    BY <1>4, OtherShape
  <2>2. /\ Queued("select")' <=> Queued("select")
        /\ Queued("load")' <=> Queued("load")
        /\ Queued("expired")' <=> Queued("expired")
    <3>1. CASE queue' = queue
      BY <3>1 DEF Queued
    <3>2. CASE queue' = Tail(queue)
      BY <1>4, <3>2, OtherShape, TailQueued
    <3> QED  BY <1>4, <3>1, <3>2, OtherShape
  <2> QED  BY <2>1, <2>2 DEF LastWins, Underway
<1>5. ASSUME NEW t \in Timers, Expire(t)  PROVE  LastWins'
  <2>1. Expired \in Message_ /\ Expired.cmd = "expired"
    BY DEF Expired, Message_, Commands
  <2>2. queue' = Append(queue, Expired) /\ UNCHANGED <<switchtimer, requested, disc, asked>>
    BY <1>5 DEF Expire, drive, client
  <2>3. Queued("expired")' /\ (Queued("select") => Queued("select")') /\ (Queued("load") => Queued("load")')
    BY <2>1, <2>2, AppendQueued
  <2>4. Underway' /\ Underway
    BY <1>5, <2>3 DEF Underway, Expire
  <2> QED  BY <2>2, <2>3, <2>4 DEF LastWins
<1>6. ASSUME NEW m \in Message_, queue' = Append(queue, m), m.cmd # "expired",
             UNCHANGED <<timers, switchtimer, requested, disc>>,
             asked' = asked \/ m.cmd \in {"select", "load"}
      PROVE  LastWins'
  <2>1. Queued("expired")' <=> Queued("expired")
    BY <1>6, AppendQueued
  <2>2. (Queued("select") => Queued("select")') /\ (Queued("load") => Queued("load")')
    BY <1>6, AppendQueued
  <2>3. m.cmd \in {"select", "load"} => Queued("select")' \/ Queued("load")'
    BY <1>6, AppendQueued
  <2> QED  BY <1>6, <2>1, <2>2, <2>3 DEF LastWins, Underway
<1>7. ASSUME NEW cmd \in {"select", "load"}, NEW slot \in Slots \cup {Gamecount},
             MenuRequest(cmd, slot)
      PROVE  LastWins'
  <2> DEFINE m == Msg("menu", cmd, slot)
  <2>1. m \in Message_ /\ m.cmd = cmd
    BY DEF Msg, Message_, Commands
  <2>2. queue' = Append(queue, m) /\ UNCHANGED <<timers, switchtimer, requested, disc>>
    BY <1>7 DEF MenuRequest, Send, switch, drive
  <2> HIDE DEF m
  <2> QED  BY <1>6, <2>1, <2>2
<1>8. ASSUME NEW from \in {"menu", "ppc"}, NEW cmd \in PpcCommands \cup {"eject", "insert"},
             Send(Msg(from, cmd, NoGame)), asked' = asked
      PROVE  LastWins'
  <2> DEFINE m == Msg(from, cmd, NoGame)
  <2>1. m \in Message_ /\ m.cmd = cmd /\ cmd # "expired"
    BY DEF Msg, Message_, Commands, PpcCommands
  <2>2. queue' = Append(queue, m) /\ UNCHANGED <<timers, switchtimer, requested, disc>>
    BY <1>8 DEF Send, switch, drive
  <2> HIDE DEF m
  <2> QED  BY <1>6, <1>8, <2>1, <2>2
<1>9. ASSUME NEW cmd \in {"eject", "insert"}, MenuTray(cmd)  PROVE  LastWins'
  BY <1>8, <1>9 DEF MenuTray
<1>10. ASSUME NEW cmd \in PpcCommands, PpcSend(cmd)  PROVE  LastWins'
  BY <1>8, <1>10 DEF PpcSend
<1> QED
  BY <1>1, <1>2, <1>3, <1>4, <1>5, <1>7, <1>9, <1>10 DEF Next, Serve, OtherServe

LEMMA InitMenu == Init => MenuQueue /\ LastWins
<1> SUFFICES ASSUME Init  PROVE  MenuQueue /\ LastWins
  OBVIOUS
<1>1. DOMAIN queue = {}
  BY DEF Init
<1> QED  BY <1>1 DEF Init, MenuQueue, LastWins, Underway, Queued

MenuInv == Base /\ MenuQueue /\ LastWins

LEMMA NextMenuInv == MenuInv /\ [Next]_vars => MenuInv'
  BY NextBase, NextMenuQueue, NextLastWins DEF MenuInv

(* As long as the kernel gives out timers, the game asked for last is in   *)
(* the drive once no request and no expiry is under way.                   *)
THEOREM LastRequestIsServed == Spec => [](switchtimer # NoTimer => LastRequestWins)
<1>1. Init => MenuInv
  BY InitBase, InitMenu DEF MenuInv
<1>2. MenuInv => (switchtimer # NoTimer => LastRequestWins)
  BY DEF MenuInv, LastWins, LastRequestWins, Settled, Underway
<1> QED  BY <1>1, <1>2, NextMenuInv, PTL DEF Spec

-----------------------------------------------------------------------------
(* The steps of the drive are steps of DiscChanger: a request asks, an     *)
(* expiry loads, reading the disc id notices, a lost image kills, the rest *)
(* stutters.                                                               *)
LEMMA InitChanger == Init => Changer!Init
  BY DEF Init, Changer!Init

LEMMA NextChanger ==
  ASSUME MenuInv, [Next]_vars
  PROVE  [Changer!Next]_(Changer!vars)
<1> USE DEF MenuInv, Base
<1>1. CASE UNCHANGED <<requested, disc, noticed, hung>>
  BY <1>1 DEF Changer!vars
<1>2. CASE UNCHANGED vars
  BY <1>1, <1>2 DEF vars, switch, drive, client
<1>3. CASE ServeRequest
  <2>1. UNCHANGED <<disc, noticed, hung>> /\ ~hung /\ requested' = Message.slot
    BY <1>3 DEF ServeRequest, Answer, Serves
  <2>2. Message.slot \in Slots \cup {Gamecount}
    BY <1>3, HeadOK DEF ServeRequest, Serves, Tagged
  <2>3. requested' # NoGame /\ Clamp(requested') \in Slots
    BY <2>1, <2>2, ClampInSlots, DiscSwitchAssumption
  <2> QED  BY <2>1, <2>3 DEF Changer!Next, Changer!Ask
<1>4. CASE ServeExpired
  <2>1. queue # <<>> /\ Message.cmd = "expired"
    BY <1>4 DEF ServeExpired, Serves
  <2>2. requested # NoGame
    BY <2>1, HeadOK DEF LastWins, Underway, Queued, QueueOK, Message
  <2>3. UNCHANGED <<requested, noticed, hung>> /\ ~hung /\ disc' = Clamp(requested)
    BY <1>4 DEF ServeExpired, Select, client, Serves
  <2> QED  BY <2>2, <2>3 DEF Changer!Next, Changer!Load, Changer!vars
<1>5. CASE ServeReadId
  <2>1. UNCHANGED <<requested, disc, hung>> /\ ~hung /\ noticed' = disc
    BY <1>5 DEF ServeReadId, switch, Answer, Serves
  <2> QED  BY <2>1 DEF Changer!Next, Changer!Notice, Changer!vars
<1>6. CASE Hang
  <2>1. UNCHANGED <<requested, disc, noticed>> /\ hung' = TRUE /\ disc \in WbfsGames \cap Broken
    BY <1>6 DEF Hang, Gone, Readable, switch, client
  <2> QED  BY <2>1 DEF Changer!Next, Changer!Die, Changer!vars
<1>10. CASE OtherServe /\ ~ServeReadId /\ ~Hang
  <2>1. UNCHANGED <<noticed, hung>>
    BY <1>10 DEF OtherServe, ServeTray, ServeCover, ServeAck, ServeReset, ServeOpen, Answer,
         ServeClose, ServeRead, ServeRefused, ServeError, ServeReportKey, ServeOther, Quiet
  <2> QED  BY <1>1, <1>10, <2>1, OtherShape
<1>7. ASSUME NEW t \in Timers, Expire(t)  PROVE  [Changer!Next]_(Changer!vars)
  BY <1>1, <1>7 DEF Expire, drive, client
<1>8. ASSUME NEW m, Send(m)  PROVE  [Changer!Next]_(Changer!vars)
  BY <1>1, <1>8 DEF Send, switch, drive
<1>9. ASSUME NEW cmd, NEW slot, MenuRequest(cmd, slot) \/ MenuTray(cmd) \/ PpcSend(cmd)
      PROVE  [Changer!Next]_(Changer!vars)
  BY <1>8, <1>9 DEF MenuRequest, MenuTray, PpcSend
<1> QED
  BY <1>2, <1>3, <1>4, <1>5, <1>6, <1>7, <1>9, <1>10 DEF Next, Serve, OtherServe

(* The safety part of ImplementsChanger.                                   *)
THEOREM ChangesGames == Spec => Changer!Init /\ [][Changer!Next]_(Changer!vars)
<1>1. Init => MenuInv
  BY InitBase, InitMenu DEF MenuInv
<1> QED  BY <1>1, InitChanger, NextChanger, NextMenuInv, PTL DEF Spec

-----------------------------------------------------------------------------
(* The data of a WBFS image.                                               *)

(* Types, and what holds whatever has happened: an open file is a split    *)
(* file of the image or one under /custom.                                 *)
ImageType ==
  /\ game \in Games \cup {NoFile} /\ table \in Games \cup {NoFile}
  /\ isparsed \in {0, 1, 2}
CacheType ==
  /\ DOMAIN BC = BlockSlots /\ DOMAIN bufrb = BlockSlots /\ DOMAIN FC = FileSlots
  /\ BCEntry \in Nat \ {0}
Reading ==
  /\ game # NoFile /\ op.kind \in {"low", "header"} /\ op.slot \in BlockSlots /\ op.block \in Nat
  /\ op.next \in Nat \ {0} /\ op.split \in {0} \cup DOMAIN FS /\ op.did \in BOOLEAN
ReadType ==
  /\ op = [kind |-> op.kind, block |-> op.block, slot |-> op.slot, off |-> op.off, len |-> op.len,
           next |-> op.next, split |-> op.split, did |-> op.did]
  /\ op = NoOp \/ Reading
FilesInv ==
  \A j \in FileSlots : FC[j] # NoFile =>
    FC[j].g = "custom" \/ (game # NoFile /\ \E i \in DOMAIN FS : FC[j] = FS[i])
DataShape == ImageType /\ CacheType /\ ReadType /\ FilesInv

(* While nothing has happened that may spoil data: the split files and the *)
(* table are those of the image, and a slot that is said to hold a block   *)
(* holds it, unless it is being filled.                                    *)
ListedInv == game # NoFile => table = game /\ FS = SplitsOf(game)
SlotsInv ==
  \A s \in BlockSlots :
    BC[s] # NoBlock /\ (op = NoOp \/ s # op.slot) => bufrb[s] = Row(game, Stored(game, BC[s]))

(* A read has delivered the first units of its block and is at the next.   *)
First(b) == PartUnit + Physical(game, b) * Units
Filled(buf, b, n) ==
  /\ buf \in Seq(Games \X Int) /\ Len(buf) = n
  /\ \A k \in 1 .. n : buf[k] = <<game, First(b) + k - 1>>
ReadInv ==
  op # NoOp =>
    /\ Physical(game, op.block) = Stored(game, op.block)
    /\ op.kind = "header" => op.block = 0 /\ op.slot = 1 /\ BC[1] \in {NoBlock, 0}
    /\ op.len \in 0 .. Units /\ op.off = First(op.block) + (Units - op.len)
    /\ Filled(bufrb[op.slot], op.block, Units - op.len)

(* The loop may go on in another split file than the one it entered; it is *)
(* then no further into it than that one was long.                         *)
Covers(f, off) == f.from <= off /\ off < f.to
SplitInv ==
  op # NoOp /\ op.split # 0 /\ op.len > 0 =>
    /\ ~op.did => Covers(FS[op.split], op.off)
    /\ \A m \in DOMAIN FS : Covers(FS[m], op.off) =>
         op.off - FS[m].from <= FS[op.split].to - FS[op.split].from

AnswerInv == answer.got = answer.want
Unspoilt  == ListedInv /\ SlotsInv /\ ReadInv /\ SplitInv /\ AnswerInv

(* The inductive invariant of the data path.                               *)
DataInv == DataShape /\ (cause = "none" => Unspoilt)

-----------------------------------------------------------------------------
LEMMA SplitsInOrder ==
  ASSUME game \in Games, FS = SplitsOf(game)
  PROVE  /\ \A i \in DOMAIN FS : /\ i \in Nat \ {0} /\ FS[i].g = game
                                 /\ FS[i].from \in Nat /\ FS[i].to \in Nat /\ FS[i].from < FS[i].to
         /\ \A i, j \in DOMAIN FS : i < j => FS[i].to <= FS[j].from
  <1> DEFINE o == Offsets[game]
  <1>1. /\ o \in Seq(Nat \ {0})
        /\ \A i, j \in DOMAIN o : i < j => o[i] < o[j]
    BY DiscDataAssumption
  <1>2. /\ DOMAIN o = 1 .. Len(o) /\ Len(o) \in Nat
        /\ \A i \in 1 .. Len(o) : o[i] \in Nat \ {0}
    BY <1>1
  <1>3. FS = [i \in DOMAIN o |-> [g |-> game, from |-> IF i = 1 THEN 0 ELSE o[i - 1], to |-> o[i]]]
    BY DEF SplitsOf, Before
  <1>4. /\ DOMAIN FS = DOMAIN o
        /\ \A i \in DOMAIN o : /\ FS[i].g = game /\ FS[i].to = o[i]
                               /\ FS[i].from = IF i = 1 THEN 0 ELSE o[i - 1]
    BY <1>3
  <1> HIDE DEF o
  <1>5. ASSUME NEW i \in DOMAIN FS
        PROVE  /\ i \in Nat \ {0} /\ FS[i].g = game
               /\ FS[i].from \in Nat /\ FS[i].to \in Nat /\ FS[i].from < FS[i].to
    <2>1. CASE i = 1
      BY <1>2, <1>4, <1>5, <2>1
    <2>2. CASE i # 1
      <3>1. i - 1 \in DOMAIN o /\ i \in DOMAIN o /\ i - 1 < i
        BY <1>2, <1>4, <1>5, <2>2
      <3> QED
        BY <1>1, <1>2, <1>4, <2>2, <3>1
    <2> QED
      BY <2>1, <2>2
  <1>6. ASSUME NEW i \in DOMAIN FS, NEW j \in DOMAIN FS, i < j
        PROVE  FS[i].to <= FS[j].from
    <2>1. /\ j - 1 \in DOMAIN o /\ i \in DOMAIN o /\ i \in Nat /\ j \in Nat /\ j # 1
          /\ i = j - 1 \/ i < j - 1
      BY <1>2, <1>4, <1>6
    <2>2. FS[j].from = o[j - 1] /\ FS[i].to = o[i]
      BY <1>4, <2>1
    <2>3. o[i] \in Nat /\ o[j - 1] \in Nat
      BY <1>2, <2>1
    <2>4. CASE i = j - 1
      BY <2>2, <2>3, <2>4
    <2>5. CASE i < j - 1
      BY <1>1, <2>1, <2>2, <2>3, <2>5
    <2> QED
      BY <2>1, <2>4, <2>5
  <1> QED
    BY <1>5, <1>6

LEMMA BlockPlaces ==
  ASSUME NEW g \in Games, NEW b \in Int
  PROVE  Physical(g, b) \in Int /\ Stored(g, b) \in Int
  <1>1. ASSUME NEW s PROVE Rebuilt(g, s) \in Nat
    <2>1. Unused[g] \cap 0 .. (RunEnd(g, s) - 1) \subseteq 0 .. Sectors - 1
      BY DiscDataAssumption
    <2>2. IsFiniteSet(0 .. Sectors - 1)
      BY DiscDataAssumption, FS_Interval
    <2>3. IsFiniteSet(Unused[g] \cap 0 .. (RunEnd(g, s) - 1))
      BY <2>1, <2>2, FS_Subset
    <2> QED
      BY <2>3, FS_CardinalityType DEF Rebuilt
  <1>2. SectorBlocks \in Nat
    BY DiscDataAssumption
  <1>3. Rebuilt(g, Asked(b)) \in Nat /\ Rebuilt(g, Lies(b)) \in Nat
    BY <1>1
  <1> HIDE DEF Rebuilt
  <1> QED
    BY <1>2, <1>3 DEF Physical, Stored

(* The first block lies in the first sector, whichever way it is asked.    *)
LEMMA FirstBlockPlaces ==
  ASSUME NEW g \in Games
  PROVE  Physical(g, 0) = Stored(g, 0)
  <1>1. Asked(0) = 0 /\ Lies(0) = 0
    <2>1. Data \in Nat /\ Raw \in Nat \ {0} /\ SectorBlocks \in Nat \ {0}
      BY DiscDataAssumption
    <2>2. 0 * Data = 0 /\ SectorBlocks * Raw \in Nat \ {0}
      BY <2>1
    <2>3. \A n \in Nat \ {0} : 0 \div n = 0
      OBVIOUS
    <2> QED
      BY <2>1, <2>2, <2>3 DEF Asked, Lies
  <1> QED
    BY <1>1 DEF Physical, Stored

LEMMA FirstIsInt ==
  ASSUME game \in Games, NEW b \in Int
  PROVE  First(b) \in Int
  <1>1. PartUnit \in Int /\ Units \in Int
    BY DiscDataAssumption
  <1>2. Physical(game, b) \in Int
    BY BlockPlaces
  <1> HIDE DEF Physical
  <1> QED
    BY <1>1, <1>2 DEF First

(* A full buffer is the row of units.                                      *)
LEMMA FilledIsRow ==
  ASSUME game \in Games, NEW b \in Int, NEW buf, Filled(buf, b, Units)
  PROVE  buf = Row(game, Physical(game, b))
  <1>1. Units \in Nat
    BY DiscDataAssumption
  <1>2. buf \in [1 .. Units -> Games \X Int]
    BY <1>1 DEF Filled
  <1>3. \A k \in 1 .. Units : buf[k] = <<game, PartUnit + Physical(game, b) * Units + k - 1>>
    BY DEF Filled, First
  <1> QED
    BY <1>2, <1>3 DEF Row

(* What is read next is put behind what was read before.                   *)
LEMMA FilledOn ==
  ASSUME game \in Games, NEW b \in Int, NEW buf, NEW f, f.g = game, f.to \in Int,
         NEW have \in Nat, NEW n \in Nat, NEW off \in Int, off = First(b) + have,
         Filled(buf, b, have), off + n <= f.to
  PROVE  Filled(buf \o Got(f, off, n), b, have + n)
  <1> DEFINE new == Got(f, off, n)
  <1>1. \A k \in 1 .. n : new[k] = <<game, off + k - 1>>
    <2> SUFFICES ASSUME NEW k \in 1 .. n PROVE new[k] = <<game, off + k - 1>>
      OBVIOUS
    <2>1. ~(off + k - 1 >= f.to)
      OBVIOUS
    <2> QED
      BY <2>1 DEF Got, Unit
  <1>2. new \in [1 .. n -> Games \X Int]
    <2>1. new = [k \in 1 .. n |-> new[k]]
      BY DEF Got
    <2>2. \A k \in 1 .. n : off + k - 1 \in Int
      OBVIOUS
    <2> HIDE DEF new
    <2>3. \A k \in 1 .. n : new[k] \in Games \X Int
      BY <1>1, <2>2
    <2> QED
      BY <2>1, <2>3
  <1>3. new \in Seq(Games \X Int) /\ Len(new) = n
    <2> HIDE DEF new
    <2> QED
      BY <1>2
  <1>4. buf \in Seq(Games \X Int) /\ Len(buf) = have
    BY DEF Filled
  <1> HIDE DEF new
  <1>5. /\ buf \o new \in Seq(Games \X Int) /\ Len(buf \o new) = have + n
        /\ \A k \in 1 .. have + n : (buf \o new)[k] = IF k <= have THEN buf[k] ELSE new[k - have]
    BY <1>3, <1>4, ConcatProperties
  <1>6. ASSUME NEW k \in 1 .. have + n
        PROVE  (buf \o new)[k] = <<game, First(b) + k - 1>>
    <2>1. CASE k <= have
      BY <1>5, <1>6, <2>1 DEF Filled
    <2>2. CASE k > have
      <3>1. (buf \o new)[k] = new[k - have] /\ k - have \in 1 .. n
        <4>1. (buf \o new)[k] = IF k <= have THEN buf[k] ELSE new[k - have]
          BY <1>5, <1>6
        <4>2. ~(k <= have) /\ k - have \in 1 .. n
          BY <1>6, <2>2
        <4> QED
          BY <4>1, <4>2
      <3>2. off + (k - have) - 1 = First(b) + k - 1
        BY <1>6, FirstIsInt
      <3> QED
        BY <1>1, <3>1, <3>2
    <2>3. k <= have \/ k > have
      BY <1>6
    <2> QED
      BY <2>1, <2>2, <2>3
  <1> QED
    BY <1>5, <1>6 DEF Filled, new

LEMMA EmptyFilled ==
  ASSUME NEW b
  PROVE  Filled(<<>>, b, 0)
  BY DEF Filled

-----------------------------------------------------------------------------
(* The slots of the caches.                                                *)
LEMMA SlotInRange ==
  ASSUME BCEntry \in Nat \ {0}
  PROVE  Slot(BCEntry, BlockMax) \in BlockSlots /\ 1 \in BlockSlots
  <1>1. BlockMax \in Nat \ {0}
    BY DiscDataAssumption
  <1> QED
    BY <1>1 DEF Slot, BlockSlots

LEMMA LastHolding ==
  ASSUME NEW b, Holding(b) # {}
  PROVE  \E x \in Holding(b) : \A y \in Holding(b) : y <= x
  <1> DEFINE T == {BlockMax - x : x \in Holding(b)}
  <1>1. BlockMax \in Nat /\ Holding(b) \subseteq 1 .. BlockMax
    BY DiscDataAssumption DEF Holding, BlockSlots
  <1>2. T # {} /\ T \subseteq Nat
    BY <1>1
  <1>3. PICK t \in T : \A u \in T : ~(<<u, t>> \in OpToRel(<, Nat))
    BY <1>2, WFMin, NatLessThanWellFounded
  <1>4. \A u \in T : ~(u < t)
    BY <1>2, <1>3 DEF OpToRel
  <1>5. PICK x \in Holding(b) : t = BlockMax - x
    OBVIOUS
  <1>6. ASSUME NEW y \in Holding(b) PROVE y <= x
    <2>1. BlockMax - y \in T /\ x \in Int /\ y \in Int
      BY <1>1
    <2>2. ~(BlockMax - y < BlockMax - x)
      BY <1>4, <1>5, <2>1
    <2> HIDE DEF T
    <2> QED
      BY <1>1, <2>1, <2>2
  <1> QED
    BY <1>6

LEMMA FirstCached ==
  ASSUME NEW S, S \subseteq Nat, S # {}
  PROVE  \E x \in S : \A y \in S : x <= y
  <1>1. PICK x \in S : \A y \in S : ~(<<y, x>> \in OpToRel(<, Nat))
    BY WFMin, NatLessThanWellFounded
  <1>2. \A y \in S : ~(y < x)
    BY <1>1 DEF OpToRel
  <1> QED
    BY <1>2

LEMMA FilesKeep ==
  ASSUME FilesInv, DOMAIN FC = FileSlots, NEW s, NEW f, FC' = [FC EXCEPT ![s] = f],
         UNCHANGED <<game, FS>>,
         f = NoFile \/ f.g = "custom" \/ (game # NoFile /\ \E i \in DOMAIN FS : f = FS[i])
  PROVE  FilesInv' /\ DOMAIN FC' = FileSlots
  <1>1. DOMAIN FC' = FileSlots /\ \A j \in FileSlots : FC'[j] = IF j = s THEN f ELSE FC[j]
    OBVIOUS
  <1>2. ASSUME NEW j \in FileSlots, FC'[j] # NoFile
        PROVE  FC'[j].g = "custom" \/ (game # NoFile /\ \E i \in DOMAIN FS : FC'[j] = FS[i])
    <2>1. CASE j = s
      BY <1>1, <1>2, <2>1
    <2>2. CASE j # s
      BY <1>1, <1>2, <2>2 DEF FilesInv
    <2> QED
      BY <2>1, <2>2
  <1> QED
    BY <1>1, <1>2 DEF FilesInv

LEMMA LookedKeeps ==
  ASSUME DataInv, NEW b, Looked(b), UNCHANGED <<game, FS>>
  PROVE  FilesInv' /\ DOMAIN FC' = FileSlots /\ isparsed' \in {0, 1, 2}
  <1>1. FilesInv /\ DOMAIN FC = FileSlots /\ isparsed \in {0, 1, 2}
    BY DEF DataInv, DataShape, CacheType, ImageType
  <1>2. isparsed' \in {0, 1, 2}
    BY <1>1 DEF Looked
  <1>3. CASE UNCHANGED <<FC, FCEntry>>
    BY <1>1, <1>2, <1>3 DEF FilesInv
  <1>4. CASE FC' = [FC EXCEPT ![NextFile] = NoFile]
    <2>1. /\ DOMAIN FC' = FileSlots
          /\ \A j \in FileSlots : FC'[j] = NoFile \/ FC'[j] = FC[j]
      BY <1>1, <1>4
    <2> QED
      BY <1>1, <1>2, <2>1 DEF FilesInv
  <1> QED
    BY <1>3, <1>4 DEF Looked

-----------------------------------------------------------------------------
(* The selection of an image empties the caches and begins with block 0.   *)
LEMMA SelectKeeps ==
  ASSUME DataInv, NEW g \in Games, SelectImage(g)
  PROVE  DataInv'
  <1>1. /\ FC' = NoFiles /\ BC' = NoBlocks /\ bufrb' = [s \in BlockSlots |-> <<>>]
        /\ isparsed' = (IF Replaced[g] = NoFile THEN 0 ELSE 1)
        /\ answer' = NoAnswer /\ BCEntry' = BCEntry /\ game' = g /\ g # NoFile
    BY DiscDataAssumption DEF SelectImage
  <1>2. CacheType' /\ FilesInv' /\ AnswerInv'
    BY <1>1 DEF DataInv, DataShape, CacheType, FilesInv, AnswerInv, NoFiles, NoBlocks,
       NoAnswer
  <1>3. \A s \in BlockSlots : BC'[s] = NoBlock /\ bufrb'[s] = <<>>
    BY <1>1 DEF NoBlocks
  <1>4. SlotsInv'
    BY <1>3 DEF SlotsInv
  <1>5. CASE table' = g /\ FS' = SplitsOf(g) /\ op' = BlockRead("header", g, 0, 1)
    <2>1. /\ op' # NoOp /\ op'.kind = "header" /\ op'.block = 0 /\ op'.slot = 1
          /\ op'.len = Units /\ op'.split = 0 /\ op'.off = PartUnit + Physical(g, 0) * Units
      BY <1>1, <1>5 DEF BlockRead, NoOp
    <2>2. ReadType'
      <3>1. game' # NoFile /\ 1 \in BlockSlots
        BY <1>1, SlotInRange DEF DataInv, DataShape, CacheType
      <3> QED
        BY <1>5, <2>1, <3>1 DEF ReadType, Reading, BlockRead
    <2>3. ImageType' /\ ListedInv'
      BY <1>1, <1>5 DEF ImageType, ListedInv
    <2>4. SplitInv'
      BY <2>1 DEF SplitInv
    <2>5. game' \in Games /\ Physical(g, 0) = Stored(g, 0) /\ Physical(g, 0) \in Int
      BY <1>1, FirstBlockPlaces, BlockPlaces
    <2>6. Units \in Nat /\ PartUnit \in Nat
      BY DiscDataAssumption
    <2>7. ReadInv'
      <3>1. bufrb'[1] = <<>> /\ BC'[1] = NoBlock
        BY <1>3, SlotInRange DEF DataInv, DataShape, CacheType
      <3>2. op'.off = First(0)' /\ First(0)' \in Int
        <4> HIDE DEF Physical
        <4> QED
          BY <1>1, <2>1, <2>5, <2>6 DEF First
      <3>3. Filled(<<>>, 0, 0)'
        BY DEF Filled
      <3> HIDE DEF First, Filled, Physical, Stored
      <3>4. op'.off = First(op.block)' + (Units - op'.len) /\ Units - op'.len = 0
        BY <2>1, <2>6, <3>2
      <3>5. Filled(bufrb[op.slot], op.block, Units - op.len)'
        BY <2>1, <3>1, <3>3, <3>4
      <3> QED
        BY <1>1, <2>1, <2>5, <2>6, <3>1, <3>4, <3>5 DEF ReadInv
    <2> QED
      BY <1>2, <1>4, <2>2, <2>3, <2>4, <2>7 DEF DataInv, DataShape, Unspoilt
  <1>6. CASE UNCHANGED <<table, op>> /\ cause' = "failed"
    <2>1. ImageType' /\ op' = NoOp
      BY <1>1, <1>6 DEF ImageType, SelectImage, DataInv, DataShape
    <2> QED
      BY <1>2, <1>6, <2>1 DEF DataInv, DataShape, ReadType, NoOp
  <1> QED
    BY <1>5, <1>6 DEF SelectImage

(* Between reads only the answer and the open files change.                *)
LEMMA ServedKeeps ==
  ASSUME DataInv, op = NoOp, UNCHANGED <<game, table, FS, BC, bufrb, BCEntry, op, cause>>,
         FilesInv', DOMAIN FC' = FileSlots, isparsed' \in {0, 1, 2},
         cause = "none" => AnswerInv'
  PROVE  DataInv'
  <1>1. DataShape'
    BY DEF DataInv, DataShape, ImageType, CacheType, ReadType, Reading
  <1>2. ASSUME cause = "none" PROVE ListedInv' /\ SlotsInv' /\ ReadInv' /\ SplitInv'
    <2>1. SlotsInv /\ ListedInv
      BY <1>2 DEF DataInv, Unspoilt
    <2> QED
      BY <2>1 DEF ListedInv, SlotsInv, ReadInv, SplitInv
  <1> QED
    BY <1>1, <1>2 DEF DataInv, Unspoilt

LEMMA ReplacedKeeps ==
  ASSUME DataInv, NEW b \in Nat, ReadReplaced(b)
  PROVE  DataInv'
  <1>1. FilesInv /\ DOMAIN FC = FileSlots
    BY DEF DataInv, DataShape, CacheType
  <1> DEFINE f == [g |-> "custom", from |-> Replaced[game].at, to |-> Replaced[game].at + Replaced[game].size]
  <1>2. /\ op = NoOp /\ FC' = [FC EXCEPT ![NextFile] = f] /\ f.g = "custom" /\ isparsed' = 2
        /\ UNCHANGED <<game, table, FS, BC, bufrb, BCEntry, op, cause>>
    BY DEF ReadReplaced
  <1>3. AnswerInv'
    BY DEF ReadReplaced, AnswerInv
  <1> HIDE DEF f
  <1>4. FilesInv' /\ DOMAIN FC' = FileSlots
    BY <1>1, <1>2, FilesKeep
  <1> QED
    BY <1>2, <1>3, <1>4, ServedKeeps

LEMMA CachedKeeps ==
  ASSUME DataInv, NEW b \in Nat, ReadCachedBlock(b)
  PROVE  DataInv'
  <1> DEFINE s == CHOOSE x \in Holding(b) : \A y \in Holding(b) : y <= x
  <1>1. /\ op = NoOp /\ UNCHANGED <<game, table, FS, BC, bufrb, BCEntry, op, cause>> /\ Looked(b)
        /\ answer' = [want |-> Row(game, Stored(game, b)), got |-> bufrb[s]]
    BY DEF ReadCachedBlock
  <1>2. s \in Holding(b)
    BY LastHolding DEF ReadCachedBlock
  <1> HIDE DEF s
  <1>3. s \in BlockSlots /\ BC[s] = b /\ b # NoBlock
    BY <1>2 DEF Holding, NoBlock
  <1>4. ASSUME cause = "none" PROVE AnswerInv'
    <2>1. SlotsInv
      BY <1>4 DEF DataInv, Unspoilt
    <2>2. bufrb[s] = Row(game, Stored(game, b))
      BY <1>1, <1>3, <2>1 DEF SlotsInv
    <2> QED
      BY <1>1, <2>2 DEF AnswerInv
  <1>5. FilesInv' /\ DOMAIN FC' = FileSlots /\ isparsed' \in {0, 1, 2}
    BY <1>1, LookedKeeps
  <1> QED
    BY <1>1, <1>4, <1>5, ServedKeeps

(* A read begins with an empty slot.                                       *)
LEMMA BeginKeeps ==
  ASSUME DataInv, op = NoOp, game # NoFile,
         NEW kind \in {"low", "header"}, NEW b \in Nat, NEW s \in BlockSlots,
         op' = BlockRead(kind, table, b, s), bufrb' = [bufrb EXCEPT ![s] = <<>>], answer' = NoAnswer,
         cause' = "none" =>
           /\ cause = "none" /\ Physical(game, b) = Stored(game, b)
           /\ kind = "header" => b = 0 /\ s = 1 /\ BC[1] \in {NoBlock, 0},
         FilesInv', DOMAIN FC' = FileSlots, isparsed' \in {0, 1, 2},
         UNCHANGED <<game, table, FS, BC, BCEntry>>
  PROVE  DataInv'
  <1>1. /\ op' # NoOp /\ op'.kind = kind /\ op'.block = b /\ op'.slot = s
        /\ op'.len = Units /\ op'.split = 0
        /\ table = game => op'.off = First(b)
    BY DEF BlockRead, NoOp, First
  <1>2. DOMAIN bufrb' = BlockSlots /\ bufrb'[s] = <<>> /\ \A x \in BlockSlots : x # s => bufrb'[x] = bufrb[x]
    BY DEF DataInv, DataShape, CacheType
  <1>3. ReadType'
    BY <1>1 DEF ReadType, Reading, BlockRead
  <1>4. DataShape'
    BY <1>1, <1>2, <1>3 DEF DataInv, DataShape, ImageType, CacheType
  <1>5. ASSUME cause' = "none" PROVE SlotsInv' /\ ListedInv' /\ table = game
    <2>1. SlotsInv /\ ListedInv
      BY <1>5 DEF DataInv, Unspoilt
    <2> QED
      BY <1>1, <1>2, <2>1 DEF SlotsInv, ListedInv
  <1>6. ASSUME cause' = "none" PROVE ReadInv'
    <2>1. Units \in Nat /\ First(b) \in Int /\ First(b)' = First(b)
      BY FirstIsInt, DiscDataAssumption DEF DataInv, DataShape, ImageType, First
    <2> HIDE DEF First, Physical, Stored
    <2>2. Units - op'.len = 0 /\ op'.off = First(op.block)' + (Units - op'.len)
      BY <1>1, <1>5, <1>6, <2>1
    <2>3. Filled(<<>>, b, 0)'
      BY DEF Filled
    <2>4. Filled(bufrb[op.slot], op.block, Units - op.len)'
      BY <1>1, <1>2, <2>2, <2>3
    <2> QED
      BY <1>1, <1>6, <2>1, <2>2, <2>4 DEF ReadInv
  <1>7. SplitInv' /\ AnswerInv'
    BY <1>1 DEF SplitInv, AnswerInv, NoAnswer
  <1> QED
    BY <1>4, <1>5, <1>6, <1>7 DEF DataInv, Unspoilt

LEMMA BlockKeeps ==
  ASSUME DataInv, NEW b \in Nat, ReadBlock(b)
  PROVE  DataInv'
  <1>1. /\ op = NoOp /\ game # NoFile /\ answer' = NoAnswer /\ Looked(b)
        /\ op' = BlockRead("low", table, b, Slot(BCEntry, BlockMax))
        /\ bufrb' = [bufrb EXCEPT ![Slot(BCEntry, BlockMax)] = <<>>]
        /\ cause' = After("hole", table = game /\ Physical(game, b) # Stored(game, b))
        /\ UNCHANGED <<game, table, FS, BC, BCEntry>>
    BY DEF ReadBlock
  <1>2. Slot(BCEntry, BlockMax) \in BlockSlots
    BY SlotInRange DEF DataInv, DataShape, CacheType
  <1>3. cause = "none" => table = game
    BY <1>1 DEF DataInv, Unspoilt, ListedInv
  <1>4. cause' = "none" => cause = "none" /\ Physical(game, b) = Stored(game, b)
    BY <1>1, <1>3 DEF After
  <1>5. FilesInv' /\ DOMAIN FC' = FileSlots /\ isparsed' \in {0, 1, 2}
    BY <1>1, LookedKeeps
  <1> QED
    BY <1>1, <1>2, <1>4, <1>5, BeginKeeps

LEMMA EncryptedKeeps ==
  ASSUME DataInv, ReadEncrypted(0)
  PROVE  DataInv'
  <1>1. /\ op = NoOp /\ game # NoFile /\ answer' = NoAnswer
        /\ op' = BlockRead("header", table, 0, 1) /\ bufrb' = [bufrb EXCEPT ![1] = <<>>]
        /\ cause' = After("slot 0", BC[1] \notin {NoBlock, 0})
        /\ UNCHANGED <<game, table, FS, BC, BCEntry, FC, isparsed>>
    BY DEF ReadEncrypted, KeepsNumber
  <1>2. 1 \in BlockSlots /\ Physical(game, 0) = Stored(game, 0)
    BY <1>1, SlotInRange, FirstBlockPlaces DEF DataInv, DataShape, CacheType, ImageType
  <1>3. cause' = "none" => cause = "none" /\ BC[1] \in {NoBlock, 0}
    BY <1>1 DEF After
  <1>4. FilesInv' /\ DOMAIN FC' = FileSlots /\ isparsed' \in {0, 1, 2}
    BY <1>1 DEF DataInv, DataShape, CacheType, ImageType, FilesInv
  <1> QED
    BY <1>1, <1>2, <1>3, <1>4, BeginKeeps

-----------------------------------------------------------------------------
(* Which split file the loop is in is all that changes.                    *)
LEMMA EnterKeeps ==
  ASSUME DataInv, EnterSplit
  PROVE  DataInv'
  <1>1. PICK i \in Matches(op.off) : op' = [op EXCEPT !.split = i, !.next = 1, !.did = FALSE]
    BY DEF EnterSplit
  <1>2. /\ op.len > 0 /\ op.split = 0
        /\ UNCHANGED <<game, table, FS, FC, FCEntry, BC, bufrb, BCEntry, isparsed, answer, cause>>
    BY DEF EnterSplit
  <1>3. op # NoOp
    BY <1>2 DEF NoOp
  <1>4. /\ Reading
        /\ op = [kind |-> op.kind, block |-> op.block, slot |-> op.slot, off |-> op.off, len |-> op.len,
                 next |-> op.next, split |-> op.split, did |-> op.did]
    BY <1>3 DEF DataInv, DataShape, ReadType
  <1>5. /\ op'.kind = op.kind /\ op'.block = op.block /\ op'.slot = op.slot /\ op'.off = op.off
        /\ op'.len = op.len /\ op'.split = i /\ op'.did = FALSE /\ op'.next = 1
        /\ op' = [kind |-> op'.kind, block |-> op'.block, slot |-> op'.slot, off |-> op'.off,
                  len |-> op'.len, next |-> op'.next, split |-> op'.split, did |-> op'.did]
    BY <1>1, <1>4
  <1>6. op' # NoOp
    BY <1>4, <1>5 DEF NoOp, Reading
  <1>7. DataShape'
    <2>1. i \in DOMAIN FS
      BY DEF Matches
    <2>2. op'.did \in BOOLEAN
      BY <1>5
    <2>3. ReadType'
      BY <1>2, <1>4, <1>5, <2>1, <2>2 DEF ReadType, Reading
    <2> QED
      BY <1>2, <1>3, <1>5, <2>3 DEF DataInv, DataShape, ImageType, CacheType, FilesInv
  <1>8. ASSUME cause = "none" PROVE Unspoilt'
    <2>1. Unspoilt
      BY <1>8 DEF DataInv
    <2>2. ListedInv' /\ SlotsInv' /\ ReadInv' /\ AnswerInv'
      BY <1>2, <1>3, <1>5, <1>6, <2>1 DEF Unspoilt, ListedInv, SlotsInv, ReadInv, AnswerInv,
         Filled, First
    <2>3. /\ i \in DOMAIN FS /\ FS[i].from < op.off /\ op.off < FS[i].to
      BY <1>1 DEF Matches
    <2>4. op.off \in Int /\ game \in Games /\ FS = SplitsOf(game)
      <3>1. game \in Games /\ FS = SplitsOf(game) /\ op.block \in Int
        BY <1>4, <2>1 DEF DataInv, DataShape, ImageType, Reading, Unspoilt, ListedInv
      <3>2. First(op.block) \in Int /\ Units \in Nat
        BY <3>1, FirstIsInt, DiscDataAssumption
      <3>3. op.len \in 0 .. Units /\ op.off = First(op.block) + (Units - op.len)
        BY <1>3, <2>1 DEF Unspoilt, ReadInv
      <3> HIDE DEF First
      <3> QED
        BY <3>1, <3>2, <3>3
    <2>5. /\ \A j \in DOMAIN FS : j \in Nat /\ FS[j].from \in Nat /\ FS[j].to \in Nat
          /\ \A j, k \in DOMAIN FS : j < k => FS[j].to <= FS[k].from
      BY <2>4, SplitsInOrder
    <2>6. ASSUME NEW m \in DOMAIN FS, Covers(FS[m], op.off) PROVE m = i
      <3>1. ~(m < i) /\ ~(i < m)
        BY <2>3, <2>4, <2>5, <2>6 DEF Covers
      <3> QED
        BY <2>3, <2>5, <3>1
    <2>7. SplitInv'
      <3>1. Covers(FS[i], op.off) /\ FS' = FS
        BY <1>2, <2>3, <2>4, <2>5 DEF Covers
      <3>2. \A m \in DOMAIN FS : Covers(FS[m], op.off) =>
              op.off - FS[m].from <= FS[i].to - FS[i].from
        BY <2>3, <2>4, <2>5, <2>6 DEF Covers
      <3> HIDE DEF Covers
      <3> QED
        BY <1>5, <3>1, <3>2, Zenon DEF SplitInv
    <2> QED
      BY <2>2, <2>7 DEF Unspoilt
  <1> QED
    BY <1>2, <1>7, <1>8 DEF DataInv

LEMMA LeaveKeeps ==
  ASSUME DataInv, LeaveSplit
  PROVE  DataInv'
  <1>2. /\ op.len > 0 /\ op.split > 0 /\ op' = [op EXCEPT !.split = 0]
        /\ UNCHANGED <<game, table, FS, FC, FCEntry, BC, bufrb, BCEntry, isparsed, answer, cause>>
    BY DEF LeaveSplit
  <1>3. op # NoOp
    BY <1>2 DEF NoOp
  <1>4. /\ Reading
        /\ op = [kind |-> op.kind, block |-> op.block, slot |-> op.slot, off |-> op.off, len |-> op.len,
                 next |-> op.next, split |-> op.split, did |-> op.did]
    BY <1>3 DEF DataInv, DataShape, ReadType
  <1>5. /\ op'.kind = op.kind /\ op'.block = op.block /\ op'.slot = op.slot /\ op'.off = op.off
        /\ op'.len = op.len /\ op'.split = 0 /\ op'.did = op.did /\ op'.next = op.next
        /\ op' = [kind |-> op'.kind, block |-> op'.block, slot |-> op'.slot, off |-> op'.off,
                  len |-> op'.len, next |-> op'.next, split |-> op'.split, did |-> op'.did]
    BY <1>2, <1>4
  <1>6. op' # NoOp
    BY <1>4, <1>5 DEF NoOp, Reading
  <1>7. DataShape'
    BY <1>2, <1>3, <1>4, <1>5, <1>6 DEF DataInv, DataShape, ImageType, CacheType,
       ReadType, Reading, FilesInv
  <1>8. ASSUME cause = "none" PROVE Unspoilt'
    <2>1. Unspoilt
      BY <1>8 DEF DataInv
    <2> QED
      BY <1>2, <1>3, <1>5, <1>6, <2>1 DEF Unspoilt, ListedInv, SlotsInv, ReadInv,
         SplitInv, AnswerInv, Filled, First
  <1> QED
    BY <1>2, <1>7, <1>8 DEF DataInv

(* What ReadSize cuts off: never more than is asked for and, where the     *)
(* loop may be, never less than nothing.                                   *)
LEMMA ReadSizeBounds ==
  ASSUME NEW f, NEW i, NEW off \in Int, NEW len \in Nat, f.from \in Nat, f.to \in Nat,
         FS[i].from \in Nat, FS[i].to \in Nat, off - f.from <= FS[i].to - FS[i].from
  PROVE  /\ ReadSize(f, i, off, len) \in 0 .. len
         /\ \/ ReadSize(f, i, off, len) = len
            \/ off + ReadSize(f, i, off, len) = f.from + (FS[i].to - FS[i].from)
  BY DEF ReadSize

LEMMA AdvanceKeeps ==
  ASSUME DataInv, op # NoOp, op.len > 0, op.split # 0, NEW f, NEW next \in Nat \ {0}, Advance(f, op.split, next),
         f.g = "custom" \/ \E m \in DOMAIN FS : f = FS[m],
         cause = "none" /\ f.g # "custom" => Covers(f, op.off),
         FilesInv', DOMAIN FC' = FileSlots, UNCHANGED <<game, table, FS, BC, BCEntry, isparsed, answer>>
  PROVE  DataInv'
  <1> DEFINE n == ReadSize(f, op.split, op.off, op.len)
  <1>1. /\ bufrb' = [bufrb EXCEPT ![op.slot] = @ \o Got(f, op.off, n)]
        /\ op' = [op EXCEPT !.off = @ + n, !.len = @ - n, !.next = next, !.split = op.split, !.did = TRUE]
        /\ cause' = IF f.g = "custom" THEN After("custom", TRUE) ELSE After("border", op.off + n > f.to)
    BY DEF Advance
  <1> HIDE DEF n
  <1>2. /\ Reading
        /\ op = [kind |-> op.kind, block |-> op.block, slot |-> op.slot, off |-> op.off, len |-> op.len,
                 next |-> op.next, split |-> op.split, did |-> op.did]
    BY DEF DataInv, DataShape, ReadType
  <1>3. /\ op'.kind = op.kind /\ op'.block = op.block /\ op'.slot = op.slot /\ op'.off = op.off + n
        /\ op'.len = op.len - n /\ op'.split = op.split /\ op'.did = TRUE /\ op'.next = next
        /\ op' = [kind |-> op'.kind, block |-> op'.block, slot |-> op'.slot, off |-> op'.off,
                  len |-> op'.len, next |-> op'.next, split |-> op'.split, did |-> op'.did]
    BY <1>1, <1>2
  <1>4. op' # NoOp
    BY <1>2, <1>3 DEF NoOp, Reading
  <1>5. /\ DOMAIN bufrb' = BlockSlots /\ bufrb'[op.slot] = bufrb[op.slot] \o Got(f, op.off, n)
        /\ \A s \in BlockSlots : s # op.slot => bufrb'[s] = bufrb[s]
    BY <1>1, <1>2 DEF DataInv, DataShape, CacheType, Reading
  <1>6. DataShape'
    BY <1>2, <1>3, <1>4, <1>5 DEF DataInv, DataShape, ImageType, CacheType, ReadType,
       Reading
  <1>7. ASSUME cause' = "none" PROVE Unspoilt'
    <2>1. cause = "none" /\ f.g # "custom" /\ ~(op.off + n > f.to)
      BY <1>1, <1>7 DEF After
    <2>2. Unspoilt /\ Covers(f, op.off)
      BY <2>1 DEF DataInv
    <2>3. PICK m \in DOMAIN FS : f = FS[m]
      BY <2>1
    <2>4. game \in Games /\ FS = SplitsOf(game) /\ op.block \in Int
      BY <1>2, <2>2 DEF DataInv, DataShape, ImageType, Reading, Unspoilt, ListedInv
    <2>5. /\ \A j \in DOMAIN FS : /\ j \in Nat /\ FS[j].g = game
                                  /\ FS[j].from \in Nat /\ FS[j].to \in Nat /\ FS[j].from < FS[j].to
          /\ \A j, k \in DOMAIN FS : j < k => FS[j].to <= FS[k].from
      BY <2>4, SplitsInOrder
    <2>6. First(op.block) \in Int /\ Units \in Nat
      BY <2>4, FirstIsInt, DiscDataAssumption
    <2>7. /\ op.len \in 0 .. Units /\ op.off = First(op.block) + (Units - op.len)
          /\ Filled(bufrb[op.slot], op.block, Units - op.len)
      BY <2>2 DEF Unspoilt, ReadInv
    <2> HIDE DEF First, Filled
    <2>8. op.off \in Int /\ op.len \in Nat /\ Units - op.len \in Nat
      BY <2>6, <2>7
    <2> DEFINE i == op.split
               long == FS[i].to - FS[i].from
    <2>9. i \in DOMAIN FS /\ op.off - f.from <= long
      BY <1>2, <2>2, <2>3 DEF Unspoilt, SplitInv, Reading
    <2>10. n \in 0 .. op.len /\ (n = op.len \/ op.off + n = f.from + long)
      <3>1. /\ f.from \in Nat /\ f.to \in Nat /\ FS[i].from \in Nat /\ FS[i].to \in Nat
            /\ op.off - f.from <= FS[i].to - FS[i].from
        BY <2>3, <2>5, <2>9
      <3> QED
        BY <2>8, <3>1, ReadSizeBounds DEF n
    <2>11. op.off + n <= f.to /\ f.g = game /\ f.from \in Nat /\ f.to \in Nat
      BY <2>1, <2>3, <2>5, <2>8, <2>10
    <2>12. ReadInv'
      <3>1. Filled(bufrb[op.slot] \o Got(f, op.off, n), op.block, (Units - op.len) + n)
        BY <2>4, <2>7, <2>8, <2>10, <2>11, FilledOn
      <3>2. (Units - op.len) + n = Units - op'.len /\ op'.len \in 0 .. Units
        BY <1>3, <2>6, <2>7, <2>10
      <3>3. Filled(bufrb'[op'.slot], op'.block, Units - op'.len)
        BY <1>3, <1>5, <3>1, <3>2
      <3>4. Filled(bufrb[op.slot], op.block, Units - op.len)'
        BY <3>3 DEF Filled, First
      <3>5. op'.off = First(op.block)' + (Units - op'.len)
        <4>1. First(op.block)' = First(op.block)
          BY <1>3 DEF First
        <4> QED
          BY <1>3, <2>6, <2>7, <2>10, <4>1
      <3> QED
        BY <1>3, <2>2, <3>2, <3>4, <3>5 DEF Unspoilt, ReadInv
    <2>13. SlotsInv'
      BY <1>2, <1>3, <1>4, <1>5, <2>2 DEF Unspoilt, SlotsInv, Reading
    <2>14. SplitInv'
      <3>1. ASSUME NEW k \in DOMAIN FS, Covers(FS[k], op.off + n), op.len - n > 0
            PROVE  op.off + n - FS[k].from <= long
        <4>1. op.off + n = f.from + long /\ long \in Nat
          BY <2>5, <2>8, <2>9, <2>10, <3>1
        <4> HIDE DEF long
        <4>2. CASE k = m
          BY <2>3, <2>8, <2>10, <2>11, <4>1, <4>2
        <4>3. CASE k < m
          BY <2>2, <2>3, <2>5, <2>8, <2>10, <3>1, <4>3 DEF Covers
        <4>4. CASE m < k
          BY <2>3, <2>5, <2>8, <2>10, <2>11, <3>1, <4>1, <4>4 DEF Covers
        <4> QED
          BY <2>5, <4>2, <4>3, <4>4
      <3>2. /\ op'.split = i /\ op'.did /\ op'.off = op.off + n /\ op'.len = op.len - n
            /\ FS' = FS
        BY <1>3
      <3> HIDE DEF i
      <3>3. ASSUME NEW k \in DOMAIN FS', Covers(FS'[k], op'.off), op'.len > 0
            PROVE  op'.off - FS'[k].from <= FS'[op'.split].to - FS'[op'.split].from
        <4>1. k \in DOMAIN FS /\ Covers(FS[k], op.off + n) /\ op.len - n > 0
          BY <3>2, <3>3
        <4>2. op.off + n - FS[k].from <= long
          BY <3>1, <4>1
        <4>3. /\ FS[k].from \in Int /\ FS[i].to \in Int /\ FS[i].from \in Int
              /\ op.off \in Int /\ n \in Int
          BY <2>5, <2>8, <2>9, <2>10, <4>1
        <4> QED
          BY <3>2, <4>2, <4>3 DEF long
      <3> HIDE DEF Covers, long
      <3> QED
        BY <3>2, <3>3, Zenon DEF SplitInv
    <2> QED
      BY <2>2, <2>12, <2>13, <2>14 DEF Unspoilt, ListedInv, AnswerInv
  <1> QED
    BY <1>6, <1>7 DEF DataInv

LEMMA ThroughCacheKeeps ==
  ASSUME DataInv, ReadThroughCache
  PROVE  DataInv'
  <1> DEFINE js == CachedAt(op.off, op.next)
             j  == CHOOSE x \in js : \A y \in js : x <= y
  <1>1. /\ op.len > 0 /\ op.split > 0 /\ js # {} /\ Advance(FC[j], op.split, j + 1)
        /\ UNCHANGED <<game, table, FS, FC, FCEntry, BC, BCEntry, isparsed, answer>>
    BY DEF ReadThroughCache
  <1>2. op # NoOp /\ op.split # 0
    BY <1>1 DEF NoOp
  <1>3. js \subseteq FileSlots /\ js \subseteq Nat
    <2>1. op.next \in Nat \ {0} /\ FileMax \in Nat
      BY <1>2, DiscDataAssumption DEF DataInv, DataShape, ReadType, Reading
    <2> QED
      BY <2>1 DEF CachedAt, FileSlots
  <1>4. j \in js
    BY <1>1, <1>3, FirstCached
  <1>5. /\ j \in FileSlots /\ j + 1 \in Nat \ {0}
        /\ FC[j] # NoFile /\ Covers(FC[j], op.off)
    BY <1>3, <1>4 DEF CachedAt, Covers
  <1> HIDE DEF j, js
  <1>6. FC[j].g = "custom" \/ \E m \in DOMAIN FS : FC[j] = FS[m]
    BY <1>5 DEF DataInv, DataShape, FilesInv
  <1>7. FilesInv' /\ DOMAIN FC' = FileSlots
    BY <1>1 DEF DataInv, DataShape, CacheType, FilesInv
  <1> QED
    BY <1>1, <1>2, <1>5, <1>6, <1>7, AdvanceKeeps

LEMMA OpenKeeps ==
  ASSUME DataInv, OpenSplit
  PROVE  DataInv'
  <1> DEFINE f == FS[op.split]
  <1>1. /\ op.len > 0 /\ op.split > 0 /\ ~op.did
        /\ FC' = [FC EXCEPT ![NextFile] = f] /\ Advance(f, op.split, FileMax + 1)
        /\ UNCHANGED <<game, table, FS, BC, BCEntry, isparsed, answer>>
    BY DEF OpenSplit
  <1>2. op # NoOp /\ op.split # 0
    BY <1>1 DEF NoOp
  <1>3. op.split \in DOMAIN FS /\ game # NoFile /\ FileMax + 1 \in Nat \ {0}
    BY <1>2, DiscDataAssumption DEF DataInv, DataShape, ReadType, Reading
  <1>4. \E m \in DOMAIN FS : f = FS[m]
    BY <1>3
  <1>5. FilesInv' /\ DOMAIN FC' = FileSlots
    <2>1. FilesInv /\ DOMAIN FC = FileSlots
      BY DEF DataInv, DataShape, CacheType
    <2> HIDE DEF f
    <2> QED
      BY <1>1, <1>3, <1>4, <2>1, FilesKeep
  <1>6. cause = "none" => Covers(f, op.off)
    BY <1>1, <1>2 DEF DataInv, Unspoilt, SplitInv
  <1> HIDE DEF f
  <1> QED
    BY <1>1, <1>2, <1>3, <1>4, <1>5, <1>6, AdvanceKeeps

(* A block that has been read is entered in its slot.                      *)
LEMMA FinishKeeps ==
  ASSUME DataInv, op # NoOp, Finish, UNCHANGED <<game, table, FS, isparsed>>,
         FilesInv', DOMAIN FC' = FileSlots, DOMAIN bufrb' = BlockSlots,
         cause' = "none" => cause = "none" /\ op.len = 0 /\ bufrb' = bufrb
  PROVE  DataInv'
  <1>1. /\ Reading /\ op' = NoOp
        /\ DOMAIN BC = BlockSlots /\ BCEntry \in Nat \ {0}
    BY DEF DataInv, DataShape, CacheType, ReadType, Finish
  <1>2. /\ DOMAIN BC' = BlockSlots /\ BCEntry' \in Nat \ {0}
        /\ \A s \in BlockSlots : BC'[s] = BC[s] \/ (op.kind = "low" /\ s = op.slot /\ BC'[s] = op.block)
        /\ op.kind = "low" => BC'[op.slot] = op.block
    <2>1. op.slot + 1 \in Nat \ {0}
      BY <1>1, DiscDataAssumption DEF Reading, BlockSlots
    <2>2. CASE op.kind = "low"
      BY <1>1, <2>1, <2>2 DEF Finish, Reading
    <2>3. CASE op.kind # "low"
      BY <1>1, <2>3 DEF Finish
    <2> QED
      BY <2>2, <2>3
  <1>3. DataShape'
    <2>1. ReadType'
      BY <1>1 DEF ReadType, NoOp
    <2> QED
      BY <1>1, <1>2, <2>1 DEF DataInv, DataShape, ImageType, CacheType
  <1>4. ASSUME cause' = "none" PROVE Unspoilt'
    <2>1. Unspoilt /\ op.len = 0 /\ bufrb' = bufrb
      BY <1>4 DEF DataInv
    <2>2. bufrb[op.slot] = Row(game, Stored(game, op.block))
      <3>1. Units - op.len = Units
        BY <2>1, DiscDataAssumption
      <3>2. Filled(bufrb[op.slot], op.block, Units) /\ Physical(game, op.block) = Stored(game, op.block)
        BY <2>1, <3>1 DEF Unspoilt, ReadInv
      <3>3. game \in Games /\ op.block \in Int
        BY <1>1 DEF DataInv, DataShape, ImageType, Reading
      <3> QED
        BY <3>2, <3>3, FilledIsRow
    <2>3. SlotsInv'
      <3>1. ASSUME NEW s \in BlockSlots, BC'[s] # NoBlock
            PROVE  bufrb[s] = Row(game, Stored(game, BC'[s]))
        <4>1. CASE s # op.slot
          BY <1>2, <2>1, <3>1, <4>1 DEF Unspoilt, SlotsInv
        <4>2. CASE s = op.slot /\ op.kind = "low"
          BY <1>2, <2>2, <4>2
        <4>3. CASE s = op.slot /\ op.kind = "header"
          <5>1. op.block = 0 /\ BC[s] \in {NoBlock, 0}
            BY <2>1, <4>3 DEF Unspoilt, ReadInv
          <5> QED
            BY <1>2, <2>2, <3>1, <4>3, <5>1
        <4> QED
          BY <1>1, <4>1, <4>2, <4>3 DEF Reading
      <3> QED
        BY <2>1, <3>1 DEF SlotsInv
    <2>4. AnswerInv'
      <3>1. CASE op.kind = "low"
        <4>1. answer' = [want |-> Row(game, Stored(game, op.block)), got |-> bufrb'[op.slot]]
          BY <3>1 DEF Finish
        <4> QED
          BY <2>1, <2>2, <4>1 DEF AnswerInv
      <3>2. CASE op.kind # "low"
        BY <2>1, <3>2 DEF Finish, Unspoilt, AnswerInv
      <3> QED
        BY <3>1, <3>2
    <2> QED
      BY <1>1, <2>1, <2>3, <2>4 DEF Unspoilt, ListedInv, ReadInv, SplitInv
  <1> QED
    BY <1>3, <1>4 DEF DataInv

LEMMA DoneKeeps ==
  ASSUME DataInv, ReadDone
  PROVE  DataInv'
  <1>1. /\ op # NoOp /\ op.len = 0 /\ bufrb' = bufrb /\ Finish
        /\ UNCHANGED <<game, table, FS, FC, FCEntry, isparsed, cause>>
    BY DEF ReadDone
  <1>2. FilesInv' /\ DOMAIN FC' = FileSlots /\ DOMAIN bufrb' = BlockSlots
    BY <1>1 DEF DataInv, DataShape, CacheType, FilesInv
  <1> QED
    BY <1>1, <1>2, FinishKeeps

LEMMA OpenFailsKeeps ==
  ASSUME DataInv, OpenFails
  PROVE  DataInv'
  <1>1. /\ op.len > 0 /\ FC' = [FC EXCEPT ![NextFile] = NoFile] /\ Finish
        /\ cause' # "none" /\ UNCHANGED <<game, table, FS, isparsed>>
        /\ DOMAIN bufrb' = DOMAIN bufrb
    BY DEF OpenFails, After
  <1>2. op # NoOp
    BY <1>1 DEF NoOp
  <1>3. FilesInv /\ DOMAIN FC = FileSlots /\ DOMAIN bufrb = BlockSlots
    BY DEF DataInv, DataShape, CacheType
  <1>4. /\ DOMAIN FC' = FileSlots
        /\ \A j \in FileSlots : FC'[j] = NoFile \/ FC'[j] = FC[j]
    BY <1>1, <1>3
  <1>5. FilesInv'
    BY <1>1, <1>3, <1>4 DEF FilesInv
  <1> QED
    BY <1>1, <1>2, <1>3, <1>4, <1>5, FinishKeeps

(* Without split files no image was opened, so a cause has occurred.       *)
LEMMA WithoutSplitsKeeps ==
  ASSUME DataInv, ReadWithoutSplits
  PROVE  DataInv'
  <1>1. /\ op.len > 0 /\ FS = <<>> /\ Finish
        /\ UNCHANGED <<game, table, FS, FC, isparsed, cause>>
        /\ DOMAIN bufrb' = DOMAIN bufrb
    BY DEF ReadWithoutSplits
  <1>2. op # NoOp
    BY <1>1 DEF NoOp
  <1>3. /\ FilesInv' /\ DOMAIN FC' = FileSlots /\ DOMAIN bufrb' = BlockSlots
        /\ game \in Games
    BY <1>1, <1>2 DEF DataInv, DataShape, CacheType, FilesInv, ImageType, ReadType, Reading
  <1>4. cause # "none"
    <2> SUFFICES ASSUME cause = "none" PROVE FALSE
      OBVIOUS
    <2>1. FS = SplitsOf(game) /\ game # NoFile
      BY <1>3, DiscDataAssumption DEF DataInv, Unspoilt, ListedInv
    <2>2. Offsets[game] \in Seq(Nat \ {0}) /\ Offsets[game] # <<>>
      BY <1>3, DiscDataAssumption
    <2>3. 1 \in DOMAIN Offsets[game]
      BY <2>2
    <2>4. DOMAIN FS = DOMAIN Offsets[game]
      BY <2>1 DEF SplitsOf
    <2> QED
      BY <1>1, <2>3, <2>4
  <1> QED
    BY <1>1, <1>2, <1>3, <1>4, FinishKeeps

LEMMA DataInitInv ==
  ASSUME DataInit
  PROVE  DataInv
  BY DEF DataInit, DataInv, DataShape, ImageType, CacheType, ReadType, FilesInv,
     Unspoilt, ListedInv, SlotsInv, ReadInv, SplitInv, AnswerInv, NoOp, NoAnswer

LEMMA DataNextInv ==
  ASSUME DataInv, [DataNext]_dataVars
  PROVE  DataInv'
  <1>1. ASSUME UNCHANGED dataVars PROVE DataInv'
    BY <1>1 DEF dataVars, DataInv, DataShape, ImageType, CacheType, ReadType, Reading,
       FilesInv, Unspoilt, ListedInv, SlotsInv, ReadInv, SplitInv, AnswerInv, Filled, First
  <1>2. ASSUME NEW g \in Games, SelectImage(g) PROVE DataInv'
    BY <1>2, SelectKeeps
  <1>3. ASSUME NEW b \in BlocksOf(game), ReadReplaced(b) \/ ReadCachedBlock(b) \/ ReadBlock(b)
        PROVE  DataInv'
    <2>1. b \in Nat
      BY DEF BlocksOf
    <2> QED
      BY <1>3, <2>1, ReplacedKeeps, CachedKeeps, BlockKeeps
  <1>4. ASSUME ReadStep PROVE DataInv'
    BY <1>4, EnterKeeps, ThroughCacheKeeps, OpenKeeps, LeaveKeeps, DoneKeeps,
       OpenFailsKeeps, WithoutSplitsKeeps DEF ReadStep
  <1> QED
    BY <1>1, <1>2, <1>3, <1>4, EncryptedKeeps DEF DataNext, Spin

(* Every block that is delivered is the one asked for, of the image        *)
(* selected, whatever the sizes of the split files, the holes and the      *)
(* caches, as long as none of the five causes has occurred since the       *)
(* selection.                                                              *)
THEOREM BlocksAreRight == DataSpec => []ReadsRight
  <1>1. DataInv => ReadsRight
    BY DEF DataInv, Unspoilt, AnswerInv, ReadsRight
  <1> QED
    BY <1>1, DataInitInv, DataNextInv, PTL DEF DataSpec
=============================================================================
