---------------------------- MODULE SessionsProofs ----------------------------
(***************************************************************************)
(* What order alone tells the two ends of an IPC connection, for any       *)
(* commands and any number of requests, timeouts and log entries; and which *)
(* MACsec sessions the 802.1X plugin keeps.                                *)
(***************************************************************************)
EXTENDS Sessions, Mka, SequenceTheorems, TLAPS

Kinds == {Nothing} \cup {Cmds[c].reply : c \in DOMAIN Cmds}
Frames == [tag : {"log", "data", "error"}, kind : Kinds, for : Nat]
Asked == [tag : {"request"}, id : Nat, cmd : DOMAIN Cmds]

(* The connection is in order: nothing timed out, no frame was refused and  *)
(* the client is still there.                                               *)
InOrder == sound /\ client.pc # "closed"

Logs(stream) == \A i \in 1..Len(stream) : stream[i].tag = "log"

(* What is on its way for a client: nothing; its request; its command in    *)
(* the daemon; its answer, behind log entries; the end of the stream.       *)
NothingSent == c2s = <<>> /\ server.pc # "busy" /\ Logs(s2c)
RequestSent == c2s = <<Request(client.id, client.cmd)>> /\ server.pc = "recv" /\ Logs(s2c)
Carried == /\ c2s = <<>> /\ Logs(s2c)
           /\ server.pc = "busy" /\ server.id = client.id /\ server.cmd = client.cmd
AnswerSent ==
    /\ c2s = <<>> /\ server.pc # "busy" /\ Len(s2c) > 0
    /\ \A i \in 1..(Len(s2c) - 1) : s2c[i].tag = "log"
    /\ s2c[Len(s2c)].tag \in {"data", "error"}
    /\ s2c[Len(s2c)].for = client.id

Step ==
    /\ client.pc = "idle" => NothingSent
    /\ client.pc = "wait" =>
          /\ client.cmd \in DOMAIN Cmds
          /\ RequestSent \/ Carried \/ AnswerSent \/ (NothingSent /\ Closed)

Types ==
    /\ client \in [pc : {"idle", "wait", "closed"}, id : Nat, cmd : DOMAIN Cmds \cup {Nothing}]
    /\ {"pc", "id", "cmd", "logs"} \subseteq DOMAIN server
    /\ server.pc \in {"recv", "busy", "closed"}
    /\ sound \in BOOLEAN

(* The inductive invariant: while the connection is in order exactly one    *)
(* thing is on its way for a client that waits, and nothing for one that    *)
(* does not.                                                                *)
IInv ==
    /\ Types
    /\ InOrder => s2c \in Seq(Frames) /\ Step
    /\ OwnAnswer

LEMMA InitInv == Init => IInv
  <1> SUFFICES ASSUME Init PROVE IInv
    OBVIOUS
  <1> USE DEF Init, Nothing
  <1>1. Types
    BY DEF Types
  <1>2. Frame("log", Nothing, 0) \in Frames
    BY DEF Frame, Frames, Kinds
  <1>3. s2c \in Seq(Frames) /\ Logs(s2c)
    BY <1>2 DEF Logs, Frame
  <1>4. Step
    BY <1>3 DEF Step, NothingSent
  <1>5. OwnAnswer
    BY DEF OwnAnswer
  <1> QED BY <1>1, <1>3, <1>4, <1>5 DEF IInv

(* Reading a log entry leaves the rest of what is on its way.               *)
LEMMA TailLogs ==
  ASSUME NEW s \in Seq(Frames), s # <<>>, Logs(s)
  PROVE  Tail(s) \in Seq(Frames) /\ Logs(Tail(s)) /\ Head(s).tag = "log"
  BY DEF Logs

LEMMA EmptyTail ==
  ASSUME NEW s \in Seq(Frames), Len(s) = 1
  PROVE  Tail(s) = <<>>
  <1>1. s # <<>>
    BY EmptySeq
  <1>2. Tail(s) \in Seq(Frames) /\ Len(Tail(s)) = 0
    BY <1>1, HeadTailProperties
  <1> QED BY <1>2, EmptySeq, Zenon

LEMMA AppendFrame ==
  ASSUME NEW s \in Seq(Frames), NEW f \in Frames, Logs(s)
  PROVE  /\ Append(s, f) \in Seq(Frames) /\ Len(Append(s, f)) > 0
         /\ \A i \in 1..(Len(Append(s, f)) - 1) : Append(s, f)[i].tag = "log"
         /\ Append(s, f)[Len(Append(s, f))] = f
         /\ f.tag = "log" => Logs(Append(s, f))
  BY DEF Logs

LEMMA ClientSendInv ==
  ASSUME IInv, NEW cmd \in DOMAIN Cmds, ClientSend(cmd)
  PROVE  IInv'
  <1> USE DEF IInv
  <1>1. /\ client.pc = "idle" /\ UNCHANGED <<s2c, server, sound>>
        /\ client.id \in Nat
    BY DEF ClientSend, Types
  <1>2. CASE send(cmd)
    <2>1. /\ client' = [pc |-> "wait", id |-> client.id + 1, cmd |-> cmd]
          /\ c2s' = Append(c2s, Request(client.id + 1, cmd)) /\ last' = last
      BY <1>2 DEF ClientSend
    <2>2. Types'
      BY <1>1, <2>1 DEF Types
    <2>3. OwnAnswer'
      BY <1>1, <2>1 DEF OwnAnswer
    <2>4. ASSUME InOrder' PROVE (s2c \in Seq(Frames) /\ Step)'
      <3>1. InOrder /\ NothingSent /\ s2c \in Seq(Frames)
        BY <1>1, <2>4 DEF InOrder, Step
      <3>2. c2s' = <<Request(client.id + 1, cmd)>>
        BY <2>1, <3>1 DEF NothingSent
      <3>3. server.pc = "recv"
        BY <1>2, <3>1 DEF NothingSent, send, Closed, Types
      <3>4. RequestSent'
        BY <1>1, <2>1, <3>1, <3>2, <3>3 DEF RequestSent, NothingSent, Request, Logs
      <3> QED BY <1>1, <2>1, <3>1, <3>4 DEF Step
    <2> QED BY <2>2, <2>3, <2>4
  <1>3. CASE ~send(cmd)
    <2>1. /\ client' = [pc |-> "idle", id |-> client.id + 1, cmd |-> cmd]
          /\ c2s' = c2s
          /\ last' = [id |-> client.id + 1, cmd |-> cmd, res |-> "refused",
                      kind |-> Nothing, for |-> client.id + 1]
      BY <1>3 DEF ClientSend
    <2>2. Types'
      BY <1>1, <2>1 DEF Types
    <2>3. OwnAnswer'
      BY <1>1, <2>1 DEF OwnAnswer
    <2>4. (InOrder => s2c \in Seq(Frames) /\ Step)'
      BY <1>1, <2>1 DEF InOrder, Step, NothingSent, Logs
    <2> QED BY <2>2, <2>3, <2>4
  <1> QED BY <1>2, <1>3

(* recv(): the first error or data it reads is the answer of the request.   *)
LEMMA ClientRecvInv ==
  ASSUME IInv, ClientRecv
  PROVE  IInv'
  <1> USE DEF IInv
  <1> DEFINE frame == Head(s2c)
  <1>1. /\ client.pc = "wait" /\ s2c # <<>>
        /\ UNCHANGED <<c2s, server, sound>>
    BY DEF ClientRecv
  <1>2. InOrder => /\ s2c \in Seq(Frames) /\ client.cmd \in DOMAIN Cmds
                   /\ frame \in Frames
                   /\ \/ /\ frame.tag = "log" /\ Tail(s2c) \in Seq(Frames)
                      \/ /\ AnswerSent /\ frame.tag \in {"data", "error"}
                         /\ frame.for = client.id /\ Tail(s2c) = <<>>
    <2> SUFFICES ASSUME InOrder PROVE
                   /\ s2c \in Seq(Frames) /\ client.cmd \in DOMAIN Cmds
                   /\ frame \in Frames
                   /\ \/ /\ frame.tag = "log" /\ Tail(s2c) \in Seq(Frames)
                      \/ /\ AnswerSent /\ frame.tag \in {"data", "error"}
                         /\ frame.for = client.id /\ Tail(s2c) = <<>>
      OBVIOUS
    <2>1. s2c \in Seq(Frames) /\ frame \in Frames /\ client.cmd \in DOMAIN Cmds
          /\ Tail(s2c) \in Seq(Frames) /\ Len(s2c) \in Nat /\ Len(s2c) > 0
          /\ frame = s2c[1]
      BY <1>1 DEF Step
    <2>2. CASE Logs(s2c)
      BY <2>1, <2>2 DEF Logs
    <2>3. CASE AnswerSent
      <3>1. CASE Len(s2c) = 1
        <4>1. Tail(s2c) = <<>>
          BY <2>1, <3>1, EmptyTail
        <4> QED BY <2>1, <2>3, <3>1, <4>1 DEF AnswerSent
      <3>2. CASE Len(s2c) # 1
        <4>1. 1 \in 1..(Len(s2c) - 1)
          <5> DEFINE n == Len(s2c)
          <5>1. n \in Nat /\ n > 0 /\ n # 1
            BY <2>1, <3>2
          <5> HIDE DEF n
          <5>2. 1 \in 1..(n - 1)
            BY <5>1
          <5> QED BY <5>2 DEF n
        <4> QED BY <2>1, <2>3, <4>1 DEF AnswerSent
      <3> QED BY <3>1, <3>2
    <2> QED BY <1>1, <2>2, <2>3, <2>1 DEF Step, RequestSent, Carried, NothingSent
  <1>3. CASE frame.tag = "log"
    <2>1. s2c' = Tail(s2c) /\ UNCHANGED <<client, last>>
      BY <1>3 DEF ClientRecv
    <2>2. Types' /\ OwnAnswer'
      BY <1>1, <2>1 DEF Types, OwnAnswer
    <2>3. ASSUME InOrder' PROVE (s2c \in Seq(Frames) /\ Step)'
      <3>1. InOrder /\ s2c \in Seq(Frames) /\ s2c' \in Seq(Frames)
        BY <1>1, <1>2, <2>1, <2>3 DEF InOrder, Frames
      <3>2. Logs(s2c) => Logs(s2c')
        BY <1>1, <2>1, <3>1, TailLogs
      <3>3. AnswerSent => AnswerSent'
        <4> SUFFICES ASSUME AnswerSent PROVE AnswerSent'
          OBVIOUS
        <4>1. Len(s2c) > 1
          BY <1>3, <3>1 DEF AnswerSent
        <4>2. /\ Len(s2c') = Len(s2c) - 1
              /\ \A i \in 1..Len(s2c') : s2c'[i] = s2c[i + 1]
          BY <2>1, <3>1, <4>1
        <4> QED BY <1>1, <2>1, <3>1, <4>1, <4>2 DEF AnswerSent
      <3>4. \/ RequestSent' \/ Carried' \/ AnswerSent' \/ (NothingSent /\ Closed)'
        BY <1>1, <2>1, <3>1, <3>2, <3>3
           DEF Step, RequestSent, Carried, NothingSent, Closed, Request
      <3> QED BY <1>1, <1>2, <2>1, <3>1, <3>4 DEF Step
    <2> QED BY <2>2, <2>3
  <1>4. CASE frame.tag \notin {"log", "junk"}
    <2>1. /\ s2c' = Tail(s2c) /\ client' = [client EXCEPT !.pc = "idle"]
          /\ \/ last' = Outcome("error", Nothing, frame.for)
             \/ last' = Outcome(Accepted(frame), frame.kind, frame.for)
      BY <1>4 DEF ClientRecv
    <2>2. /\ client'.pc = "idle"
          /\ client' \in [pc : {"idle", "wait", "closed"}, id : Nat,
                          cmd : DOMAIN Cmds \cup {Nothing}]
      BY <2>1 DEF Types
    <2>3. Types'
      BY <1>1, <2>2 DEF Types
    <2>4. sound => InOrder
      BY <1>1 DEF InOrder
    <2>5. OwnAnswer'
      <3>1. last'.id = client.id /\ last'.for = frame.for
        BY <2>1 DEF Outcome
      <3>2. sound' => last'.for = last'.id
        BY <1>1, <1>2, <1>4, <2>4, <3>1
      <3>3. last'.res = "ok" => last'.kind = Cmds[last'.cmd].reply
        BY <2>1 DEF Outcome, Accepted
      <3> QED BY <3>2, <3>3 DEF OwnAnswer
    <2>6. ASSUME InOrder' PROVE (s2c \in Seq(Frames) /\ Step)'
      <3>1. AnswerSent /\ s2c' = <<>>
        BY <1>1, <1>2, <1>4, <2>1, <2>4, <2>6 DEF InOrder
      <3> QED BY <1>1, <2>2, <3>1 DEF Step, NothingSent, AnswerSent, Logs
    <2> QED BY <2>3, <2>5, <2>6
  <1>5. CASE frame.tag = "junk"
    <2>1. /\ client' = [client EXCEPT !.pc = "idle"]
          /\ last' = Outcome("error", Nothing, 0)
      BY <1>5 DEF ClientRecv
    <2>2. ~sound'
      BY <1>1, <1>2, <1>5 DEF InOrder
    <2>3. Types'
      BY <1>1, <2>1 DEF Types
    <2>4. OwnAnswer'
      BY <2>1, <2>2 DEF OwnAnswer, Outcome
    <2> QED BY <2>2, <2>3, <2>4 DEF InOrder
  <1> QED BY <1>3, <1>4, <1>5

(* The other ways a wait or the client ends.                                *)
LEMMA ClientEndInv ==
  ASSUME IInv, ClientEof \/ ClientTimeout \/ ClientClose
  PROVE  IInv'
  <1> USE DEF IInv
  <1>1. CASE ClientEof
    <2>1. /\ client.pc = "wait" /\ s2c = <<>> /\ Closed
          /\ client' = [client EXCEPT !.pc = "idle"]
          /\ last' = Outcome("closed", Nothing, client.id)
          /\ UNCHANGED <<c2s, s2c, server, sound>>
      BY <1>1 DEF ClientEof
    <2>2. Types' /\ client'.pc = "idle"
      BY <2>1 DEF Types
    <2>3. OwnAnswer'
      BY <2>1 DEF OwnAnswer, Outcome
    <2>4. ASSUME InOrder' PROVE (s2c \in Seq(Frames) /\ Step)'
      <3>1. InOrder
        BY <2>1, <2>4 DEF InOrder
      <3>2. NothingSent
        BY <2>1, <3>1 DEF Step, RequestSent, Carried, AnswerSent, NothingSent, Closed
      <3> QED BY <2>1, <2>2, <3>1, <3>2 DEF Step, NothingSent, Logs
    <2> QED BY <2>2, <2>3, <2>4
  <1>2. CASE ClientTimeout
    <2>1. /\ client' = [client EXCEPT !.pc = "idle"] /\ ~sound'
          /\ last' = Outcome("timeout", Nothing, client.id)
          /\ sound' \in BOOLEAN /\ server' = server
      BY <1>2, Zenon DEF ClientTimeout
    <2>2. Types'
      BY <2>1 DEF Types
    <2>3. OwnAnswer'
      BY <2>1 DEF OwnAnswer, Outcome
    <2> QED BY <2>1, <2>2, <2>3 DEF InOrder
  <1>3. CASE ClientClose
    <2>1. /\ client' = [client EXCEPT !.pc = "closed"]
          /\ UNCHANGED <<server, last, sound>>
      BY <1>3 DEF ClientClose
    <2>2. Types' /\ client'.pc = "closed"
      BY <2>1 DEF Types
    <2>3. OwnAnswer'
      BY <2>1 DEF OwnAnswer
    <2> QED BY <2>2, <2>3 DEF InOrder
  <1> QED BY <1>1, <1>2, <1>3

(* A response of a connection in order reaches the client.                  *)
LEMMA RespondTypes ==
  ASSUME Types, NEW frame, NEW pc \in {"recv", "closed"}, Respond(frame, pc)
  PROVE  /\ {"pc", "id", "cmd", "logs"} \subseteq DOMAIN server'
         /\ server'.pc \in {"recv", "closed"}
         /\ client.pc # "closed" => s2c' = Append(s2c, frame)
  BY DEF Types, Respond

(* What answers a request that is carried out, or one that is not           *)
(* permitted, is the one answer on its way.                                 *)
LEMMA AnswerStep ==
  ASSUME Types, InOrder, s2c \in Seq(Frames), Logs(s2c), client.pc = "wait",
         client.cmd \in DOMAIN Cmds,
         NEW f \in Frames, f.tag \in {"data", "error"}, f.for = client.id,
         s2c' = Append(s2c, f), c2s' = <<>>, server'.pc # "busy",
         UNCHANGED client
  PROVE  s2c' \in Seq(Frames) /\ Step'
  <1>1. s2c' \in Seq(Frames) /\ AnswerSent'
    BY AppendFrame DEF AnswerSent
  <1> QED BY <1>1 DEF Step

(* process_api_connection(): a command is taken, refused or not permitted.  *)
LEMMA ServerRecvInv ==
  ASSUME IInv, ServerRecv
  PROVE  IInv'
  <1> USE DEF IInv
  <1> DEFINE m == Head(c2s)
  <1>1. server.pc = "recv" /\ c2s # <<>> /\ UNCHANGED <<client, last>>
    BY DEF ServerRecv
  <1>2. CASE Refused(m) /\ sound' = FALSE /\ Respond(Frame("error", Nothing, MeantFor(m)), "recv")
    <2>1. Types'
      BY <1>1, <1>2, RespondTypes, Zenon DEF Types
    <2> QED BY <1>1, <1>2, <2>1 DEF InOrder, OwnAnswer
  <1>3. InOrder => /\ client.pc = "wait" /\ client.cmd \in DOMAIN Cmds /\ RequestSent
                   /\ m.id = client.id /\ m.cmd = client.cmd /\ Tail(c2s) = <<>>
    <2> SUFFICES ASSUME InOrder
                 PROVE  /\ client.pc = "wait" /\ client.cmd \in DOMAIN Cmds /\ RequestSent
                        /\ m.id = client.id /\ m.cmd = client.cmd /\ Tail(c2s) = <<>>
      OBVIOUS
    <2>1. client.pc = "wait" /\ RequestSent /\ client.cmd \in DOMAIN Cmds
      BY <1>1 DEF Step, Types, InOrder, NothingSent, Carried, AnswerSent
    <2>2. c2s = <<Request(client.id, client.cmd)>>
      BY <2>1 DEF RequestSent
    <2>3. m = Request(client.id, client.cmd) /\ Tail(c2s) = <<>>
      BY <2>2
    <2> QED BY <2>1, <2>3 DEF Request
  <1>4. CASE /\ c2s' = Tail(c2s) /\ sound' = sound
             /\ Respond(Frame("error", Nothing, m.id), "recv")
    <2>1. Types'
      BY <1>1, <1>4, RespondTypes DEF Types
    <2>2. OwnAnswer'
      BY <1>1, <1>4 DEF OwnAnswer
    <2>3. ASSUME InOrder' PROVE (s2c \in Seq(Frames) /\ Step)'
      <3>1. InOrder
        BY <1>1, <1>4, <2>3 DEF InOrder
      <3>2. Frame("error", Nothing, m.id) \in Frames
        BY <1>3, <3>1 DEF Frame, Frames, Kinds, Types
      <3>3. s2c' = Append(s2c, Frame("error", Nothing, m.id)) /\ server'.pc # "busy"
        BY <1>4, <3>1, RespondTypes DEF InOrder
      <3>4. Frame("error", Nothing, m.id).tag = "error"
            /\ Frame("error", Nothing, m.id).for = client.id
        BY <1>3, <3>1 DEF Frame
      <3>5. Logs(s2c) /\ c2s' = <<>>
        BY <1>3, <1>4, <3>1 DEF RequestSent
      <3> QED BY <1>1, <1>3, <3>1, <3>2, <3>3, <3>4, <3>5, AnswerStep
    <2> QED BY <2>1, <2>2, <2>3
  <1>5. CASE /\ c2s' = Tail(c2s) /\ UNCHANGED <<s2c, sound>>
             /\ server' = [pc |-> "busy", id |-> m.id, cmd |-> m.cmd, logs |-> 0]
    <2>1. Types'
      BY <1>1, <1>5 DEF Types
    <2>2. OwnAnswer'
      BY <1>1, <1>5 DEF OwnAnswer
    <2>3. ASSUME InOrder' PROVE (s2c \in Seq(Frames) /\ Step)'
      <3>1. InOrder
        BY <1>1, <1>5, <2>3 DEF InOrder
      <3>2. Carried'
        BY <1>1, <1>3, <1>5, <3>1 DEF Carried, RequestSent, Logs
      <3> QED BY <1>1, <1>3, <1>5, <3>1, <3>2 DEF Step
    <2> QED BY <2>1, <2>2, <2>3
  <1> QED BY <1>2, <1>4, <1>5, Zenon DEF ServerRecv

(* The daemon works on a command and answers it.                            *)
LEMMA ServerBusyInv ==
  ASSUME IInv, ServerLog \/ (\E tag \in {"data", "error"} : ServerAnswer(tag)) \/ ServerAnswerTooLarge
  PROVE  IInv'
  <1> USE DEF IInv
  <1>1. server.pc = "busy" /\ UNCHANGED <<c2s, client, last, sound>>
    BY DEF ServerLog, ServerAnswer, ServerAnswerTooLarge
  <1>2. InOrder => /\ client.pc = "wait" /\ client.cmd \in DOMAIN Cmds /\ Carried
                   /\ s2c \in Seq(Frames) /\ client.id \in Nat
    BY <1>1 DEF Step, InOrder, Types, NothingSent, RequestSent, AnswerSent
  <1>3. OwnAnswer'
    BY <1>1 DEF OwnAnswer
  <1>4. InOrder' => InOrder
    BY <1>1 DEF InOrder
  <1>5. CASE ServerLog
    <2>1. /\ server' = [server EXCEPT !.logs = @ + 1]
          /\ client.pc # "closed" => s2c' = Append(s2c, Frame("log", Nothing, server.id))
      BY <1>5 DEF ServerLog
    <2>2. Types' /\ server'.pc = "busy" /\ server'.id = server.id /\ server'.cmd = server.cmd
      BY <1>1, <2>1 DEF Types
    <2>3. ASSUME InOrder' PROVE (s2c \in Seq(Frames) /\ Step)'
      <3>1. Frame("log", Nothing, server.id) \in Frames /\ Frame("log", Nothing, server.id).tag = "log"
        BY <1>2, <1>4, <2>3 DEF Frame, Frames, Kinds, Carried
      <3>2. s2c' = Append(s2c, Frame("log", Nothing, server.id))
        BY <1>4, <2>1, <2>3 DEF InOrder
      <3>3. s2c' \in Seq(Frames) /\ Logs(s2c')
        BY <1>2, <1>4, <2>3, <3>1, <3>2, AppendFrame DEF Carried
      <3>4. Carried'
        BY <1>1, <1>2, <1>4, <2>2, <2>3, <3>3 DEF Carried
      <3> QED BY <1>1, <1>2, <1>4, <2>3, <3>3, <3>4 DEF Step
    <2> QED BY <1>3, <2>2, <2>3
  <1>6. ASSUME NEW tag \in {"data", "error"}, ServerAnswer(tag) PROVE IInv'
    <2> DEFINE f == Frame(tag, IF tag = "data" THEN Cmds[server.cmd].reply ELSE Nothing, server.id)
    <2>1. Respond(f, "recv")
      BY <1>6 DEF ServerAnswer
    <2> HIDE DEF f
    <2>2. Types'
      BY <1>1, <2>1, RespondTypes DEF Types
    <2>3. ASSUME InOrder' PROVE (s2c \in Seq(Frames) /\ Step)'
      <3>1. f \in Frames /\ f.tag \in {"data", "error"} /\ f.for = client.id
        BY <1>2, <1>4, <2>3, <1>6 DEF f, Frame, Frames, Kinds, Carried
      <3>2. s2c' = Append(s2c, f) /\ server'.pc # "busy"
        BY <1>4, <2>1, <2>3, RespondTypes DEF InOrder
      <3>3. Logs(s2c) /\ c2s' = <<>>
        BY <1>1, <1>2, <1>4, <2>3 DEF Carried
      <3> QED BY <1>1, <1>2, <1>4, <2>3, <3>1, <3>2, <3>3, AnswerStep
    <2> QED BY <1>3, <2>2, <2>3
  <1>7. CASE ServerAnswerTooLarge
    <2>1. server' = [server EXCEPT !.pc = "closed"] /\ s2c' = s2c
      BY <1>7 DEF ServerAnswerTooLarge
    <2>2. Types' /\ server'.pc = "closed"
      BY <1>1, <2>1 DEF Types
    <2>3. ASSUME InOrder' PROVE (s2c \in Seq(Frames) /\ Step)'
      <3>1. (NothingSent /\ Closed)'
        BY <1>1, <1>2, <1>4, <2>1, <2>2, <2>3 DEF NothingSent, Closed, Carried, Logs
      <3> QED BY <1>1, <1>2, <1>4, <2>1, <2>3, <3>1 DEF Step
    <2> QED BY <1>3, <2>2, <2>3
  <1> QED BY <1>5, <1>6, <1>7

(* The daemon sees the end of the stream, or waits for too long.            *)
LEMMA ServerEndInv ==
  ASSUME IInv, ServerEof \/ ServerTimeout
  PROVE  IInv'
  <1> USE DEF IInv
  <1>1. CASE ServerEof
    <2>1. /\ client.pc = "closed" /\ UNCHANGED <<client, last, sound>>
          /\ server' = [server EXCEPT !.pc = "closed"]
      BY <1>1 DEF ServerEof
    <2>2. Types'
      BY <2>1 DEF Types
    <2> QED BY <2>1, <2>2 DEF InOrder, OwnAnswer
  <1>2. CASE ServerTimeout
    <2>1. /\ UNCHANGED <<client, last>> /\ ~sound' /\ sound' \in BOOLEAN
          /\ Respond(Frame("error", Nothing, 0), "recv")
      BY <1>2, Zenon DEF ServerTimeout
    <2>2. Types'
      BY <2>1, RespondTypes DEF Types
    <2> QED BY <2>1, <2>2 DEF InOrder, OwnAnswer
  <1> QED BY <1>1, <1>2

(* from_json(), recv() and process_api_connection(): a client takes nothing  *)
(* for the answer of a request but the answer of this very request, of the   *)
(* kind it asks for, until a timeout or a refused frame breaks the order.    *)
THEOREM AnswersAreOwn == Spec => []OwnAnswer
  <1>1. IInv /\ [Next]_vars => IInv'
    <2> SUFFICES ASSUME IInv, [Next]_vars PROVE IInv'
      OBVIOUS
    <2>1. CASE Next
      BY <2>1, ClientSendInv, ClientRecvInv, ClientEndInv, ServerRecvInv,
         ServerBusyInv, ServerEndInv DEF Next, Server
    <2>2. CASE UNCHANGED vars
      BY <2>2 DEF vars, IInv, Types, InOrder, Step, NothingSent, RequestSent,
         Carried, AnswerSent, Closed, Logs, Request, OwnAnswer
    <2> QED BY <2>1, <2>2
  <1>2. IInv => OwnAnswer
    BY DEF IInv
  <1> QED BY InitInv, <1>1, <1>2, PTL DEF Spec

-----------------------------------------------------------------------------
(* MACsec sessions (Mka), for any interfaces, requests, tries and faults.     *)

(* A profile that asks for a session, and a message that asks for the same.  *)
Keyed(c) == Keys \cup {"base", "state"} \subseteq DOMAIN c /\ c["state"] = "up"
Asks(d, c) == Keyed(d) /\ \A k \in Keys \cup {"base"} : d[k] = c[k]

(* The queue q holds no message for i, and i's session in s is that of c.     *)
Reached(i, c, q, s) ==
    /\ \A n \in 1..Len(q) : q[n].iface # i
    /\ s[i] # None /\ \A k \in Keys \cup {"base"} : s[i].config[k] = c[k]

(* The last message for i in q asks for the session of c.                    *)
OnItsWay(i, c, q) ==
    \E n \in 1..Len(q) :
        /\ q[n].iface = i /\ Asks(q[n].config, c)
        /\ \A m \in 1..Len(q) : m > n => q[m].iface # i

Follows(i, c, q, s) == Reached(i, c, q, s) \/ OnItsWay(i, c, q)

Messages == [iface : Iface, config : Config, force : BOOLEAN]
SessionMap == [Iface -> SessionOf \cup {None}]

LinkTypes ==
    /\ link \in [Iface -> Config \cup {None}]
    /\ \A i \in Iface : link[i] # None => Keys \cap DOMAIN link[i] = {}

ProfileTypes ==
    /\ saved \in [Iface -> Config \cup {None}]
    /\ \A i \in Iface : saved[i] # None => "state" \in DOMAIN saved[i] /\ saved[i]["state"] = "up"

TxTypes ==
    /\ tx \in Transactions \cup {None}
    /\ tx # None =>
        /\ "state" \in DOMAIN tx.des /\ tx.des["state"] \in {"up", "absent"}
        /\ Keyed(tx.des) => tx.apply # None /\ Asks(tx.apply, tx.des)

(* The session of an interface left as its profile is that of the profile or *)
(* is on its way, unless an apply of the interface is under way; the session *)
(* of an apply that only has to be verified is on its way as well.           *)
SavedFollows ==
    \A i \in Iface \ unsaved :
        saved[i] # None /\ Keyed(saved[i]) =>
            Follows(i, saved[i], queue, sessions) \/ (tx # None /\ tx.iface = i)

AppliedFollows ==
    tx # None /\ tx.step = "verify" /\ Keyed(tx.des) =>
        Follows(tx.iface, tx.des, queue, sessions)

MkaInv ==
    /\ LinkTypes /\ ProfileTypes /\ TxTypes
    /\ queue \in Seq(Messages) /\ sessions \in SessionMap
    /\ SavedFollows /\ AppliedFollows

-----------------------------------------------------------------------------
(* Configurations.                                                           *)
LEMMA ConfigOver ==
  ASSUME NEW c \in Config, NEW d \in Config
  PROVE  /\ Over(c, d) \in Config /\ DOMAIN Over(c, d) = DOMAIN c \cup DOMAIN d
         /\ \A o \in DOMAIN c : Over(c, d)[o] = c[o]
         /\ \A o \in DOMAIN d : o \notin DOMAIN c => Over(c, d)[o] = d[o]
  <1>1. PICK S \in SUBSET Options : c \in [S -> Setting]
    BY DEF Config
  <1>2. PICK T \in SUBSET Options : d \in [T -> Setting]
    BY DEF Config
  <1>3. Over(c, d) \in [S \cup T -> Setting] /\ S \cup T \in SUBSET Options
    BY <1>1, <1>2 DEF Over
  <1>4. Over(c, d) \in Config
    BY <1>3 DEF Config
  <1> QED BY <1>4 DEF Over

LEMMA ConfigRestrict ==
  ASSUME NEW c \in Config, NEW S, S \subseteq DOMAIN c
  PROVE  /\ Restrict(c, S) \in Config /\ DOMAIN Restrict(c, S) = S
         /\ \A o \in S : Restrict(c, S)[o] = c[o]
  <1>1. PICK T \in SUBSET Options : c \in [T -> Setting]
    BY DEF Config
  <1>2. Restrict(c, S) \in [S -> Setting] /\ S \in SUBSET Options
    BY <1>1 DEF Restrict
  <1> QED BY <1>2 DEF Config, Restrict

LEMMA ConfigOnly ==
  ASSUME NEW c \in Config, NEW S
  PROVE  /\ Only(c, S) \in Config /\ DOMAIN Only(c, S) = DOMAIN c \cap S
         /\ \A o \in DOMAIN c \cap S : Only(c, S)[o] = c[o]
  <1>1. DOMAIN c \cap S \subseteq DOMAIN c
    OBVIOUS
  <1> QED BY <1>1, ConfigRestrict DEF Only

LEMMA ConfigState ==
  ASSUME NEW x \in {"up", "absent"}
  PROVE  State(x) \in Config /\ DOMAIN State(x) = {"state"}
  <1>1. x \in Setting
    BY MkaAssumption
  <1>2. State(x) \in [{"state"} -> Setting]
    BY <1>1 DEF State
  <1>3. {"state"} \in SUBSET Options
    BY DEF Options
  <1> QED BY <1>2, <1>3, Zenon DEF Config, State

LEMMA ConfigNotNone == \A c \in Config : c # None
  BY MkaAssumption

(* What the kernel is told of a profile with keys has its keys and its base  *)
(* interface, since the kernel reports no keys.                              *)
LEMMA ApplyAsks ==
  ASSUME NEW des \in Config,
         NEW cur \in Config \cup {None}, cur # None => Keys \cap DOMAIN cur = {},
         NEW force \in BOOLEAN
  PROVE  /\ ForApply(des, cur, force) \in Config \cup {None}
         /\ Keyed(des) => /\ ForApply(des, cur, force) # None
                          /\ Asks(ForApply(des, cur, force), des)
  <1> DEFINE apply == ForApply(des, cur, force)
  <1>1. CASE cur = None \/ force
    <2>1. apply = des
      BY <1>1 DEF ForApply
    <2> QED BY <2>1, ConfigNotNone DEF Asks
  <1>2. CASE ~(cur = None \/ force)
    <2>1. apply = GenDiff(des, cur) /\ cur \in Config
      BY <1>2 DEF ForApply
    <2>2. CASE des["state"] = "absent"
      <3>1. apply = Over(State("absent"), cur)
        BY <2>1, <2>2 DEF GenDiff
      <3>2. ~Keyed(des)
        BY <2>2 DEF Keyed
      <3>3. State("absent") \in Config
        BY ConfigState
      <3>4. Over(State("absent"), cur) \in Config
        BY <2>1, <3>3, ConfigOver, Zenon
      <3> QED BY <3>1, <3>2, <3>4
    <2>3. CASE des["state"] # "absent"
      <3> DEFINE differ == {o \in DOMAIN des : o \in DOMAIN cur => des[o] # cur[o]}
                 diff == Difference(des, cur)
                 small == Over(diff, Only(des, {"state"}))
                 large == Over(Only(des, Section), Over(small, Only(cur, {"base"})))
      <3>1. diff \in Config /\ DOMAIN diff = differ /\ \A o \in differ : diff[o] = des[o]
        <4>1. differ \subseteq DOMAIN des /\ diff = Restrict(des, differ)
          BY DEF Difference
        <4> HIDE DEF differ, diff
        <4> QED BY <4>1, ConfigRestrict
      <3>2. apply = IF differ = {} THEN None
                    ELSE IF HasSection(des) THEN large ELSE small
        BY <2>1, <2>3, <3>1 DEF GenDiff, IncludeDiffContext
      <3>3. /\ Only(des, {"state"}) \in Config /\ Only(des, Section) \in Config
            /\ Only(cur, {"base"}) \in Config
        BY <2>1, ConfigOnly, Zenon
      <3>4. /\ small \in Config
            /\ "state" \in DOMAIN des => "state" \in DOMAIN small /\ small["state"] = des["state"]
        <4> DEFINE kept == Only(des, {"state"})
        <4>1. diff \in Config /\ kept \in Config /\ DOMAIN diff = differ
          BY <3>1, <3>3
        <4>2. "state" \in DOMAIN des => "state" \in DOMAIN kept /\ kept["state"] = des["state"]
          BY ConfigOnly, Zenon
        <4> HIDE DEF diff, differ, kept
        <4>3. /\ Over(diff, kept) \in Config
              /\ DOMAIN Over(diff, kept) = DOMAIN diff \cup DOMAIN kept
              /\ \A o \in DOMAIN diff : Over(diff, kept)[o] = diff[o]
              /\ \A o \in DOMAIN kept : o \notin DOMAIN diff => Over(diff, kept)[o] = kept[o]
          BY <4>1, ConfigOver, Zenon
        <4>4. small = Over(diff, kept)
          BY DEF kept
        <4> HIDE DEF small
        <4> QED BY <3>1, <4>1, <4>2, <4>3, <4>4
      <3> HIDE DEF small, diff
      <3>5. /\ Over(small, Only(cur, {"base"})) \in Config
            /\ "state" \in DOMAIN des =>
                  /\ "state" \in DOMAIN Over(small, Only(cur, {"base"}))
                  /\ Over(small, Only(cur, {"base"}))["state"] = des["state"]
        <4> DEFINE below == Only(cur, {"base"})
        <4>1. below \in Config
          BY <3>3
        <4> HIDE DEF below
        <4>2. /\ Over(small, below) \in Config
              /\ DOMAIN Over(small, below) = DOMAIN small \cup DOMAIN below
              /\ \A o \in DOMAIN small : Over(small, below)[o] = small[o]
          BY <3>4, <4>1, ConfigOver, Zenon
        <4> QED BY <3>4, <4>2 DEF below
      <3>6. large \in Config
        BY <3>3, <3>5, ConfigOver, Zenon
      <3>7. apply \in Config \cup {None}
        BY <3>2, <3>4, <3>6
      <3>8. ASSUME Keyed(des) PROVE apply # None /\ Asks(apply, des)
        <4>1. "cak" \in DOMAIN des /\ "ckn" \in DOMAIN des /\ "base" \in DOMAIN des
              /\ "state" \in DOMAIN des
          BY <3>8 DEF Keyed, Keys
        <4>2. "cak" \in differ
          BY <1>2, <4>1 DEF Keys
        <4>3. apply = large
          BY <3>2, <4>1, <4>2 DEF HasSection, Section
        <4>4. /\ DOMAIN Only(des, Section) = DOMAIN des \cap Section
              /\ \A o \in DOMAIN des \cap Section : Only(des, Section)[o] = des[o]
          BY ConfigOnly, Zenon
        <4>5. /\ \A o \in DOMAIN des \cap Section : o \in DOMAIN large /\ large[o] = des[o]
              /\ "state" \in DOMAIN large /\ large["state"] = des["state"]
          <5>1. "state" \notin DOMAIN Only(des, Section)
            BY <4>4 DEF Section
          <5> DEFINE section == Only(des, Section)
                     rest == Over(small, Only(cur, {"base"}))
          <5>2. section \in Config /\ rest \in Config
            BY <3>3, <3>5
          <5>3. /\ "state" \in DOMAIN rest /\ rest["state"] = des["state"]
                /\ "state" \notin DOMAIN section /\ DOMAIN section = DOMAIN des \cap Section
                /\ \A o \in DOMAIN des \cap Section : section[o] = des[o]
            BY <3>5, <4>1, <4>4, <5>1
          <5> HIDE DEF section, rest
          <5>4. /\ DOMAIN Over(section, rest) = DOMAIN section \cup DOMAIN rest
                /\ \A o \in DOMAIN section : Over(section, rest)[o] = section[o]
                /\ \A o \in DOMAIN rest : o \notin DOMAIN section => Over(section, rest)[o] = rest[o]
            BY <5>2, ConfigOver
          <5> QED BY <5>3, <5>4 DEF section, rest
        <4> HIDE DEF large
        <4>6. Asks(large, des)
          BY <3>8, <4>1, <4>5 DEF Asks, Keyed, Keys, Section
        <4> QED BY <3>6, <4>3, <4>6, ConfigNotNone
      <3> QED BY <3>7, <3>8
    <2> QED BY <2>2, <2>3
  <1> QED BY <1>1, <1>2

LEMMA RevertTyped ==
  ASSUME NEW apply \in Config, NEW cur \in Config \cup {None}
  PROVE  GenerateRevert(apply, cur) \in Config
  <1>1. State("absent") \in Config
    BY ConfigState
  <1>2. cur # None => Only(cur, DOMAIN apply \cup {"state"}) \in Config
    BY ConfigOnly, Zenon
  <1> QED BY <1>1, <1>2 DEF GenerateRevert

LEMMA KernelTyped ==
  ASSUME NEW apply \in Config, NEW cur \in Config \cup {None}
  PROVE  /\ Kernel(apply, cur) \in Config \cup {None}
         /\ Kernel(apply, cur) # None => Keys \cap DOMAIN Kernel(apply, cur) = {}
  <1> DEFINE old == IF cur = None THEN NewLink ELSE cur
             left == (DOMAIN apply \cup DOMAIN old) \ Keys
  <1>1. NewLink \in Config
    <2>1. NewLink \in [{"encrypt", "mtu"} -> Setting]
      BY MkaAssumption DEF NewLink
    <2>2. {"encrypt", "mtu"} \in SUBSET Options
      BY DEF Options, Section
    <2> QED BY <2>1, <2>2 DEF Config
  <1>2. old \in Config
    BY <1>1
  <1>3. Kernel(apply, cur) = IF apply["state"] = "absent" THEN None
                             ELSE Restrict(Over(apply, old), left)
    BY DEF Kernel
  <1> HIDE DEF old
  <1>4. Over(apply, old) \in Config /\ left \subseteq DOMAIN Over(apply, old)
    BY <1>2, ConfigOver, Zenon
  <1>5. Restrict(Over(apply, old), left) \in Config
        /\ DOMAIN Restrict(Over(apply, old), left) = left
    BY <1>4, ConfigRestrict
  <1> QED BY <1>3, <1>5

(* SessionAfter().                                                           *)
LEMMA SessionTyped ==
  ASSUME NEW session \in SessionOf \cup {None}, NEW c \in Config, NEW force \in BOOLEAN
  PROVE  /\ SessionAfter(session, c, force) \in SessionOf \cup {None}
         /\ Keyed(c) =>
              /\ SessionAfter(session, c, force) # None
              /\ \A k \in Keys \cup {"base"} : SessionAfter(session, c, force).config[k] = c[k]
  <1> DEFINE after == SessionAfter(session, c, force)
  <1>1. \A o \in DOMAIN c : c[o] \in Setting
    BY DEF Config
  <1>2. MkaConfig(c) \in ClientConfig \cup {None}
    BY <1>1, MkaAssumption DEF MkaConfig, ClientConfig, Keys
  <1>3. Keyed(c) => /\ MkaConfig(c) \in ClientConfig /\ c["state"] = "up"
                    /\ MkaConfig(c).base = c["base"] /\ MkaConfig(c).cak = c["cak"]
                    /\ MkaConfig(c).ckn = c["ckn"]
    BY <1>1, MkaAssumption DEF MkaConfig, ClientConfig, Keyed, Keys
  <1> DEFINE desired == IF c["state"] = "up" THEN MkaConfig(c) ELSE None
             started == [config |-> desired, phase |-> "started"]
  <1>4. /\ desired \in ClientConfig \cup {None}
        /\ Keyed(c) => /\ desired \in ClientConfig /\ desired # None /\ desired.base = c["base"]
                       /\ desired.cak = c["cak"] /\ desired.ckn = c["ckn"]
    BY <1>2, <1>3, MkaAssumption
  <1>5. after = IF desired = None THEN None
                ELSE IF force \/ session = None \/ requires_new_session(desired, session.config)
                     THEN started ELSE session
    BY DEF SessionAfter
  <1> HIDE DEF desired, after
  <1>6. desired # None => started \in SessionOf /\ started.config = desired
    BY <1>4 DEF SessionOf
  <1> HIDE DEF started
  <1>7. after \in SessionOf \cup {None}
    BY <1>4, <1>5, <1>6
  <1>8. ASSUME Keyed(c)
        PROVE  /\ after # None /\ after.config.base = c["base"]
               /\ after.config.cak = c["cak"] /\ after.config.ckn = c["ckn"]
    <2>1. CASE after = started
      BY <1>4, <1>6, <1>8, <2>1, MkaAssumption
    <2>2. CASE after = session /\ session # None /\ ~requires_new_session(desired, session.config)
      BY <1>4, <1>8, <2>2 DEF requires_new_session
    <2> QED BY <1>4, <1>5, <1>8, <2>1, <2>2
  <1>9. ASSUME Keyed(c), NEW k \in Keys \cup {"base"} PROVE after.config[k] = c[k]
    BY <1>8, <1>9 DEF Keys
  <1> QED BY <1>7, <1>8, <1>9 DEF after

-----------------------------------------------------------------------------
(* The worker's queue.                                                       *)
LEMMA WorkFollows ==
  ASSUME NEW q \in Seq(Messages), q # <<>>, NEW s \in SessionMap,
         NEW i \in Iface, NEW c, Follows(i, c, q, s), NEW t,
         t = [s EXCEPT ![Head(q).iface] = SessionAfter(@, Head(q).config, Head(q).force)]
  PROVE  Follows(i, c, Tail(q), t)
  <1>1. /\ Len(q) \in Nat /\ Len(q) > 0 /\ Head(q) = q[1]
        /\ Len(Tail(q)) = Len(q) - 1 /\ \A n \in 1..Len(Tail(q)) : Tail(q)[n] = q[n + 1]
    BY HeadTailProperties, LenProperties, EmptySeq
  <1>2. q[1] \in Messages
    BY <1>1, ElementOfSeq
  <1>3. CASE Reached(i, c, q, s)
    <2>1. t[i] = s[i]
      BY <1>1, <1>2, <1>3 DEF Reached, SessionMap, Messages
    <2>2. \A n \in 1..Len(Tail(q)) : Tail(q)[n].iface # i
      BY <1>1, <1>3 DEF Reached
    <2> QED BY <1>3, <2>1, <2>2 DEF Reached, Follows
  <1>4. CASE OnItsWay(i, c, q)
    <2>1. PICK n \in 1..Len(q) : /\ q[n].iface = i /\ Asks(q[n].config, c)
                                 /\ \A m \in 1..Len(q) : m > n => q[m].iface # i
      BY <1>4 DEF OnItsWay
    <2>2. CASE n = 1
      <3>1. t[i] = SessionAfter(s[i], q[1].config, q[1].force)
        BY <1>1, <2>1, <2>2 DEF SessionMap
      <3>2. Keyed(q[1].config) /\ \A k \in Keys \cup {"base"} : q[1].config[k] = c[k]
        BY <2>1, <2>2 DEF Asks
      <3>3. s[i] \in SessionOf \cup {None} /\ q[1].config \in Config /\ q[1].force \in BOOLEAN
        BY <1>2 DEF SessionMap, Messages
      <3>4. t[i] # None /\ \A k \in Keys \cup {"base"} : t[i].config[k] = c[k]
        <4> DEFINE session == s[i]
                   config == q[1].config
                   force == q[1].force
        <4>1. session \in SessionOf \cup {None} /\ config \in Config /\ force \in BOOLEAN
              /\ Keyed(config)
          BY <3>2, <3>3
        <4> HIDE DEF session, config, force
        <4>2. /\ SessionAfter(session, config, force) # None
              /\ \A k \in Keys \cup {"base"} :
                    SessionAfter(session, config, force).config[k] = config[k]
          BY <4>1, SessionTyped, Zenon
        <4>3. t[i] = SessionAfter(session, config, force)
          BY <3>1 DEF session, config, force
        <4> QED BY <3>2, <4>2, <4>3 DEF config
      <3>5. \A m \in 1..Len(Tail(q)) : Tail(q)[m].iface # i
        BY <1>1, <2>1, <2>2
      <3> QED BY <3>4, <3>5 DEF Reached, Follows
    <2>3. CASE n # 1
      <3>1. n - 1 \in 1..Len(Tail(q)) /\ Tail(q)[n - 1] = q[n]
        BY <1>1, <2>3
      <3>2. \A m \in 1..Len(Tail(q)) : m > n - 1 => Tail(q)[m].iface # i
        BY <1>1, <2>1, <2>3
      <3> QED BY <2>1, <3>1, <3>2, Zenon DEF OnItsWay, Follows
    <2> QED BY <2>2, <2>3
  <1> QED BY <1>3, <1>4 DEF Follows

LEMMA AppendAsks ==
  ASSUME NEW q \in Seq(Messages), NEW d \in Messages, NEW c, Asks(d.config, c)
  PROVE  OnItsWay(d.iface, c, Append(q, d))
  <1>1. /\ Len(q) \in Nat /\ Len(Append(q, d)) = Len(q) + 1
        /\ Append(q, d)[Len(q) + 1] = d
    BY AppendProperties, LenProperties
  <1> QED BY <1>1 DEF OnItsWay

LEMMA AppendOther ==
  ASSUME NEW q \in Seq(Messages), NEW d \in Messages, NEW s, NEW i, d.iface # i, NEW c,
         Follows(i, c, q, s)
  PROVE  Follows(i, c, Append(q, d), s)
  <1>1. /\ Len(q) \in Nat /\ Len(Append(q, d)) = Len(q) + 1
        /\ Append(q, d)[Len(q) + 1] = d
        /\ \A n \in 1..Len(q) : Append(q, d)[n] = q[n]
    BY AppendProperties, LenProperties
  <1>2. CASE Reached(i, c, q, s)
    <2>1. \A n \in 1..Len(Append(q, d)) : Append(q, d)[n].iface # i
      BY <1>1, <1>2 DEF Reached
    <2> QED BY <1>2, <2>1 DEF Reached, Follows
  <1>3. CASE OnItsWay(i, c, q)
    <2>1. PICK n \in 1..Len(q) : /\ q[n].iface = i /\ Asks(q[n].config, c)
                                 /\ \A m \in 1..Len(q) : m > n => q[m].iface # i
      BY <1>3 DEF OnItsWay
    <2>2. \A m \in 1..Len(Append(q, d)) : m > n => Append(q, d)[m].iface # i
      BY <1>1, <2>1
    <2>3. n \in 1..Len(Append(q, d)) /\ Append(q, d)[n] = q[n]
      BY <1>1
    <2> QED BY <2>1, <2>2, <2>3 DEF OnItsWay, Follows
  <1> QED BY <1>2, <1>3 DEF Follows

LEMMA PhaseFollows ==
  ASSUME NEW s \in SessionMap, NEW j \in Iface, s[j] # None,
         NEW p \in {"started", "secured", "sleep"}, NEW t, t = [s EXCEPT ![j].phase = p]
  PROVE  /\ t \in SessionMap
         /\ \A i \in Iface : \A c, q : Follows(i, c, q, s) => Follows(i, c, q, t)
  <1>1. s[j] \in SessionOf
    BY DEF SessionMap
  <1>2. t[j] \in SessionOf /\ t[j].config = s[j].config
    BY <1>1 DEF SessionMap, SessionOf
  <1>3. t \in SessionMap /\ \A i \in Iface : i # j => t[i] = s[i]
    BY <1>2 DEF SessionMap
  <1>4. \A i \in Iface : s[i] # None => t[i] # None /\ t[i].config = s[i].config
    BY <1>2, <1>3, MkaAssumption
  <1> QED BY <1>3, <1>4 DEF Follows, Reached

-----------------------------------------------------------------------------
(* One step.                                                                 *)
LEMMA MkaStart == MkaInit => MkaInv
  <1> SUFFICES ASSUME MkaInit PROVE MkaInv
    OBVIOUS
  <1>1. LinkTypes /\ ProfileTypes /\ TxTypes
    BY DEF MkaInit, LinkTypes, ProfileTypes, TxTypes
  <1>2. queue \in Seq(Messages) /\ sessions \in SessionMap
    BY DEF MkaInit, SessionMap
  <1>3. SavedFollows /\ AppliedFollows
    BY DEF MkaInit, SavedFollows, AppliedFollows
  <1> QED BY <1>1, <1>2, <1>3 DEF MkaInv

(* Work: the head of the queue.                                              *)
LEMMA WorkStep == MkaInv /\ Work => MkaInv'
  <1> SUFFICES ASSUME MkaInv, Work PROVE MkaInv'
    OBVIOUS
  <1> DEFINE r == Head(queue)
  <1>1. queue \in Seq(Messages) /\ queue # <<>> /\ sessions \in SessionMap
    BY DEF MkaInv, Work
  <1>2. r \in Messages /\ queue' \in Seq(Messages)
    BY <1>1, HeadTailProperties DEF Work
  <1>3. sessions' = [sessions EXCEPT ![r.iface] = SessionAfter(@, r.config, r.force)]
        /\ queue' = Tail(queue)
    BY DEF Work
  <1>4. UNCHANGED <<link, saved, tx, unsaved>>
    BY DEF Work
  <1>5. sessions' \in SessionMap
    <2>1. r.iface \in Iface /\ r.config \in Config /\ r.force \in BOOLEAN
      BY <1>2 DEF Messages
    <2> HIDE DEF r
    <2>2. sessions[r.iface] \in SessionOf \cup {None}
      BY <1>1, <2>1 DEF SessionMap
    <2>3. SessionAfter(sessions[r.iface], r.config, r.force) \in SessionOf \cup {None}
      BY <2>1, <2>2, SessionTyped
    <2> QED BY <1>1, <1>3, <2>1, <2>3 DEF SessionMap
  <1>6. ASSUME NEW i \in Iface, NEW c, Follows(i, c, queue, sessions)
        PROVE  Follows(i, c, queue', sessions')
    BY <1>1, <1>3, <1>6, WorkFollows, Zenon
  <1>7. LinkTypes' /\ ProfileTypes' /\ TxTypes'
    BY <1>4 DEF MkaInv, LinkTypes, ProfileTypes, TxTypes
  <1>8. SavedFollows'
    BY <1>4, <1>6 DEF MkaInv, SavedFollows
  <1>9. AppliedFollows'
    BY <1>4, <1>6 DEF MkaInv, AppliedFollows, TxTypes, Transactions
  <1> QED BY <1>2, <1>5, <1>7, <1>8, <1>9 DEF MkaInv

(* run_mka_session().                                                        *)
LEMMA SessionStep ==
  ASSUME MkaInv, NEW i \in Iface, Session(i) \/ ClientFails(i)
  PROVE  MkaInv'
  <1>1. PICK p \in {"started", "secured", "sleep"} : To(i, p)
    BY DEF Session, Connected, Retry, ClientFails
  <1>2. sessions[i] # None /\ Rest
    BY DEF Session, Connected, Retry, ClientFails
  <1>3. UNCHANGED <<link, saved, tx, queue, unsaved>>
    BY <1>2 DEF Rest
  <1>4. sessions \in SessionMap /\ sessions' = [sessions EXCEPT ![i].phase = p]
    BY <1>1 DEF MkaInv, To
  <1>5. /\ sessions' \in SessionMap
        /\ \A j \in Iface : \A c, q : Follows(j, c, q, sessions) => Follows(j, c, q, sessions')
    <2>1. p \in {"started", "secured", "sleep"} /\ sessions \in SessionMap /\ sessions[i] # None
      BY <1>1, <1>2, <1>4
    <2>2. \A t : t = [sessions EXCEPT ![i].phase = p] =>
              /\ t \in SessionMap
              /\ \A j \in Iface : \A c, q : Follows(j, c, q, sessions) => Follows(j, c, q, t)
      BY <2>1, PhaseFollows, Zenon
    <2> QED BY <1>4, <2>2, Zenon
  <1>6. LinkTypes' /\ ProfileTypes' /\ TxTypes' /\ queue' \in Seq(Messages)
    BY <1>3, Zenon DEF MkaInv, LinkTypes, ProfileTypes, TxTypes
  <1>7. SavedFollows'
    BY <1>3, <1>5 DEF MkaInv, SavedFollows
  <1>8. AppliedFollows'
    BY <1>3, <1>5 DEF MkaInv, AppliedFollows, TxTypes, Transactions
  <1> QED BY <1>5, <1>6, <1>7, <1>8 DEF MkaInv

(* The start of an apply: nothing is sent yet.                               *)
LEMMA BeginStep ==
  ASSUME MkaInv, NEW i \in Iface, NEW req \in Config, NEW persist \in BOOLEAN,
         NEW force \in BOOLEAN, "state" \in DOMAIN req, req["state"] \in {"up", "absent"},
         BeginApply(i, req, persist, force)
  PROVE  MkaInv'
  <1> DEFINE des == ForSave(req, saved[i])
             apply == ForApply(des, link[i], force)
             revert == IF apply = None THEN None ELSE GenerateRevert(apply, link[i])
  <1>1. /\ tx = None /\ UNCHANGED <<link, saved, queue, sessions, unsaved>>
        /\ tx' = [iface |-> i, apply |-> apply, des |-> des, persist |-> persist, force |-> force,
                  revert |-> revert, step |-> "kernel", tries |-> 1]
    BY DEF BeginApply
  <1>2. saved[i] \in Config \cup {None} /\ link[i] \in Config \cup {None}
        /\ (link[i] # None => Keys \cap DOMAIN link[i] = {})
    BY DEF MkaInv, LinkTypes, ProfileTypes
  <1>3. des \in Config /\ "state" \in DOMAIN des /\ des["state"] \in {"up", "absent"}
    <2>1. CASE saved[i] = None
      BY <2>1 DEF ForSave
    <2>2. CASE saved[i] # None
      <3> DEFINE old == saved[i]
      <3>1. old \in Config /\ des = Over(req, old)
        BY <1>2, <2>2 DEF ForSave
      <3> HIDE DEF old
      <3>2. Over(req, old) \in Config /\ "state" \in DOMAIN Over(req, old)
            /\ Over(req, old)["state"] = req["state"]
        BY <3>1, ConfigOver, Zenon
      <3> QED BY <3>1, <3>2
    <2> QED BY <2>1, <2>2
  <1> HIDE DEF des
  <1>4. apply \in Config \cup {None} /\ (Keyed(des) => apply # None /\ Asks(apply, des))
    BY <1>2, <1>3, ApplyAsks, Zenon
  <1> HIDE DEF apply
  <1>5. revert \in Config \cup {None}
    BY <1>2, <1>4, RevertTyped
  <1> HIDE DEF revert
  <1>6. tx' \in Transactions
    BY <1>1, <1>3, <1>4, <1>5 DEF Transactions
  <1>7. tx' # None /\ tx'.iface = i /\ tx'.step = "kernel" /\ tx'.des = des /\ tx'.apply = apply
    BY <1>1, <1>6, MkaAssumption
  <1>8. TxTypes'
    BY <1>3, <1>4, <1>6, <1>7 DEF TxTypes
  <1>9. LinkTypes' /\ ProfileTypes' /\ queue' \in Seq(Messages) /\ sessions' \in SessionMap
    BY <1>1 DEF MkaInv, LinkTypes, ProfileTypes
  <1>10. SavedFollows'
    BY <1>1, <1>7, Zenon DEF MkaInv, SavedFollows
  <1>11. AppliedFollows'
    BY <1>7 DEF AppliedFollows
  <1> QED BY <1>8, <1>9, <1>10, <1>11 DEF MkaInv

(* The messages of an apply: Tell().                                         *)
Told(q, i, apply, force) ==
    IF apply = None THEN q ELSE Append(q, [iface |-> i, config |-> apply, force |-> force])

LEMMA TellFollows ==
  ASSUME NEW q \in Seq(Messages), NEW i \in Iface, NEW apply \in Config \cup {None},
         NEW force \in BOOLEAN
  PROVE  LET p == Told(q, i, apply, force)
         IN /\ p \in Seq(Messages)
            /\ \A j \in Iface : j # i => \A c, s : Follows(j, c, q, s) => Follows(j, c, p, s)
            /\ \A c, s : apply # None /\ Asks(apply, c) => Follows(i, c, p, s)
  <1> DEFINE p == Told(q, i, apply, force)
  <1>1. CASE apply = None
    <2>1. p = q
      BY <1>1 DEF Told
    <2> QED BY <1>1, <2>1
  <1>2. CASE apply # None
    <2> DEFINE d == [iface |-> i, config |-> apply, force |-> force]
    <2>1. d \in Messages /\ d.iface = i /\ d.config = apply
      BY <1>2 DEF Messages
    <2>2. p = Append(q, d)
      BY <1>2 DEF Told
    <2> HIDE DEF d, p
    <2>3. p \in Seq(Messages)
      BY <2>1, <2>2, AppendProperties
    <2>4. ASSUME NEW j \in Iface, j # i, NEW c, NEW s, Follows(j, c, q, s)
          PROVE  Follows(j, c, p, s)
      BY <2>1, <2>2, <2>4, AppendOther
    <2>5. ASSUME NEW c, NEW s, Asks(apply, c)
          PROVE  Follows(i, c, p, s)
      BY <2>1, <2>2, <2>5, AppendAsks DEF Follows
    <2>6. /\ \A j \in Iface : j # i => \A c, s : Follows(j, c, q, s) => Follows(j, c, p, s)
          /\ \A c, s : apply # None /\ Asks(apply, c) => Follows(i, c, p, s)
      BY <2>4, <2>5
    <2> QED BY <2>3, <2>6 DEF p
  <1> QED BY <1>1, <1>2

LEMMA ApplyStep == MkaInv /\ Apply => MkaInv'
  <1> SUFFICES ASSUME MkaInv, Apply PROVE MkaInv'
    OBVIOUS
  <1> DEFINE i == tx.iface
             apply == tx.apply
  <1>1. /\ tx # None /\ tx \in Transactions /\ tx' = [tx EXCEPT !.step = "verify"]
        /\ UNCHANGED <<saved, sessions, unsaved>>
        /\ Keyed(tx.des) => apply # None /\ Asks(apply, tx.des)
        /\ "state" \in DOMAIN tx.des /\ tx.des["state"] \in {"up", "absent"}
    BY DEF Apply, MkaInv, TxTypes
  <1>2. i \in Iface /\ apply \in Config \cup {None} /\ tx.force \in BOOLEAN
    BY <1>1 DEF Transactions
  <1>3. /\ tx' \in Transactions /\ tx' # None /\ tx'.iface = i /\ tx'.apply = apply
        /\ tx'.des = tx.des
    <2>1. tx' \in Transactions /\ tx'.iface = i /\ tx'.apply = apply /\ tx'.des = tx.des
      BY <1>1 DEF Transactions
    <2> QED BY <2>1, MkaAssumption
  <1>4. queue' = Told(queue, i, apply, tx.force)
    BY DEF Apply, Tell, Told
  <1>5. link' = IF apply = None THEN link ELSE [link EXCEPT ![i] = Kernel(apply, @)]
    BY DEF Apply
  <1> HIDE DEF i, apply
  <1>6. /\ queue' \in Seq(Messages)
        /\ \A j \in Iface : j # i => \A c, s : Follows(j, c, queue, s) => Follows(j, c, queue', s)
        /\ \A c, s : apply # None /\ Asks(apply, c) => Follows(i, c, queue', s)
    BY <1>2, <1>4, TellFollows, Zenon DEF MkaInv
  <1>7. LinkTypes'
    <2>1. link \in [Iface -> Config \cup {None}]
          /\ \A j \in Iface : link[j] # None => Keys \cap DOMAIN link[j] = {}
      BY DEF MkaInv, LinkTypes
    <2>2. CASE apply = None
      BY <1>5, <2>1, <2>2 DEF LinkTypes
    <2>3. CASE apply # None
      <3> DEFINE cur == link[i]
                 new == Kernel(apply, cur)
      <3>1. cur \in Config \cup {None} /\ apply \in Config
        BY <1>2, <2>1, <2>3
      <3> HIDE DEF cur
      <3>2. new \in Config \cup {None} /\ (new # None => Keys \cap DOMAIN new = {})
        BY <3>1, KernelTyped
      <3>3. link' = [link EXCEPT ![i] = new]
        BY <1>5, <2>3 DEF cur
      <3> HIDE DEF new
      <3> QED BY <1>2, <2>1, <3>2, <3>3 DEF LinkTypes
    <2> QED BY <2>2, <2>3
  <1>8. ProfileTypes' /\ TxTypes' /\ sessions' \in SessionMap
    BY <1>1, <1>3 DEF MkaInv, ProfileTypes, TxTypes
  <1>9. SavedFollows'
    <2> SUFFICES ASSUME NEW j \in Iface \ unsaved, saved[j] # None, Keyed(saved[j]), j # i
                 PROVE  Follows(j, saved[j], queue', sessions)
      BY <1>1, <1>3 DEF SavedFollows
    <2>1. Follows(j, saved[j], queue, sessions)
      BY <1>1 DEF MkaInv, SavedFollows, i
    <2> QED BY <1>6, <2>1
  <1>10. AppliedFollows'
    BY <1>1, <1>3, <1>6 DEF AppliedFollows
  <1> QED BY <1>6, <1>7, <1>8, <1>9, <1>10 DEF MkaInv

LEMMA RetryStep == MkaInv /\ RetryApply => MkaInv'
  <1> SUFFICES ASSUME MkaInv, RetryApply PROVE MkaInv'
    OBVIOUS
  <1>1. /\ tx # None /\ tx \in Transactions
        /\ tx' = [tx EXCEPT !.step = "kernel", !.tries = @ + 1]
        /\ UNCHANGED <<link, saved, queue, sessions, unsaved>>
    BY DEF RetryApply, MkaInv, TxTypes
  <1>2. /\ tx' \in Transactions /\ tx'.iface = tx.iface /\ tx'.apply = tx.apply
        /\ tx'.des = tx.des /\ tx'.step = "kernel"
    <2> DEFINE more == tx.tries + 1
    <2>1. more \in Nat
      BY <1>1 DEF Transactions
    <2>2. tx' = [tx EXCEPT !.step = "kernel", !.tries = more]
      BY <1>1
    <2> HIDE DEF more
    <2> QED BY <1>1, <2>1, <2>2, Zenon DEF Transactions
  <1>3. tx' # None
    BY <1>2, MkaAssumption
  <1>4. LinkTypes' /\ ProfileTypes' /\ queue' \in Seq(Messages) /\ sessions' \in SessionMap
    BY <1>1 DEF MkaInv, LinkTypes, ProfileTypes
  <1>5. TxTypes'
    BY <1>1, <1>2 DEF MkaInv, TxTypes
  <1>6. SavedFollows'
    BY <1>1, <1>2, <1>3 DEF MkaInv, SavedFollows
  <1>7. AppliedFollows'
    BY <1>2 DEF AppliedFollows
  <1> QED BY <1>4, <1>5, <1>6, <1>7 DEF MkaInv

(* The kernel is told, or is not.                                            *)
LEMMA LinkTyped ==
  ASSUME LinkTypes, NEW i \in Iface, NEW apply \in Config,
         link' = link \/ link' = [link EXCEPT ![i] = Kernel(apply, @)]
  PROVE  LinkTypes'
  <1> DEFINE cur == link[i]
             new == Kernel(apply, cur)
  <1>1. link \in [Iface -> Config \cup {None}]
        /\ \A j \in Iface : link[j] # None => Keys \cap DOMAIN link[j] = {}
    BY DEF LinkTypes
  <1>2. cur \in Config \cup {None}
    BY <1>1
  <1> HIDE DEF cur
  <1>3. new \in Config \cup {None} /\ (new # None => Keys \cap DOMAIN new = {})
    BY <1>2, KernelTyped
  <1>4. link' = link \/ link' = [link EXCEPT ![i] = new]
    BY DEF cur
  <1> HIDE DEF new
  <1> QED BY <1>1, <1>3, <1>4 DEF LinkTypes

LEMMA RollbackStep == MkaInv /\ Rollback => MkaInv'
  <1> SUFFICES ASSUME MkaInv, Rollback PROVE MkaInv'
    OBVIOUS
  <1> DEFINE i == tx.iface
             revert == IF tx.revert = None THEN None ELSE ForApply(tx.revert, link[i], FALSE)
             told == IF Creatable(revert, link[i]) THEN revert ELSE None
  <1>1. /\ tx # None /\ tx \in Transactions /\ tx' = None
        /\ UNCHANGED <<saved, sessions>> /\ unsaved' = unsaved \cup {i}
    BY Zenon DEF Rollback, MkaInv, TxTypes
  <1>2. queue' = Told(queue, i, told, FALSE)
    BY DEF Rollback, Tell, Told
  <1>3. revert # None => link' = link \/ link' = [link EXCEPT ![i] = Kernel(revert, @)]
    BY Zenon DEF Rollback
  <1>4. revert = None => link' = link
    BY DEF Rollback
  <1>5. i \in Iface /\ tx.revert \in Config \cup {None}
    BY <1>1 DEF Transactions
  <1>6. revert \in Config \cup {None}
    <2> DEFINE old == tx.revert
               cur == link[i]
    <2>1. cur \in Config \cup {None} /\ (cur # None => Keys \cap DOMAIN cur = {})
      BY <1>5 DEF MkaInv, LinkTypes
    <2> HIDE DEF cur
    <2>2. ASSUME old \in Config PROVE ForApply(old, cur, FALSE) \in Config \cup {None}
      BY <2>1, <2>2, ApplyAsks, Zenon
    <2> QED BY <1>5, <2>2, Zenon DEF cur
  <1> HIDE DEF i, revert
  <1>7. told \in Config \cup {None}
    BY <1>6
  <1> HIDE DEF told
  <1>8. /\ queue' \in Seq(Messages)
        /\ \A j \in Iface : j # i => \A c, s : Follows(j, c, queue, s) => Follows(j, c, queue', s)
    BY <1>2, <1>5, <1>7, TellFollows, Zenon DEF MkaInv
  <1>9. LinkTypes'
    <2>1. CASE revert = None
      BY <1>4, <2>1 DEF MkaInv, LinkTypes
    <2>2. CASE revert # None
      BY <1>3, <1>5, <1>6, <2>2, LinkTyped DEF MkaInv
    <2> QED BY <2>1, <2>2
  <1>10. ProfileTypes' /\ TxTypes' /\ sessions' \in SessionMap /\ AppliedFollows'
    BY <1>1 DEF MkaInv, ProfileTypes, TxTypes, AppliedFollows
  <1>11. SavedFollows'
    <2> SUFFICES ASSUME NEW j \in Iface \ unsaved, j # i, saved[j] # None, Keyed(saved[j])
                 PROVE  Follows(j, saved[j], queue', sessions)
      BY <1>1 DEF SavedFollows
    <2>1. Follows(j, saved[j], queue, sessions)
      BY DEF MkaInv, SavedFollows, i
    <2> QED BY <1>8, <2>1
  <1> QED BY <1>8, <1>9, <1>10, <1>11 DEF MkaInv

LEMMA CommitStep == MkaInv /\ Commit => MkaInv'
  <1> SUFFICES ASSUME MkaInv, Commit PROVE MkaInv'
    OBVIOUS
  <1> DEFINE i == tx.iface
             profile == IF tx.des["state"] = "absent" THEN None ELSE tx.des
  <1>1. /\ tx # None /\ tx \in Transactions /\ tx.step = "verify" /\ tx' = None
        /\ UNCHANGED <<link, queue, sessions>>
        /\ "state" \in DOMAIN tx.des /\ tx.des["state"] \in {"up", "absent"}
    BY DEF Commit, MkaInv, TxTypes
  <1>2. /\ saved' = IF ~tx.persist THEN saved ELSE [saved EXCEPT ![i] = profile]
        /\ unsaved' = IF tx.persist \/ tx.des = saved[i] THEN unsaved \ {i} ELSE unsaved \cup {i}
    BY DEF Commit
  <1>3. i \in Iface /\ tx.des \in Config /\ saved \in [Iface -> Config \cup {None}]
    BY <1>1 DEF Transactions, MkaInv, ProfileTypes
  <1>4. Keyed(tx.des) => Follows(i, tx.des, queue, sessions)
    BY <1>1 DEF MkaInv, AppliedFollows
  <1>5. ProfileTypes'
    BY <1>1, <1>2, <1>3 DEF MkaInv, ProfileTypes
  <1>6. LinkTypes' /\ TxTypes' /\ queue' \in Seq(Messages) /\ sessions' \in SessionMap
        /\ AppliedFollows'
    BY <1>1 DEF MkaInv, LinkTypes, TxTypes, AppliedFollows
  <1>7. SavedFollows'
    <2> SUFFICES ASSUME NEW j \in Iface, j \notin unsaved', saved'[j] # None, Keyed(saved'[j])
                 PROVE  Follows(j, saved'[j], queue, sessions)
      BY <1>1 DEF SavedFollows
    <2>1. CASE j # i
      <3>1. saved'[j] = saved[j] /\ j \notin unsaved
        BY <1>2, <1>3, <2>1
      <3> QED BY <2>1, <3>1 DEF MkaInv, SavedFollows
    <2>2. CASE j = i
      <3>1. saved'[i] = tx.des
        BY <1>2, <1>3, <2>2
      <3> QED BY <1>4, <2>2, <3>1
    <2> QED BY <2>1, <2>2
  <1> QED BY <1>5, <1>6, <1>7 DEF MkaInv

LEMMA ControllerStep ==
  ASSUME MkaInv, NEW i \in Iface, ControllerChanges(i)
  PROVE  MkaInv'
  <1>1. /\ UNCHANGED <<link, saved, tx, sessions>> /\ tx = None
        /\ unsaved' = unsaved \cup {i}
    BY DEF ControllerChanges
  <1> DEFINE named == State("up")
  <1>2. named \in Config
    BY ConfigState
  <1>3. queue' = Told(queue, i, named, FALSE)
    BY DEF ControllerChanges, Tell, Told
  <1> HIDE DEF named
  <1>4. /\ queue' \in Seq(Messages)
        /\ \A j \in Iface : j # i => \A c, s : Follows(j, c, queue, s) => Follows(j, c, queue', s)
    BY <1>2, <1>3, TellFollows, Zenon DEF MkaInv
  <1>5. LinkTypes' /\ ProfileTypes' /\ TxTypes' /\ sessions' \in SessionMap /\ AppliedFollows'
    BY <1>1 DEF MkaInv, LinkTypes, ProfileTypes, TxTypes, AppliedFollows
  <1>6. SavedFollows'
    BY <1>1, <1>4, Zenon DEF MkaInv, SavedFollows
  <1> QED BY <1>4, <1>5, <1>6 DEF MkaInv

LEMMA NicStep ==
  ASSUME MkaInv, NEW b \in Base, NicGone(b) \/ NicBack(b)
  PROVE  MkaInv'
  <1>1. UNCHANGED <<saved, tx, queue, sessions, unsaved>>
    BY DEF NicGone, NicBack
  <1>2. LinkTypes'
    BY DEF MkaInv, LinkTypes, NicGone, NicBack
  <1> QED BY <1>1, <1>2, Zenon DEF MkaInv, ProfileTypes, TxTypes, SavedFollows, AppliedFollows

LEMMA MkaStep == MkaInv /\ [MkaNext]_mkaVars => MkaInv'
  <1> SUFFICES ASSUME MkaInv, [MkaNext]_mkaVars PROVE MkaInv'
    OBVIOUS
  <1>1. CASE MacsecRequest
    <2>1. PICK i \in Iface :
            \/ \E r \in MacsecRequests : BeginApply(i, r.config, r.persist, r.force)
            \/ saved[i] # None /\ BeginApply(i, saved[i], FALSE, FALSE)
      BY <1>1, Zenon DEF MacsecRequest
    <2>2. ASSUME NEW r \in MacsecRequests, BeginApply(i, r.config, r.persist, r.force)
          PROVE  MkaInv'
      <3>1. /\ r.config \in Config /\ r.persist \in BOOLEAN /\ r.force \in BOOLEAN
            /\ "state" \in DOMAIN r.config /\ r.config["state"] \in {"up", "absent"}
        BY MkaAssumption
      <3> QED BY <2>2, <3>1, BeginStep
    <2>3. ASSUME saved[i] # None, BeginApply(i, saved[i], FALSE, FALSE)
          PROVE  MkaInv'
      <3>1. saved[i] \in Config /\ "state" \in DOMAIN saved[i] /\ saved[i]["state"] \in {"up", "absent"}
        BY <2>3 DEF MkaInv, ProfileTypes
      <3> QED BY <2>3, <3>1, BeginStep, Zenon
    <2> QED BY <2>1, <2>2, <2>3, Zenon
  <1>2. CASE Apply \/ RetryApply \/ Rollback \/ Commit \/ Work
    BY <1>2, ApplyStep, RetryStep, RollbackStep, CommitStep, WorkStep
  <1>3. CASE \E i \in Iface : Session(i) \/ ClientFails(i) \/ ControllerChanges(i)
    BY <1>3, SessionStep, ControllerStep
  <1>4. CASE \E b \in Base : NicGone(b) \/ NicBack(b)
    BY <1>4, NicStep
  <1>5. CASE UNCHANGED mkaVars
    BY <1>5, Zenon DEF mkaVars, MkaInv, LinkTypes, ProfileTypes, TxTypes, SavedFollows, AppliedFollows
  <1> QED BY <1>1, <1>2, <1>3, <1>4, <1>5 DEF MkaNext

LEMMA MkaSafe == MkaInv => SessionFollowsProfile
  <1> SUFFICES ASSUME MkaInv, tx = None, queue = <<>>, NEW i \in Iface \ unsaved,
                      saved[i] # None, MkaConfig(saved[i]) # None
               PROVE  /\ sessions[i] # None
                      /\ \A k \in {"base", "cak", "ckn"} : sessions[i].config[k] = saved[i][k]
    BY DEF SessionFollowsProfile, Settled
  <1>1. Keyed(saved[i])
    BY DEF MkaInv, ProfileTypes, MkaConfig, Keyed
  <1>2. Follows(i, saved[i], queue, sessions)
    BY <1>1 DEF MkaInv, SavedFollows
  <1>3. Len(queue) = 0
    BY EmptySeq
  <1>4. Reached(i, saved[i], queue, sessions)
    BY <1>2, <1>3 DEF Follows, OnItsWay
  <1> QED BY <1>4 DEF Reached, Keys

(* MkaWorker::apply(): whatever applies came before, once the worker has      *)
(* caught up an interface left as its saved profile, one with keys, has a    *)
(* session with the keys and the base interface of the profile.              *)
THEOREM SessionsFollowProfiles == MkaSpec => []SessionFollowsProfile
  BY MkaStart, MkaStep, MkaSafe, PTL DEF MkaSpec

===============================================================================
