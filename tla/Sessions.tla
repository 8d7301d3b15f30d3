------------------------------- MODULE Sessions -------------------------------
(***************************************************************************)
(* One IPC connection: a client (lib/client.rs) that sends commands and    *)
(* waits for their answers, the framing and the timeouts of the stream     *)
(* (lib/ipc.rs), and the task of the daemon that serves the connection     *)
(* (daemon/api.rs).                                                        *)
(*                                                                         *)
(* Answers carry no number: what belongs together is only known by the     *)
(* order of the stream.  `for` is what the daemon meant a frame for.  The  *)
(* bytes of a frame that was only partly read are "junk".                  *)
(***************************************************************************)
EXTENDS Naturals, Sequences, FiniteSets

CONSTANTS
    Cmds,           \* command |-> [reply, root, size]
    MaxRequests,    \* bound on requests of the client
    MaxTimeouts,    \* bound on timeouts of either end
    MaxJunk,        \* bound on the failing reads of one cut frame
    MaxLogs         \* bound on log entries sent for one command

VARIABLES
    root,           \* whether the peer is the superuser
    c2s, s2c,       \* the two directions of the stream
    client,         \* [pc, id, cmd]
    server,         \* [pc, id, cmd, logs]
    last,           \* how the last request of the client ended
    timeouts,
    sound           \* no timeout and no refused frame so far

vars == <<root, c2s, s2c, client, server, last, timeouts, sound>>

Frame(tag, kind, for) == [tag |-> tag, kind |-> kind, for |-> for]
Request(id, cmd) == [tag |-> "request", id |-> id, cmd |-> cmd]
Junk(reads) == [tag |-> "junk", reads |-> reads]

Nothing == "none"
Closed == server.pc = "closed"

Outcome(res, kind, for) == [id |-> client.id, cmd |-> client.cmd, res |-> res, kind |-> kind, for |-> for]

Torn(stream) == IF stream = <<>> THEN stream ELSE <<Junk(MaxJunk)>> \o Tail(stream)

(* Every read of junk takes four bytes of it for a length, and fails.       *)
JunkRead(stream) ==
    {Tail(stream)} \cup {<<Junk(n)>> \o Tail(stream) : n \in 1..(Head(stream).reads - 1)}

(***************************************************************************)
(* The client.                                                             *)
(***************************************************************************)
(* Nothing is written of a message that is too large, or when the daemon    *)
(* closed the stream.                                                       *)
send(cmd) == Cmds[cmd].size # "over" /\ ~Closed

ClientSend(cmd) ==
    /\ client.pc = "idle" /\ client.id < MaxRequests
    /\ client' = [pc |-> IF send(cmd) THEN "wait" ELSE "idle", id |-> client.id + 1, cmd |-> cmd]
    /\ c2s' = IF send(cmd) THEN Append(c2s, Request(client.id + 1, cmd)) ELSE c2s
    /\ last' = IF send(cmd) THEN last
               ELSE [id |-> client.id + 1, cmd |-> cmd, res |-> "refused",
                     kind |-> Nothing, for |-> client.id + 1]
    /\ UNCHANGED <<root, s2c, server, timeouts, sound>>

(* from_json(): an answer whose kind is not the one expected is an error.   *)
AcceptedAnyKind(frame) == "ok"

Accepted(frame) == IF frame.kind = Cmds[client.cmd].reply THEN "ok" ELSE "error"

(* recv(): log entries are emitted, the first error or data ends the wait.  *)
ClientRecv ==
    /\ client.pc = "wait" /\ s2c # <<>>
    /\ LET frame == Head(s2c)
       IN CASE frame.tag = "log" ->
                 /\ s2c' = Tail(s2c) /\ UNCHANGED <<client, last>>
            [] frame.tag = "junk" ->
                 /\ s2c' \in JunkRead(s2c)
                 /\ client' = [client EXCEPT !.pc = "idle"]
                 /\ last' = Outcome("error", Nothing, 0)
            [] frame.tag = "error" ->
                 /\ s2c' = Tail(s2c)
                 /\ client' = [client EXCEPT !.pc = "idle"]
                 /\ last' = Outcome("error", Nothing, frame.for)
            [] OTHER ->
                 /\ s2c' = Tail(s2c)
                 /\ client' = [client EXCEPT !.pc = "idle"]
                 /\ last' = Outcome(Accepted(frame), frame.kind, frame.for)
    /\ UNCHANGED <<root, c2s, server, timeouts, sound>>

ClientEof ==
    /\ client.pc = "wait" /\ s2c = <<>> /\ Closed
    /\ client' = [client EXCEPT !.pc = "idle"]
    /\ last' = Outcome("closed", Nothing, client.id)
    /\ UNCHANGED <<root, c2s, s2c, server, timeouts, sound>>

(* The timeout of recv() may cut the read of a frame in two; the client     *)
(* keeps the connection.                                                    *)
ClientTimeout ==
    /\ client.pc = "wait" /\ timeouts < MaxTimeouts
    /\ s2c' = Torn(s2c)
    /\ client' = [client EXCEPT !.pc = "idle"]
    /\ last' = Outcome("timeout", Nothing, client.id)
    /\ timeouts' = timeouts + 1 /\ sound' = FALSE
    /\ UNCHANGED <<root, c2s, server>>

ClientClose ==
    /\ client.pc # "closed"
    /\ client' = [client EXCEPT !.pc = "closed"]
    /\ UNCHANGED <<root, c2s, s2c, server, last, timeouts, sound>>

(***************************************************************************)
(* The task that serves the connection.                                    *)
(***************************************************************************)
(* What is sent to a client that is gone ends the task.                     *)
Respond(frame, pc) ==
    IF client.pc = "closed"
    THEN /\ server' = [server EXCEPT !.pc = "closed"] /\ UNCHANGED s2c
    ELSE /\ server' = [server EXCEPT !.pc = pc] /\ s2c' = Append(s2c, frame)

permission_check(cmd) == root \/ ~Cmds[cmd].root

(* _recv(): the size that send() still allows is refused; the bytes of such *)
(* a frame stay in the stream.                                              *)
Refused(m) == m.tag = "request" => Cmds[m.cmd].size = "limit"

RefusedRest(stream) ==
    IF Head(stream).tag = "junk" THEN JunkRead(stream) ELSE {<<Junk(MaxJunk)>> \o Tail(stream)}

MeantFor(m) == IF m.tag = "junk" THEN 0 ELSE m.id

ServerRecv ==
    /\ server.pc = "recv" /\ c2s # <<>>
    /\ LET m == Head(c2s)
       IN \/ /\ Refused(m)
             /\ c2s' \in RefusedRest(c2s)
             /\ Respond(Frame("error", Nothing, MeantFor(m)), "recv")
             /\ sound' = FALSE
          \/ /\ ~Refused(m) /\ ~permission_check(m.cmd)
             /\ c2s' = Tail(c2s)
             /\ Respond(Frame("error", Nothing, m.id), "recv")
             /\ UNCHANGED sound
          \/ /\ ~Refused(m) /\ permission_check(m.cmd)
             /\ c2s' = Tail(c2s)
             /\ server' = [pc |-> "busy", id |-> m.id, cmd |-> m.cmd, logs |-> 0]
             /\ UNCHANGED <<s2c, sound>>
    /\ UNCHANGED <<root, client, last, timeouts>>

ServerEof ==
    /\ server.pc = "recv" /\ c2s = <<>> /\ client.pc = "closed"
    /\ server' = [server EXCEPT !.pc = "closed"]
    /\ UNCHANGED <<root, c2s, s2c, client, last, timeouts, sound>>

(* No command within the timeout of recv(): the error is sent to a client   *)
(* that asked for nothing, and the task waits again.                        *)
ServerTimeout ==
    /\ server.pc = "recv" /\ timeouts < MaxTimeouts
    /\ c2s' = Torn(c2s)
    /\ Respond(Frame("error", Nothing, 0), "recv")
    /\ timeouts' = timeouts + 1 /\ sound' = FALSE
    /\ UNCHANGED <<root, client, last>>

(* Log entries for the client; a failure to send one is ignored.            *)
ServerLog ==
    /\ server.pc = "busy" /\ server.logs < MaxLogs
    /\ server' = [server EXCEPT !.logs = @ + 1]
    /\ s2c' = IF client.pc = "closed" THEN s2c ELSE Append(s2c, Frame("log", Nothing, server.id))
    /\ UNCHANGED <<root, c2s, client, last, timeouts, sound>>

(* The command is done, or failed.                                          *)
ServerAnswer(tag) ==
    /\ server.pc = "busy"
    /\ Respond(Frame(tag, IF tag = "data" THEN Cmds[server.cmd].reply ELSE Nothing, server.id),
               "recv")
    /\ UNCHANGED <<root, c2s, client, last, timeouts, sound>>

(* An answer over the limit is not sent: the task ends.                     *)
ServerAnswerTooLarge ==
    /\ server.pc = "busy"
    /\ server' = [server EXCEPT !.pc = "closed"]
    /\ UNCHANGED <<root, c2s, s2c, client, last, timeouts, sound>>

(***************************************************************************)
(* The specification.                                                      *)
(***************************************************************************)
Init ==
    /\ root \in BOOLEAN
    /\ c2s = <<>> /\ s2c = <<Frame("log", Nothing, 0)>>
    /\ client = [pc |-> "idle", id |-> 0, cmd |-> Nothing]
    /\ server = [pc |-> "recv", id |-> 0, cmd |-> Nothing, logs |-> 0]
    /\ last = [id |-> 0, cmd |-> Nothing, res |-> Nothing, kind |-> Nothing, for |-> 0]
    /\ timeouts = 0 /\ sound = TRUE

Server ==
    \/ ServerRecv \/ ServerEof \/ ServerTimeout \/ ServerLog
    \/ \E tag \in {"data", "error"} : ServerAnswer(tag)
    \/ ServerAnswerTooLarge

Next ==
    \/ \E cmd \in DOMAIN Cmds : ClientSend(cmd)
    \/ ClientRecv \/ ClientEof \/ ClientTimeout \/ ClientClose
    \/ Server

Spec == Init /\ [][Next]_vars

(***************************************************************************)
(* Properties.                                                             *)
(***************************************************************************)
(* from_json(): what a client takes for the answer of a request is of the    *)
(* kind the request asks for, and while nothing timed out and no frame was   *)
(* refused it, or the error it gets, is the answer of this very request.     *)
OwnAnswer ==
    /\ last.res = "ok" => last.kind = Cmds[last.cmd].reply
    /\ sound => last.for = last.id

===============================================================================
