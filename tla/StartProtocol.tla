---------------------------- MODULE StartProtocol ----------------------------
(***************************************************************************)
(* The binary protocol of a start request: start_container of              *)
(* ctf_archive's challd.rs on one end of the UNIX socket, the connection   *)
(* handler of challd's main.rs with PortMappings::read on the other.       *)
(*                                                                         *)
(* The socket is a stream, so the bytes of the message arrive in pieces    *)
(* that have nothing to do with its fields, and either end may go away     *)
(* between any two of them.  The message does not carry its own length:    *)
(* both ends must agree on every field, or each waits for the other.       *)
(* read and sent are positions in the message; the bytes between them are  *)
(* on their way.  B stands for the 256 values of a byte.                   *)
(***************************************************************************)
EXTENDS Integers, SequencesExt

CONSTANTS B,          \* number of values of a byte
          Limit,      \* the 10 of PortMappings::read
          Requests,   \* arguments of start_container
          Configs,    \* WireGuard configurations, as bytes
          NONE

\* UTF-8 with characters of one or two bytes: below B/2 ASCII, below 3B/4 the second
\* byte of a character, above that the first.
IsUtf8(s) ==
    \A i \in DOMAIN s :
        /\ s[i] >= 3 * (B \div 4) => i < Len(s) /\ s[i + 1] \in (B \div 2)..(3 * (B \div 4) - 1)
        /\ s[i] \in (B \div 2)..(3 * (B \div 4) - 1) => i > 1 /\ s[i - 1] >= 3 * (B \div 4)

PortTypes == {"tcp", "udp"}
Bytes == 0..(B - 1)
Words == B * B        \* number of values of a u16
Mappings == (0..(Words - 1)) \X (0..(Words - 1)) \X PortTypes

\* An image name is a VARCHAR(63), so it has at most 252 bytes.  Ports come from a
\* map, so their numbers differ.
ASSUME StartProtocolAssumption ==
    /\ B \in Nat /\ B >= 4 /\ B % 4 = 0
    /\ Limit \in 1..(B - 1)
    /\ \A q \in Requests :
          /\ q.mode \in {"guest", "demo"}
          /\ q.code \in 0..(Words * Words - 1)
          /\ q.image \in Seq(Bytes) /\ Len(q.image) < B /\ IsUtf8(q.image)
          /\ q.ports \in Seq(Mappings)
          /\ \A i, j \in DOMAIN q.ports : q.ports[i][1] = q.ports[j][1] => i = j
    /\ \A cfg \in Configs : cfg \in Seq(Bytes) /\ Len(cfg) < Words /\ IsUtf8(cfg)

VARIABLES
    request,          \* what start_container was called with
    client, sent,     \* the await of start_container; bytes written
    outcome, config,  \* what it has returned
    at, read, got,    \* the await of the handler; bytes read; fields decoded
    answer, issued,   \* the result of the daemon and the configuration that goes with OK
    back, taken,      \* the bytes it has written, and how many of them were read
    hungup            \* which ends of the stream have been closed

clientVars == <<client, sent, outcome, config, taken>>
daemonVars == <<at, read, got, answer, issued, back>>
vars       == <<request, clientVars, daemonVars, hungup>>
-----------------------------------------------------------------------------
(* Encoding.                                                               *)

\* to_le_bytes of a u16 and of a u32, and the read_.._le that undo them.
ToLe16Uncut(n) == <<n, n \div B>>                 \* seeded fault: bytes are not cut
ToLe16(n) == <<n % B, (n \div B) % B>>
FromLe16(s) == s[1] + B * s[2]
ToLe32(n) == ToLe16(n % Words) \o ToLe16((n \div Words) % Words)
FromLe32(s) == FromLe16(SubSeq(s, 1, 2)) + Words * FromLe16(SubSeq(s, 3, 4))

ModeId(mode) == IF mode = "guest" THEN 0 ELSE 1
TypeId(type) == IF type = "tcp" THEN 0 ELSE 1

\* Seeded fault: characters are counted instead of bytes.
LengthByteOfChars(name) == Len(SelectSeq(name, LAMBDA b : b < B \div 2 \/ b >= 3 * (B \div 4)))
LengthByte(name) == Len(name) % B

PortBytes(p) == ToLe16(p[1]) \o ToLe16(p[2]) \o <<TypeId(p[3])>>
PortsBytes(ports) ==
    [k \in 1..(5 * Len(ports)) |-> PortBytes(ports[((k - 1) \div 5) + 1])[((k - 1) % 5) + 1]]

Message(q) ==
    <<ModeId(q.mode)>>
    \o (IF q.mode = "guest" THEN ToLe32(q.code) ELSE << >>)
    \o <<LengthByte(q.image)>> \o q.image
    \o <<Len(q.ports) % B>>
    \o PortsBytes(q.ports)

\* The fields as far as they are decoded.
Fields == [mode : {NONE, "guest", "demo"}, code : {NONE} \cup Nat, len : {NONE} \cup Nat,
           image : {NONE} \cup Seq(Bytes), count : {NONE} \cup Nat, ports : Seq(Mappings)]
Nothing == [mode |-> NONE, code |-> NONE, len |-> NONE, image |-> NONE, count |-> NONE, ports |-> << >>]

Init ==
    /\ request \in Requests
    /\ client = "write" /\ sent = 0 /\ outcome = "none" /\ config = << >> /\ taken = 0
    /\ at = "mode" /\ read = 0 /\ got = Nothing /\ answer = "none" /\ issued = << >> /\ back = << >>
    /\ hungup = {}
-----------------------------------------------------------------------------
(* The client.                                                             *)

\* start_container returns; its stream is dropped.
Return(value, cfg) ==
    /\ client' = "returned"
    /\ outcome' = value
    /\ config' = cfg
    /\ hungup' = hungup \cup {"client"}

\* conn.write_all: some more bytes go out.
Write(n) ==
    /\ client = "write" /\ "daemon" \notin hungup
    /\ sent + n <= Len(Message(request))
    /\ sent' = sent + n
    /\ client' = IF sent' = Len(Message(request)) THEN "result" ELSE "write"
    /\ UNCHANGED <<request, outcome, config, taken, hungup, daemonVars>>

\* The daemon has closed the stream before it took everything: EPIPE.
WriteFails ==
    /\ client = "write" /\ "daemon" \in hungup
    /\ Return("error", << >>)
    /\ UNCHANGED <<request, sent, taken, daemonVars>>

Arrived(n) == taken + n <= Len(back)
Incoming(n) == SubSeq(back, taken + 1, taken + n)

\* Seeded fault: a configuration is expected in both modes.
ExpectsConfigAlways(mode) == TRUE
ExpectsConfig(mode) == mode = "guest"

\* conn.read_u8: RESPONSE_OK is 0.
ReadResult ==
    /\ client = "result" /\ Arrived(1)
    /\ taken' = taken + 1
    /\ \/ Incoming(1) # <<0>> /\ Return("error", << >>)
       \/ Incoming(1) = <<0>> /\ ~ExpectsConfig(request.mode) /\ Return("OK", << >>)
       \/ /\ Incoming(1) = <<0>> /\ ExpectsConfig(request.mode)
          /\ client' = "config"
          /\ UNCHANGED <<outcome, config, hungup>>
    /\ UNCHANGED <<request, sent, daemonVars>>

\* conn.read_u16_le and conn.read_exact.
ConfigArrived == Arrived(2) /\ Arrived(2 + FromLe16(Incoming(2)))

ReadConfig ==
    LET len == FromLe16(Incoming(2)) IN
    /\ client = "config" /\ ConfigArrived
    /\ taken' = taken + 2 + len
    /\ Return("OK", SubSeq(back, taken + 3, taken + 2 + len))
    /\ UNCHANGED <<request, sent, daemonVars>>

\* Seeded fault: the end of the stream is not noticed.
ReadIgnoresEof == FALSE /\ Return("error", << >>) /\ UNCHANGED <<request, sent, taken, daemonVars>>
\* The stream ends before what is awaited has come.
ReadFails ==
    /\ "daemon" \in hungup
    /\ (client = "result" /\ ~Arrived(1)) \/ (client = "config" /\ ~ConfigArrived)
    /\ Return("error", << >>)
    /\ UNCHANGED <<request, sent, taken, daemonVars>>

\* The future of start_container is dropped, with its stream.
Abort ==
    /\ client # "returned"
    /\ Return("dropped", << >>)
    /\ UNCHANGED <<request, sent, taken, daemonVars>>
-----------------------------------------------------------------------------
(* The daemon.                                                             *)

\* How many bytes the handler awaits.
NeedCodeOfFive(label) ==                         \* seeded fault: one byte more than is sent
    CASE label = "code" -> 5 [] label = "name" -> got.len [] label = "port" -> 5 [] OTHER -> 1
Need(label) ==
    CASE label = "code" -> 4 [] label = "name" -> got.len [] label = "port" -> 5 [] OTHER -> 1

Reading == {"mode", "code", "len", "name", "count", "port"}

\* RESULT_OK and the others.
ResultByte == [OK |-> 0, MALFORMED_REQUEST |-> 1, INVALID_PORT |-> 2, BUSY |-> 3]

\* handle_error!: the result is written and the handler returns.
Refuse(result) ==
    /\ at' = "ended"
    /\ answer' = result
    /\ back' = <<ResultByte[result]>>
    /\ hungup' = hungup \cup {"daemon"}

\* The next n bytes of the stream.
Bite(n) == SubSeq(Message(request), read + 1, read + n)

\* The handler awaits the field called label and has it: if ok, it stores the fields
\* and goes on to next, else it refuses.
Decode(label, ok, fields, next, refusal) ==
    /\ at = label
    /\ read + Need(label) <= sent
    /\ read' = read + Need(label)
    /\ \/ /\ ok
          /\ got' = fields
          /\ at' = next
          /\ UNCHANGED <<answer, back, hungup>>
       \/ ~ok /\ Refuse(refusal) /\ UNCHANGED got
    /\ UNCHANGED <<request, clientVars, issued>>

ReadMode ==
    LET id == Bite(1)[1] IN
    Decode("mode", id <= 1, [got EXCEPT !.mode = IF id = 0 THEN "guest" ELSE "demo"],
           IF id = 0 THEN "code" ELSE "len", "MALFORMED_REQUEST")

ReadCode ==
    Decode("code", TRUE, [got EXCEPT !.code = FromLe32(Bite(Need("code")))], "len", "MALFORMED_REQUEST")

ReadLen ==
    Decode("len", TRUE, [got EXCEPT !.len = Bite(1)[1]], "name", "MALFORMED_REQUEST")

\* read_exact and from_utf8.
ReadName ==
    LET name == Bite(got.len) IN
    Decode("name", IsUtf8(name), [got EXCEPT !.image = name], "count", "MALFORMED_REQUEST")

\* Seeded fault: one mapping less is taken.
TooManyByOne(count) == count >= Limit - 1
TooMany(count) == count >= Limit

\* PortMappings::read, up to the loop.
ReadCount ==
    LET count == Bite(1)[1] IN
    Decode("count", ~TooMany(count), [got EXCEPT !.count = count],
           IF count = 0 THEN "decoded" ELSE "port", "INVALID_PORT")

\* One turn of its loop: from_port, to_port and the type.  Its three reads are one
\* step, as nothing is stored or answered between them.
ReadPort ==
    LET bytes == Bite(5)
        port  == <<FromLe16(SubSeq(bytes, 1, 2)), FromLe16(SubSeq(bytes, 3, 4)),
                   IF bytes[5] = 0 THEN "tcp" ELSE "udp">>
    IN  Decode("port", bytes[5] <= 1, [got EXCEPT !.ports = Append(@, port)],
               IF Len(got.ports) + 1 = got.count THEN "decoded" ELSE "port", "INVALID_PORT")

\* The client is gone and the bytes awaited will not come.
ReadEof ==
    /\ at \in Reading
    /\ read + Need(at) > sent
    /\ "client" \in hungup
    /\ Refuse(IF at \in {"count", "port"} THEN "INVALID_PORT" ELSE "MALFORMED_REQUEST")
    /\ UNCHANGED <<request, clientVars, read, got, issued>>

\* take_next_addr has none.
RefuseBusy ==
    /\ at = "decoded" /\ got.mode = "guest"
    /\ Refuse("BUSY")
    /\ UNCHANGED <<request, clientVars, read, got, issued>>

\* The session has been started, with a configuration for a guest (see Challd).
Started(cfg) ==
    /\ at = "decoded"
    /\ answer' = "OK"
    /\ issued' = IF got.mode = "guest" THEN cfg ELSE << >>
    /\ at' = "send_ok"
    /\ UNCHANGED <<request, clientVars, read, got, back, hungup>>

\* The response task writes the result, the length and the configuration.
Send(label, bytes, next) ==
    /\ at = label
    /\ back' = back \o bytes
    /\ at' = next
    /\ UNCHANGED <<request, clientVars, read, got, answer, issued, hungup>>

SendOk     == Send("send_ok", <<ResultByte["OK"]>>, IF got.mode = "guest" THEN "send_len" ELSE "shutdown")
SendLen    == Send("send_len", ToLe16(Len(issued)), "send_config")
SendConfig == Send("send_config", issued, "shutdown")

\* stream.shutdown(), and the drop of the stream.
Shutdown ==
    /\ at = "shutdown"
    /\ at' = "ended"
    /\ hungup' = hungup \cup {"daemon"}
    /\ UNCHANGED <<request, clientVars, read, got, answer, issued, back>>

\* The task that owns the stream panics, or its process ends.
DaemonGone ==
    /\ at \notin {"ended", "gone"}
    /\ at' = "gone"
    /\ hungup' = hungup \cup {"daemon"}
    /\ UNCHANGED <<request, clientVars, read, got, answer, issued, back>>
-----------------------------------------------------------------------------
ClientStep == (\E n \in 1..Len(Message(request)) : Write(n))
              \/ WriteFails \/ ReadResult \/ ReadConfig \/ ReadFails

DaemonStep == \/ ReadMode \/ ReadCode \/ ReadLen \/ ReadName \/ ReadCount \/ ReadPort \/ ReadEof
              \/ RefuseBusy \/ (\E cfg \in Configs : Started(cfg))
              \/ SendOk \/ SendLen \/ SendConfig \/ Shutdown

Next == ClientStep \/ DaemonStep \/ Abort \/ DaemonGone

Spec == Init /\ [][Next]_vars

\* Both ends go on when they can; nobody need go away.
FairSpec == Spec /\ WF_vars(ClientStep) /\ WF_vars(DaemonStep)
-----------------------------------------------------------------------------
(* What the decoded mappings become.                                       *)

\* PortMappings::into_hashmap: the port of the container, to the address and the
\* port of the host.  A later mapping of the same port replaces an earlier one.
IntoHashmap(ports, addr) ==
    [key \in {<<ports[i][1], ports[i][3]>> : i \in DOMAIN ports} |->
        LET i == CHOOSE j \in DOMAIN ports :
                    /\ <<ports[j][1], ports[j][3]>> = key
                    /\ \A k \in DOMAIN ports : <<ports[k][1], ports[k][3]>> = key => k <= j
        IN  <<addr, ports[i][2], key[2]>>]
-----------------------------------------------------------------------------
IsDecoded == at \in {"decoded", "send_ok", "send_len", "send_config", "shutdown"}

\* Every variable stays in its range; nobody reads what was not written.
TypeOK ==
    /\ request \in Requests
    /\ client \in {"write", "result", "config", "returned"}
    /\ at \in Reading \cup {"decoded", "send_ok", "send_len", "send_config", "shutdown", "ended", "gone"}
    /\ sent \in 0..Len(Message(request)) /\ read \in 0..sent
    /\ back \in Seq(Bytes) /\ taken \in 0..Len(back)
    /\ outcome \in {"none", "OK", "error", "dropped"} /\ config \in Configs \cup {<< >>}
    /\ answer \in DOMAIN ResultByte \cup {"none"} /\ issued \in Configs \cup {<< >>}
    /\ hungup \subseteq {"client", "daemon"}
    /\ got \in Fields

\* However the bytes were cut into pieces, the daemon starts what the archive asked
\* for: the mode, the code and the image, and ports that are the first of those
\* asked for; all of them, each bound to its own port of the host, unless there
\* were so many that their number does not fit into a byte.
DecodedAsMeant ==
    IsDecoded =>
        /\ got.mode = request.mode
        /\ got.mode = "guest" => got.code = request.code
        /\ got.image = request.image
        /\ IsPrefix(got.ports, request.ports)
        /\ Len(request.ports) < B =>
              \A i \in DOMAIN request.ports : LET p == request.ports[i] IN
                  /\ <<p[1], p[3]>> \in DOMAIN IntoHashmap(got.ports, "ip")
                  /\ IntoHashmap(got.ports, "ip")[<<p[1], p[3]>>] = <<"ip", p[2], p[3]>>

\* The two ends never wait for each other: once the whole message is out, the handler
\* awaits no byte beyond it.  (The message has no length of its own, and neither end
\* has a timeout.)
NeverStarved == client \in {"result", "config"} /\ at \in Reading => read + Need(at) <= sent

\* A request is refused only for a cause: its client went away, it has too many
\* ports, or no address is free.
RefusedForCause ==
    /\ answer = "MALFORMED_REQUEST" => outcome = "dropped"
    /\ answer = "INVALID_PORT" => outcome = "dropped" \/ Len(request.ports) >= Limit

\* What start_container returns is what the daemon decided: OK with the whole
\* configuration of this session, an error if there is no session.  Only if the
\* daemon went away, or did not read the message to its end, may a session exist
\* after an error.
AnswerUnderstood ==
    /\ outcome = "OK" => answer = "OK" /\ config = issued
    /\ outcome = "error" /\ answer = "OK" => at = "gone" \/ Len(request.ports) >= B

\* start_container returns, whatever the request, although it has no timeout.
ClientReturns == <>(client = "returned")
-----------------------------------------------------------------------------
(* The inductive invariant behind the theorems of StartProtocolProofs.     *)

CodeLen(q) == IF q.mode = "guest" THEN 4 ELSE 0

\* The request is decoded to its end, and the daemon has or had OK for an answer.
Served == IsDecoded \/ (at = "ended" /\ answer = "OK")

\* The handler stands where the message has the field it awaits.
ReadFollowsLabel ==
    /\ at = "mode" => read = 0
    /\ at = "code" => read = 1
    /\ at = "len" => read = 1 + CodeLen(request)
    /\ at = "name" => read = 2 + CodeLen(request)
    /\ at = "count" => read = 2 + CodeLen(request) + Len(request.image)
    /\ at = "port" \/ Served =>
          read = 3 + CodeLen(request) + Len(request.image) + 5 * Len(got.ports)

\* What it has decoded by then is what was asked for.
GotFollowsLabel ==
    /\ at \in Reading \ {"mode"} \/ Served => got.mode = request.mode
    /\ got.mode = "guest" /\ (at \in Reading \ {"mode", "code"} \/ Served) =>
          got.code = request.code
    /\ at = "code" => request.mode = "guest"
    /\ at = "name" => got.len = Len(request.image)
    /\ at \in {"count", "port"} \/ Served => got.image = request.image
    /\ at \in Reading \ {"port"} => got.ports = << >>
    /\ at = "port" \/ Served => /\ Len(got.ports) <= Len(request.ports) % B
                                /\ IsPrefix(got.ports, request.ports)
    /\ at = "port" => got.count = Len(request.ports) % B /\ Len(got.ports) < got.count
    /\ Served => Len(got.ports) = Len(request.ports) % B

\* The bytes of the answer, and how much of them is out.
Head0 == <<ResultByte["OK"]>>
Head3 == Head0 \o ToLe16(Len(issued))
Reply == IF request.mode = "guest" THEN Head3 \o issued ELSE Head0

BackFollowsLabel ==
    /\ at \in Reading \cup {"decoded"} => answer = "none"
    /\ at \in {"send_ok", "send_len", "send_config", "shutdown"} => answer = "OK"
    /\ at \in Reading \cup {"decoded", "send_ok"} => back = << >>
    /\ at = "send_len" => request.mode = "guest" /\ back = Head0
    /\ at = "send_config" => request.mode = "guest" /\ back = Head3
    /\ at = "shutdown" \/ (at = "ended" /\ answer = "OK") => back = Reply
    /\ at = "ended" => answer # "none"
    /\ answer = "none" => back = << >>
    /\ answer = "OK" => /\ back = << >> \/ back = Head0 \/ back = Reply
                           \/ (request.mode = "guest" /\ back = Head3)
                        /\ issued = << >> \/ request.mode = "guest"
    /\ answer \notin {"none", "OK"} => at = "ended" /\ back = <<ResultByte[answer]>>

\* The client, its end of the stream and what it has taken from it.
ClientInStep ==
    /\ "daemon" \in hungup <=> at \in {"ended", "gone"}
    /\ "client" \in hungup <=> client = "returned"
    /\ outcome = "none" <=> client # "returned"
    /\ client \in {"write", "result"} => taken = 0
    /\ client = "config" => taken = 1 /\ answer = "OK" /\ request.mode = "guest"
    /\ client = "write" => sent < Len(Message(request))
    /\ client \in {"result", "config"} => sent = Len(Message(request))
    /\ outcome = "error" => at \in {"ended", "gone"}

IInv == /\ TypeOK /\ ReadFollowsLabel /\ GotFollowsLabel /\ BackFollowsLabel /\ ClientInStep
        /\ RefusedForCause /\ AnswerUnderstood
=============================================================================
