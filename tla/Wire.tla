-------------------------------- MODULE Wire --------------------------------
(***************************************************************************)
(* A request from cpt_client.c to the handler of the server, and the       *)
(* answer back (cpt_packet_builder.c, cpt_serialize.c, cpt_parse.c,        *)
(* serialize.c).  Text has a length in front and travels without its       *)
(* terminator; whatever an answer holds is sent as text.                   *)
(***************************************************************************)
EXTENDS Integers, SequencesExt

CONSTANTS
  Chars,       \* bytes of text, without the terminator
  MaxText,     \* bound of the model on the length of a request's text
  MaxStr,      \* 512: in the formats of parse, and MD_BUFF_SIZE of a receive
  Label,       \* the text of a request that needs none
  ChanIds,
  Garbage,     \* what a byte may be that was never written
  Rosters,     \* user lists of a channel, head first
  LineOf,      \* user_to_string of a user
  NULL

Byte == 0 .. 255
Word == 0 .. 65535

(* Code and length, in front of the text of an answer.                     *)
HEADER == 3

ASSUME ConstantsAssumption ==
  /\ Chars \subseteq Byte \ {0} /\ Garbage \subseteq Byte
  /\ ChanIds \subseteq Word
  /\ MaxText \in Nat /\ MaxText < MaxStr
  /\ MaxStr \in Nat /\ HEADER < MaxStr /\ MaxStr <= 512
  /\ Label \in BoundedSeq(Chars, MaxText)
  /\ LineOf \in [DOMAIN LineOf -> Seq(Chars)]
  /\ Rosters \subseteq Seq(DOMAIN LineOf)
  /\ NULL \notin ChanIds

(* What is typed at a prompt is shorter than the limit of the parser.      *)
Texts == BoundedSeq(Chars, MaxText)

VARIABLES
  phase,     \* "idle", "request" under way, "serve", "answer" under way,
             \* "shown", "stray": the end of an answer read as one more, or
             \* "overrun": a byte behind data_buf is overwritten
  req,       \* client_info->packet
  asked,     \* history: what the client wanted to send
  wire,      \* the bytes under way
  res_buf,   \* of recv_thread: zero at first, then only written over
  got,       \* the request as the server parsed it
  meant,     \* history: what the server answers
  shown      \* the data of the response as the client parsed it

vars == <<phase, req, asked, wire, res_buf, got, meant, shown>>

SEND == 1
LOGOUT == 2
GET_USERS == 3
CREATE_CHANNEL == 4
JOIN_CHANNEL == 5
LEAVE_CHANNEL == 6
LOGIN == 7
CREATE_VCHAN == 8
CHANNEL_ZERO == 0

Request(v, c, id, len, msg) ==
  [version |-> v, command |-> c, channel_id |-> id, msg_len |-> len, msg |-> msg]

Answer(id, text) == [id |-> id, text |-> text]

Nothing == Request(0, 0, 0, 0, <<>>)

Init ==
  /\ phase = "idle" /\ wire = <<>> /\ res_buf = [k \in 1 .. 2 * MaxStr |-> 0]
  /\ req = NULL /\ asked = <<LOGIN, 0, <<>>>>
  /\ got = Nothing /\ meant = Answer(NULL, <<>>) /\ shown = <<>>
-----------------------------------------------------------------------------
(* The fields but msg are what malloc gave.                                *)
cpt_request_init(g) == Request(g, g, g, g, NULL)

cpt_request_cmd(r, c) ==
  IF c \in SEND .. CREATE_VCHAN THEN [r EXCEPT !.command = c] ELSE r

(* Out of bounds, the packet keeps the version it had.                     *)
cpt_request_version(r, major, minor) ==
  IF major <= 15 /\ minor <= 15 THEN [r EXCEPT !.version = 16 * major + minor] ELSE r

cpt_request_chan(r, id) == [r EXCEPT !.channel_id = id]

cpt_request_msg(r, text) == [r EXCEPT !.msg = text, !.msg_len = Len(text)]

\* Slip: the version is reset with the rest.
ResetAll(r) == Request(0, 0, 0, 0, NULL)

cpt_request_reset(r) == Request(r.version, 0, 0, 0, NULL)

\* Slip: the low byte is not cut off.
NotMasked(i) == <<i \div 256, i>>

packi16(i) == <<(i \div 256) % 256, i % 256>>

unpacku16(bytes, at) == 256 * bytes[at] + bytes[at + 1]

(* Format letter s of serialize.                                           *)
StringField(text) == packi16(Len(text)) \o text

CountWithin(len) == IF len > MaxStr THEN MaxStr - 1 ELSE len

(* Format 512s of parse: the text, and the terminator after it.            *)
StringAt(bytes, at) ==
  SubSeq(bytes, at + 2, at + 1 + CountWithin(unpacku16(bytes, at)))

(* Version, command, channel and text: format CCHs.                        *)
cpt_serialize_packet(r) ==
  <<r.version, r.command>> \o packi16(r.channel_id) \o StringField(r.msg)

(* The client sends packet r and goes on with what it keeps of it.  A NULL *)
(* message has no length: the process faults, which ChatClient is about.   *)
Ask(r, kept, c, id, text) ==
  /\ phase = "idle" /\ r.msg # NULL
  /\ wire' = cpt_serialize_packet(r)
  /\ req' = kept
  /\ asked' = <<c, id, text>>
  /\ phase' = "request"
  /\ UNCHANGED <<res_buf, got, meant, shown>>

Fresh(g, c, id, text) ==
  LET addressed == cpt_request_version(cpt_request_chan(cpt_request_init(g), id), 2, 0)
  IN  cpt_request_msg(cpt_request_cmd(addressed, c), text)

AskFresh(c, id, text) ==
  \E g \in Garbage : LET r == Fresh(g, c, id, text) IN Ask(r, r, c, id, text)

cpt_login(name) == req = NULL /\ AskFresh(LOGIN, CHANNEL_ZERO, name)

LoggedIn == req # NULL

(* info->channel is never set but to zero.                                 *)
cpt_send(text) == LoggedIn /\ AskFresh(SEND, CHANNEL_ZERO, text)

cpt_create_channel(list) == LoggedIn /\ AskFresh(CREATE_CHANNEL, CHANNEL_ZERO, list)

cpt_create_vchannel(list) == LoggedIn /\ AskFresh(CREATE_VCHAN, CHANNEL_ZERO, list)

cpt_leave_channel(id) ==
  LoggedIn /\ id # CHANNEL_ZERO /\ AskFresh(LEAVE_CHANNEL, id, Label)

cpt_join_channel(id) ==
  /\ LoggedIn
  /\ \E g \in Garbage :
       LET r == Fresh(g, JOIN_CHANNEL, id, Label)
       IN  Ask(r, cpt_request_reset(r), JOIN_CHANNEL, id, Label)

(* These two write into the packet of the last request; LOGOUT sends the   *)
(* channel and the text it finds there.                                    *)
cpt_get_users(id) ==
  /\ LoggedIn
  /\ LET r == cpt_request_chan(cpt_request_msg(cpt_request_cmd(req, GET_USERS), Label), id)
     IN  Ask(r, r, GET_USERS, id, Label)

cpt_logout ==
  /\ LoggedIn
  /\ LET r == cpt_request_cmd(req, LOGOUT)
     IN  Ask(r, cpt_request_reset(r), LOGOUT, r.channel_id, r.msg)

(* Format letter H stores four bytes: the high ones clear msg_len.         *)
cpt_parse_request ==
  /\ phase = "request"
  /\ got' = Request(wire[1], wire[2], unpacku16(wire, 3), 0, StringAt(wire, 5))
  /\ phase' = "serve" /\ wire' = <<>>
  /\ UNCHANGED <<req, asked, res_buf, meant, shown>>
-----------------------------------------------------------------------------
(* Signs and other white space are left out.                               *)
Digits == 48 .. 57
Space == 32

(* strtol from position p of a text: where it stops.                       *)
EndOfNumber(text, p) ==
  LET until(q, S) == CHOOSE r \in q .. Len(text) + 1 :
        /\ \A k \in q .. r - 1 : text[k] \in S
        /\ r <= Len(text) => text[r] \notin S
      first == until(p, {Space})
      end == until(first, Digits)
  IN  IF end = first THEN p ELSE end

(* id_list is set to id_str before the two are compared.                   *)
Compared(p, end) == end

(* The number read is 0; what the cast to 16 bits takes off is left out.   *)
IsZero(text, p, end) == \A k \in p .. end - 1 : text[k] \in {Space, 48}

(* The count that parse_channel_query returns; the bytes behind the text   *)
(* are zero.                                                               *)
parse_channel_query(text) ==
  LET countFrom[p \in 1 .. Len(text) + 2] ==
        IF p > Len(text) THEN 0
        ELSE LET end == EndOfNumber(text, p)
             IN  IF Compared(p, end) = end THEN countFrom[end + 1]
                 ELSE IF IsZero(text, p, end) THEN countFrom[end]
                 ELSE 1 + countFrom[end]
  IN  countFrom[1]

(* channel_to_string: the lines of its users.                              *)
channel_to_string(users) == FlattenSeq([k \in DOMAIN users |-> LineOf[users[k]]])

(* With its header the text is put into a buffer of LG_BUFF_SIZE, twice    *)
(* MD_BUFF_SIZE, unchecked.                                                *)
ASSUME RostersFit ==
  \A users \in Rosters : HEADER + Len(channel_to_string(users)) <= 2 * MaxStr

(* serialize takes strlen of an answer's data: the bytes before a zero.    *)
CString(bytes) ==
  LET zero == CHOOSE z \in 1 .. Len(bytes) + 1 :
        /\ \A k \in 1 .. z - 1 : bytes[k] # 0
        /\ z <= Len(bytes) => bytes[z] = 0
  IN  SubSeq(bytes, 1, zero - 1)

Respond(commands, answer, data) ==
  /\ phase = "serve" /\ phase' = "answer"
  /\ got.command \in commands
  /\ meant' = answer
  /\ wire' = <<got.command>> \o StringField(CString(data))
  /\ UNCHANGED <<req, asked, res_buf, got, shown>>

\* Slip: in network order, as in the request.
InNetworkOrder(id) == packi16(id)

InMemory(id) == <<id % 256, id \div 256>>

(* create_channel_event, and join_channel_event with the id it was asked   *)
(* for: data points to a uint16_t, and strlen goes on to a zero behind it. *)
RespondId(id, behind) ==
  /\ got.command = JOIN_CHANNEL => id = got.channel_id
  /\ Respond({JOIN_CHANNEL, CREATE_CHANNEL}, Answer(id, <<>>), InMemory(id) \o <<behind, 0>>)

(* send_event: the text of the request, to the other members.              *)
RespondMessage == Respond({SEND}, Answer(NULL, got.msg), got.msg)

(* get_users_event *)
RespondUsers(users) ==
  LET text == channel_to_string(users)
  IN  Respond({GET_USERS}, Answer(NULL, text), text)

(* One recv takes what has come, at most MaxStr bytes of it, and writes    *)
(* over the front of res_buf.  A short one is the affair of Sockets.       *)
AfterRecv(bytes) ==
  LET n == IF Len(bytes) < MaxStr THEN Len(bytes) ELSE MaxStr
  IN  [k \in 1 .. 2 * MaxStr |->
         IF k <= n THEN bytes[k] ELSE res_buf[k]]

(* A text of exactly the length of data_buf has its terminator behind it:  *)
(* the client goes on with the answer, or with whatever that byte was for. *)
Outcomes(next, buf) ==
  IF unpacku16(buf, 2) = MaxStr THEN {next, "overrun"} ELSE {next}

(* The data gets no terminator.                                            *)
Parse(next) ==
  /\ res_buf' = AfterRecv(wire)
  /\ shown' = CString(StringAt(res_buf', 2))
  /\ phase' \in Outcomes(next, res_buf')
  /\ wire' = SubSeq(wire, MaxStr + 1, Len(wire))
  /\ UNCHANGED <<req, asked, got, meant>>

(* What one recv left of an answer is taken for the next response.         *)
cpt_parse_response ==
  \/ phase = "answer" /\ Parse("shown")
  \/ phase \in {"shown", "stray"} /\ wire # <<>> /\ Parse("stray")

Unanswered ==
  got.command \notin {SEND, GET_USERS, CREATE_CHANNEL, JOIN_CHANNEL}

(* The others are not answered, or with a fixed text.                      *)
NextRequest ==
  /\ phase \in {"shown", "stray"} \/ (phase = "serve" /\ Unanswered)
  /\ wire = <<>>
  /\ phase' = "idle"
  /\ got' = Nothing /\ meant' = Answer(NULL, <<>>) /\ shown' = <<>>
  /\ UNCHANGED <<req, asked, wire, res_buf>>

Next ==
  \/ \E text \in Texts :
       \/ cpt_login(text) \/ cpt_send(text)
       \/ cpt_create_channel(text) \/ cpt_create_vchannel(text)
  \/ \E id \in ChanIds :
       \/ cpt_leave_channel(id) \/ cpt_join_channel(id) \/ cpt_get_users(id)
       \/ \E behind \in Garbage : RespondId(id, behind)
  \/ cpt_logout
  \/ cpt_parse_request \/ cpt_parse_response
  \/ RespondMessage
  \/ \E users \in Rosters : RespondUsers(users)
  \/ NextRequest

Spec == Init /\ [][Next]_vars
-----------------------------------------------------------------------------
(* The shape of every variable: fields keep their width, and what travels  *)
(* is bytes.                                                               *)
TypeOK ==
  /\ phase \in {"idle", "request", "serve", "answer", "shown", "stray", "overrun"}
  /\ \A r \in {req, got} \ {NULL} :
       /\ r.version \in Byte /\ r.command \in Byte
       /\ r.channel_id \in Word /\ r.msg_len \in Word
       /\ r.msg # NULL => r.msg \in Seq(Chars)
  /\ asked \in Byte \X Word \X Seq(Chars)
  /\ wire \in Seq(Byte)
  /\ res_buf \in [1 .. 2 * MaxStr -> Byte]
  /\ meant.text \in Seq(Chars) /\ (meant.id # NULL => meant.id \in ChanIds)
  /\ shown \in Seq(Byte)

(* The server parses what the client asked for, with version 2.0, also     *)
(* when the client wrote it into the packet of an earlier request, of      *)
(* which cpt_request_reset has taken some of the fields.                   *)
RequestArrives ==
  phase = "serve" =>
    got.version = 16 * 2 /\ <<got.command, got.channel_id, got.msg>> = asked

(* cpt_server.h:75-77: "function will also parse the <user_list> string    *)
(* and attempt to add the requested user IDs to the channel".  It would    *)
(* have to find an id in a list that begins with one (channel.c:128-157).  *)
ListedUsersFound ==
  (/\ phase = "serve" /\ got.command = CREATE_CHANNEL
   /\ got.msg # <<>> /\ got.msg[1] \in Digits \ {48})
    => parse_channel_query(got.msg) > 0

(* What one recv brings of a text.                                         *)
Cut(text) == SubSeq(text, 1, IF Len(text) < MaxStr - HEADER THEN Len(text) ELSE MaxStr - HEADER)

(* The client sees the text of an answer as far as one recv goes, 509      *)
(* bytes, whatever the limit of the parser, and nothing of an earlier      *)
(* answer.  An id arrives if it is below 256: the handler takes one byte   *)
(* of it, and of a larger one that is another id (handlers.c:210).         *)
AnswerArrives ==
  phase = "shown" =>
    IF meant.id = NULL THEN shown = Cut(meant.text)
    ELSE meant.id \in 1 .. 255 => (shown # <<>> /\ shown[1] = meant.id)
=============================================================================
