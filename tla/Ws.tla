---------------------------------- MODULE Ws ----------------------------------
(***************************************************************************)
(* WebSocket messages (ws.c): one direction of a connection, from a peer   *)
(* to libdill. The peer is libdill itself, which sends every message in    *)
(* one frame, or another implementation, which may fragment it. A masked   *)
(* byte is the pair of the byte and the place in the mask it was combined  *)
(* with; taking another place of the mask gives Garbage.                   *)
(***************************************************************************)
EXTENDS Integers, Sequences, SequencesExt, FiniteSetsExt

CONSTANTS
  MaskLen,     \* length of a mask (4)
  Short,       \* payloads up to this are announced in the header (125)
  Wide,        \* and up to this in two further bytes (0xffff)
  WsTexts,     \* the messages that are sent
  WsLists,     \* buffer lists: the lengths of their elements
  Reasons,     \* reasons given with a status when closing
  MaxTexts    \* bound on the messages

ASSUME WsAssumption ==
  /\ MaskLen \in Nat \ {0} /\ Short \in Nat \ {0, 1} /\ Wide \in Nat /\ Short < Wide
  /\ MaxTexts \in Nat

VARIABLES
  server,    \* the receiver is the server: the peer masks
  frames,    \* frames on their way: [fin, op, masked, code, ext, payload]
  wsTold,    \* history: messages sent: [text, type, nframes]
  wsHeard,   \* history: messages received: [text, type, lens]
  closing,   \* the peer's status and reason, or NotYet, or Gone (its process ended)
  wsEnd,     \* indone, status and msg of the receiver
  wsErr      \* a receive failed; the program gives up

wsVars == <<server, frames, wsTold, wsHeard, closing, wsEnd, wsErr>>

NotYet == [status |-> -1, reason |-> <<>>]
Gone == [status |-> -2, reason |-> <<>>]
Garbage == -1
Junk == -2        \* what was in a buffer before

\* dill_ws_attach_client_mem, dill_ws_attach_server_mem, as far as messages go.
WsInit ==
  /\ server \in BOOLEAN
  /\ frames = <<>> /\ wsTold = <<>> /\ wsHeard = <<>> /\ closing = NotYet
  /\ wsEnd = [indone |-> FALSE, status |-> 0, msg |-> <<>>] /\ wsErr = FALSE

-----------------------------------------------------------------------------
\* dill_ws_sendl_base: the size is a code in the header and, if it is large, a
\* number behind it; a client masks the payload, counting from its start.
SizeCodeOffByOne(len) ==
  IF len >= Wide + 2 THEN [code |-> Short + 2, ext |-> len]
  ELSE IF len > Short THEN [code |-> Short + 1, ext |-> len % (Wide + 1)]
  ELSE [code |-> len, ext |-> 0]
SizeCode(len) ==
  IF len > Wide THEN [code |-> Short + 2, ext |-> len]
  ELSE IF len > Short THEN [code |-> Short + 1, ext |-> len % (Wide + 1)]
  ELSE [code |-> len, ext |-> 0]

FrameOf(op, fin, text) ==
  [fin |-> fin, op |-> op, masked |-> server, size |-> SizeCode(Len(text)),
   payload |-> [i \in DOMAIN text |-> IF server THEN <<text[i], (i - 1) % MaskLen>> ELSE text[i]]]

\* The header is put together in a buffer of 12 bytes, which is too short for the
\* mask behind a size of eight bytes.
HeaderBuf == 12
HeaderLen(len) ==
  2 + (IF len > Wide THEN 8 ELSE IF len > Short THEN 2 ELSE 0) + (IF server THEN MaskLen ELSE 0)

\* dill_ws_send, dill_ws_sendl, dill_ws_msendl. Where the header does not fit, what
\* happens is undefined: the frame is sent all the same, or the process ends.
WsSend(text, type) ==
  /\ closing = NotYet /\ Len(wsTold) < MaxTexts
  /\ frames' = Append(frames, FrameOf(type, TRUE, text))
  /\ wsTold' = Append(wsTold, [text |-> text, type |-> type, whole |-> TRUE])
  /\ UNCHANGED <<server, wsHeard, closing, wsEnd, wsErr>>

WsSendOverruns(text) ==
  /\ closing = NotYet /\ Len(wsTold) < MaxTexts /\ HeaderLen(Len(text)) > HeaderBuf
  /\ closing' = Gone
  /\ UNCHANGED <<server, frames, wsTold, wsHeard, wsEnd, wsErr>>

\* Another implementation sends the message in two frames (external).
PeerSendsFragments(text, type, k) ==
  /\ closing = NotYet /\ Len(wsTold) < MaxTexts /\ k \in 0..Len(text)
  /\ frames' = frames \o <<FrameOf(type, FALSE, SubSeq(text, 1, k)),
                           FrameOf(0, TRUE, SubSeq(text, k + 1, Len(text)))>>
  /\ wsTold' = Append(wsTold, [text |-> text, type |-> type, whole |-> FALSE])
  /\ UNCHANGED <<server, wsHeard, closing, wsEnd, wsErr>>

\* Or a frame libdill does not know, as a ping (external).
PeerSendsPing ==
  /\ closing = NotYet /\ frames = <<>>
  /\ frames' = Append(frames, FrameOf(9, TRUE, <<>>))
  /\ UNCHANGED <<server, wsTold, wsHeard, closing, wsEnd, wsErr>>

\* dill_ws_done: no status if it is 0; a reason may be given all the same.
StatusBytes(status) == IF status = 0 THEN <<>> ELSE <<status \div 256, status % 256>>
WsDone(status, reason) ==
  /\ closing = NotYet
  /\ closing' = [status |-> status, reason |-> reason]
  /\ frames' = Append(frames, FrameOf(8, TRUE, StatusBytes(status) \o reason))
  /\ UNCHANGED <<server, wsTold, wsHeard, wsEnd, wsErr>>

-----------------------------------------------------------------------------
\* dill_ws_recvl_base.

\* The bytes as the program gets them; place i of the piece read at once, from 0.
Unmask(bytes) ==
  [i \in DOMAIN bytes |->
     IF ~server THEN bytes[i]
     ELSE IF bytes[i][2] = (i - 1) % MaskLen THEN bytes[i][1] ELSE Garbage]

Total(s) == FoldLeft(LAMBDA acc, n : acc + n, 0, s)

\* One frame is read into the list, beginning with element at: every element gets
\* as much of the payload as it holds, from its start. The next frame begins with
\* the element where this one ends, at its start again.
ReadFrame(st, payload) ==
  LET sums == [j \in st.at..Len(st.lens) |-> Total(SubSeq(st.lens, st.at, j))]
      fits == {j \in DOMAIN sums : sums[j] >= Len(payload)}
      last == Min(fits)
      Piece(j) == SubSeq(payload, sums[j] - st.lens[j] + 1, IF j = last THEN Len(payload) ELSE sums[j])
      Over(old, new) == [i \in DOMAIN old |-> IF i \in DOMAIN new THEN new[i] ELSE old[i]]
  IN IF fits = {} THEN [st EXCEPT !.err = TRUE]
     ELSE [st EXCEPT !.at = last, !.res = @ + Len(payload),
             !.bufs = [j \in DOMAIN @ |-> IF j \in st.at..last THEN Over(@[j], Unmask(Piece(j)))
                                          ELSE @[j]]]

\* As much is read as the header announces.
SizeIn(size) == IF size.code > Short THEN size.ext ELSE size.code
Payload(f) == SubSeq(f.payload, 1, SizeIn(f.size))

\* The message in a list of elements of the given lengths: the first res bytes.
IntoList(lens, fs) ==
  LET start == [lens |-> lens, at |-> 1, res |-> 0, err |-> FALSE,
                bufs |-> [j \in DOMAIN lens |-> [i \in 1..lens[j] |-> Junk]]]
      end == FoldLeft(LAMBDA st, f : IF st.err THEN st ELSE ReadFrame(st, Payload(f)), start, fs)
      flat == FlattenSeq(end.bufs)
  IN [err |-> end.err, size |-> end.res, text |-> SubSeq(flat, 1, Min({end.res, Len(flat)}))]

\* Two or eight further bytes are read as the code says. Control frames cannot be
\* fragmented or long.
WellFormed(f) ==
  /\ f.op \in {0, 1, 2, 8} /\ f.masked = server
  /\ f.op = 8 => f.fin /\ SizeIn(f.size) <= Short

\* The last frame of the first message on its way.
FinalFrame == Min({i \in DOMAIN frames : frames[i].fin})

\* A close frame: the first two bytes are the status and the others the reason. They
\* are read as two pieces, so the mask begins anew with the reason. That the end
\* was reached (indone) is noted before anything is checked.
CloseRead(payload) ==
  LET head == Unmask(SubSeq(payload, 1, Min({2, Len(payload)})))
      value == head[1] * 256 + head[2]
      reason == Unmask(SubSeq(payload, 3, Len(payload)))
  IN CASE payload = <<>> -> [err |-> FALSE, status |-> 0, msg |-> <<>>]
       [] Len(payload) = 1 -> [err |-> TRUE, status |-> head[1], msg |-> <<>>]
       [] OTHER -> [err |-> value \notin 1000..4999, status |-> value,
                    msg |-> IF value \in 1000..4999 THEN reason ELSE <<>>]

\* A message, a close frame (its status and reason go to the object), or an error.
\* dill_ws_recv and dill_ws_recvl take any type (want = 0), dill_ws_mrecvl only its
\* own.
WsRecv(lens, want) ==
  /\ ~wsErr /\ ~wsEnd.indone /\ \E i \in DOMAIN frames : frames[i].fin
  /\ LET fs == SubSeq(frames, 1, FinalFrame)
         got == IntoList(lens, fs)
         close == CloseRead(Payload(fs[1]))
     IN IF \E i \in DOMAIN fs : ~WellFormed(fs[i])
        THEN wsErr' = TRUE /\ wsEnd' = [wsEnd EXCEPT !.indone = (fs[1].op = 8)] /\ UNCHANGED wsHeard
        ELSE IF fs[1].op = 8
        THEN /\ wsEnd' = [indone |-> TRUE, status |-> close.status, msg |-> close.msg]
             /\ wsErr' = close.err /\ UNCHANGED wsHeard
        ELSE IF got.err \/ want \notin {0, fs[1].op}
        THEN wsErr' = TRUE /\ UNCHANGED <<wsHeard, wsEnd>>
        ELSE /\ wsHeard' = Append(wsHeard, [text |-> got.text, size |-> got.size,
                                             type |-> fs[1].op, lens |-> lens])
             /\ UNCHANGED <<wsEnd, wsErr>>
  /\ frames' = SubSeq(frames, FinalFrame + 1, Len(frames))
  /\ UNCHANGED <<server, wsTold, closing>>

WsNext ==
  \/ \E text \in WsTexts, type \in {1, 2} :
       WsSend(text, type) \/ WsSendOverruns(text) \/ \E k \in 0..Len(text) : PeerSendsFragments(text, type, k)
  \/ PeerSendsPing
  \/ \E status \in {0, 1000}, reason \in Reasons : WsDone(status, reason)
  \/ \E lens \in WsLists, want \in 0..2 : WsRecv(lens, want)

-----------------------------------------------------------------------------
\* Messages arrive whole, in order and with their type, for messages of every size
\* class, sent in one frame and read into one buffer. When a receive reports the
\* end, the status is the one the peer gave (dill_ws_done, dill_ws_status), unless it
\* gave a reason without one; so is the reason, at the client. A server gets one of
\* the right length, garbled by the mask.
WsExact ==
  /\ Len(wsHeard) <= Len(wsTold)
  /\ \A i \in DOMAIN wsHeard :
       /\ wsHeard[i].type = wsTold[i].type /\ wsHeard[i].size = Len(wsTold[i].text)
       /\ wsTold[i].whole /\ Len(wsHeard[i].lens) = 1 => wsHeard[i].text = wsTold[i].text
  /\ wsEnd.indone /\ ~wsErr /\ (closing.status # 0 \/ closing.reason = <<>>)
       => /\ wsEnd.status = closing.status /\ Len(wsEnd.msg) = Len(closing.reason)
          /\ ~server => wsEnd.msg = closing.reason

\* man/ws_status.3: "ws_status function allows to retrieve the status and message
\* sent by the peer when it closed the protocol".
ReasonKept == wsEnd.indone /\ ~wsErr => wsEnd.msg = closing.reason

\* ws.c:384: "Message may consist of multiple frames. Read them one by one.", and
\* ws.c:436: "Frame may be read into multiple iolist elements."
MessagesWhole == \A i \in DOMAIN wsHeard : wsHeard[i].text = wsTold[i].text
=============================================================================
