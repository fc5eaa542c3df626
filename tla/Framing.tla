------------------------------- MODULE Framing -------------------------------
(***************************************************************************)
(* PREFIX and SUFFIX, the two ways libdill cuts a bytestream into messages *)
(* (prefix.c, suffix.c), one direction of a connection: a coroutine that   *)
(* sends messages, then detaches and sends plain bytes, and one at the     *)
(* other end that receives, detaches and receives plain bytes. The stream  *)
(* underneath delivers what was sent, in order (see Stream); a send may    *)
(* fail when any part of it is on its way, a receive when any part of the  *)
(* bytes that arrived has been taken.                                      *)
(***************************************************************************)
EXTENDS SeqOps, Integers, SequencesExt

CONSTANTS
  Base,       \* a byte is 0..Base-1 (256 in the code)
  HdrLen,     \* self->hdrlen
  Suffix,     \* self->suffix
  Texts,      \* the messages that are sent
  Buffers,    \* buffer lists to receive into: the lengths of their elements
  DirectSize, \* reads longer than this avoid the buffer (DILL_FD_BUFSIZE)
  MaxSent     \* bound on the messages, and on the plain bytes after them

ASSUME FramingAssumption ==
  /\ Base \in Nat \ {0, 1} /\ HdrLen \in Nat \ {0} /\ Len(Suffix) > 0
  /\ \A m \in Texts \cup {Suffix} : m \in Seq(0..(Base - 1))
  /\ \A lens \in Buffers : lens \in Seq(Nat) /\ lens # <<>>
  /\ MaxSent \in Nat /\ DirectSize \in Nat \ {0}

VARIABLES
  framing,   \* "prefix big", "prefix little" or "suffix"
  link,      \* bytes on their way
  outend,    \* the sender: "open", "err" (self->outerr), "off" (detached)
  inend,     \* the receiver: "open", "err" (self->inerr), "off", "crashed"
  texts,     \* history: messages whose send succeeded
  received,  \* history: [data, size] of the messages whose receive succeeded
  plainOut,  \* history: number of plain bytes sent after the detach
  plainIn    \* history: what was received after the detach

framingVars == <<framing, link, outend, inend, texts, received, plainOut, plainIn>>

\* dill_prefix_attach_mem, dill_suffix_attach_mem on both sides.
FramingInit ==
  /\ framing \in {"prefix big", "prefix little", "suffix"}
  /\ link = <<>> /\ outend = "open" /\ inend = "open"
  /\ texts = <<>> /\ received = <<>> /\ plainOut = 0 /\ plainIn = <<>>

\* dill_prefix_msendl: the size is shifted to the right once for each byte of the
\* header, which takes the low digit each time.
Shifted(size) ==
  LET q[i \in 0..HdrLen] == IF i = 0 THEN size ELSE q[i - 1] \div Base
  IN q
Header(size) ==
  [i \in 1..HdrLen |->
     Shifted(size)[IF framing = "prefix big" THEN HdrLen - i ELSE i - 1] % Base]

\* dill_prefix_mrecvl: the most significant digit first.
Digit(header, i) == IF framing = "prefix big" THEN header[i] ELSE header[HdrLen - i + 1]
SizeOf(header) ==
  LET sz[i \in 0..HdrLen] == IF i = 0 THEN 0 ELSE sz[i - 1] * Base + Digit(header, i)
  IN sz[HdrLen]

\* What the program may send, since neither socket checks it: with PREFIX, a
\* message whose size fits into the header (else its high digits are lost); with
\* SUFFIX, one in which the suffix does not appear ("TODO: Make sure that message
\* doesn't contain suffix sequence"), nor across its end.
Sendable(m) ==
  IF framing = "suffix"
  THEN \A i \in 0..(Len(m) - 1) : SubSeq(m \o Suffix, i + 1, i + Len(Suffix)) # Suffix
  ELSE Shifted(Len(m))[HdrLen] = 0

Frame(m) == IF framing = "suffix" THEN m \o Suffix ELSE Header(Len(m)) \o m

\* dill_prefix_msendl, dill_suffix_msendl. An error makes the socket unusable.
MSend(m) ==
  /\ outend = "open" /\ Len(texts) < MaxSent
  /\ link' = link \o Frame(m) /\ texts' = Append(texts, m)
  /\ UNCHANGED <<framing, outend, inend, received, plainOut, plainIn>>
MSendFails(m) ==
  /\ outend = "open" /\ Len(texts) < MaxSent
  /\ \E k \in 0..(Len(Frame(m)) - 1) : link' = link \o SubSeq(Frame(m), 1, k)
  /\ outend' = "err"
  /\ UNCHANGED <<framing, inend, texts, received, plainOut, plainIn>>

-----------------------------------------------------------------------------
Rest(s, k) == SubSeq(s, k + 1, Len(s))
Room(lens) == FoldLeft(LAMBDA acc, n : acc + n, 0, lens)

\* Result of a receive: what happened, how many bytes were taken, the message as
\* found in the buffers, and the size returned.
Outcome(what, taken, data, size) ==
  [what |-> what, taken |-> taken, data |-> data, size |-> size]

\* dill_prefix_mrecvl. A NULL list (drop) takes any size.
PrefixReceive(lens, drop) ==
  LET sz == SizeOf(SubSeq(link, 1, HdrLen))
  IN IF Len(link) < HdrLen THEN Outcome("wait", 0, <<>>, 0)
     ELSE IF ~drop /\ sz > Room(lens) THEN Outcome("EMSGSIZE", HdrLen, <<>>, 0)
     ELSE IF Len(link) < HdrLen + sz THEN Outcome("wait", 0, <<>>, 0)
     ELSE Outcome("ok", HdrLen + sz,
                  IF drop THEN <<>> ELSE SubSeq(link, HdrLen + 1, HdrLen + sz), sz)

\* dill_prefix_mrecvl cuts the list at the element where the message ends, but
\* passes on the end of the whole list. The read of dill_fd_recv into the buffers
\* themselves looks for that end, past the cut, where there is no element (NULL),
\* unless it begins with the element that was cut. "ahead" bytes of the message
\* came into the receive buffer together with the header.
RunsPastCut(lens, ahead) ==
  LET sz == SizeOf(SubSeq(link, 1, HdrLen))
  IN /\ framing # "suffix" /\ Len(link) >= HdrLen /\ sz - ahead > DirectSize
     /\ \E cut \in 1..(Len(lens) - 1) :
          /\ ahead < Room(SubSeq(lens, 1, cut - 1)) /\ Room(SubSeq(lens, 1, cut - 1)) < sz
          /\ sz <= Room(SubSeq(lens, 1, cut))
ReadAhead == {k \in 0..(DirectSize - 1) : k = 0 \/ HdrLen + k <= Len(link)}
CanRead(lens) == \E ahead \in ReadAhead : ~RunsPastCut(lens, ahead)

\* dill_suffix_mrecvl: a window of the suffix's length moves over the input until
\* it holds the suffix; the characters that leave it go to the buffers. Only the
\* length of the first element decides whether the next one is used: from an
\* empty one the list is run through to its end, and another one, once full,
\* swallows the characters that are left.
SuffixReceive(lens, drop) ==
  LET n == Len(Suffix)
      Window(i) == SubSeq(link, i + 1, i + n)
      ends == {i \in 0..(Len(link) - n) : Window(i) = Suffix}
      sz == CHOOSE i \in ends : \A j \in ends : i <= j
  IN IF ~drop /\ lens[1] = 0 /\ Len(link) >= n /\ 0 \notin ends
     THEN Outcome("EMSGSIZE", n, <<>>, 0)
     ELSE IF ends = {} THEN Outcome("wait", 0, <<>>, 0)
     ELSE Outcome("ok", sz + n,
                  IF drop THEN <<>> ELSE SubSeq(link, 1, IF sz < lens[1] THEN sz ELSE lens[1]), sz)

Receive(lens, drop) ==
  IF framing = "suffix" THEN SuffixReceive(lens, drop) ELSE PrefixReceive(lens, drop)

\* A receive that is given enough input returns; drop: the list is NULL
\* (PREFIX), or one element without a buffer as in dill_term_detach (SUFFIX). There
\* is no closing handshake: the program must know which message is the last.
MRecv(lens, drop) ==
  /\ inend = "open" /\ (outend = "off" => Len(received) < Len(texts))
  /\ drop \/ CanRead(lens)
  /\ LET r == Receive(lens, drop)
     IN /\ r.what # "wait"
        /\ link' = Rest(link, r.taken)
        /\ received' = IF r.what = "ok"
                       THEN Append(received, [data |-> r.data, size |-> r.size, drop |-> drop,
                                              room |-> Room(lens)])
                       ELSE received
        /\ inend' = IF r.what = "ok" THEN "open" ELSE "err"
  /\ UNCHANGED <<framing, outend, texts, plainOut, plainIn>>

\* The deadline expires, or the connection breaks, while the message is not yet
\* complete: the bytes taken so far are gone.
MRecvForgetsError(lens) ==
  /\ inend = "open" /\ CanRead(lens) /\ Receive(lens, FALSE).what = "wait"
  /\ \E k \in 0..Len(link) : link' = Rest(link, k)
  /\ UNCHANGED <<framing, inend, outend, texts, received, plainOut, plainIn>>
MRecvFails(lens) ==
  /\ inend = "open" /\ CanRead(lens) /\ Receive(lens, FALSE).what = "wait"
  /\ \E k \in 0..Len(link) : link' = Rest(link, k)
  /\ inend' = "err"
  /\ UNCHANGED <<framing, outend, texts, received, plainOut, plainIn>>

\* The process ends when it follows the list past its cut.
MRecvCrashes(lens) ==
  /\ inend = "open" /\ (outend = "off" => Len(received) < Len(texts))
  /\ \E ahead \in ReadAhead : RunsPastCut(lens, ahead)
  /\ inend' = "crashed"
  /\ UNCHANGED <<framing, link, outend, texts, received, plainOut, plainIn>>

\* dill_prefix_detach, dill_suffix_detach, after the last message. After an error
\* there is nothing left to use.
DetachOut ==
  /\ outend = "open" /\ outend' = "off"
  /\ UNCHANGED <<framing, link, inend, texts, received, plainOut, plainIn>>
DetachIn ==
  /\ inend = "open" /\ outend = "off" /\ Len(received) = Len(texts) /\ inend' = "off"
  /\ UNCHANGED <<framing, link, outend, texts, received, plainOut, plainIn>>

\* The program uses the socket underneath: byte Base + i is the i-th.
PlainSend ==
  /\ outend = "off" /\ plainOut < MaxSent
  /\ plainOut' = plainOut + 1 /\ link' = Append(link, Base + plainOut')
  /\ UNCHANGED <<framing, outend, inend, texts, received, plainIn>>
PlainRecv ==
  /\ inend = "off" /\ link # <<>>
  /\ plainIn' = Append(plainIn, Head(link)) /\ link' = Tail(link)
  /\ UNCHANGED <<framing, outend, inend, texts, received, plainOut>>

FramingNext ==
  \/ \E m \in Texts : Sendable(m) /\ (MSend(m) \/ MSendFails(m))
  \/ \E lens \in Buffers : (\E drop \in BOOLEAN : MRecv(lens, drop))
                          \/ MRecvFails(lens) \/ MRecvCrashes(lens)
  \/ DetachOut \/ DetachIn \/ PlainSend \/ PlainRecv

FramingSpec == FramingInit /\ [][FramingNext]_framingVars

-----------------------------------------------------------------------------
\* The messages received are those sent, in order, none of them cut or merged
\* whatever failed in between (an error on one side is remembered by that side)
\* and whichever list they are read into, if the receiver survives the read, up to
\* the length of the first buffer in the case of SUFFIX; and once both sides have
\* detached, the receiver gets the plain bytes and nothing of the messages.
FramesExact ==
  /\ Len(received) <= Len(texts)
  /\ \A i \in DOMAIN received :
       /\ received[i].size = Len(texts[i])
       /\ ~received[i].drop =>
            IF framing = "suffix" THEN IsPrefix(received[i].data, texts[i])
            ELSE received[i].data = texts[i]
  /\ \A i \in DOMAIN plainIn : plainIn[i] = Base + i

\* man/mrecv.3: "EMSGSIZE: The data won't fit into the supplied buffer."
SizeRespected ==
  \A i \in DOMAIN received : received[i].drop \/ received[i].size <= received[i].room
=============================================================================
