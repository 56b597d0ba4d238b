------------------------------- MODULE Ymodem -------------------------------
(***************************************************************************)
(* The transfer of an image to the boot loader: the sender of the          *)
(* reimaging tool (util/reimage/ymodem.c) and RedBoot's "load -m ymodem    *)
(* -r" (xyzModem.c, load.c), over a serial line that loses, garbles and    *)
(* adds characters.                                                        *)
(*                                                                         *)
(* A block travels as one item and a damaged block as another, whose       *)
(* effect on the receiver is chosen when it is read.  The receiver times   *)
(* out after 2 s of silence: by default only when the sender has nothing   *)
(* to react to, and otherwise as a stall that the bound MaxStray counts    *)
(* together with stray characters.  The sender's 60 s end only when nobody *)
(* is left to answer.                                                      *)
(*                                                                         *)
(* A definition named Faulty... is the one that follows it with a          *)
(* plausible bug; no specification uses it (README, "Seeded faults").      *)
(***************************************************************************)
EXTENDS Integers, Sequences, SequencesExt

CONSTANTS
  N,           \* data blocks of the file
  Mod,         \* block numbers are sent modulo this (256)
  MaxRetries,  \* xyzModem_MAX_RETRIES
  CrcRetries,  \* xyzModem_MAX_RETRIES_WITH_CRC
  Cans,        \* xyzModem_CAN_COUNT
  MaxDamage,   \* bound: items lost or garbled
  MaxStray     \* bound: stray characters and stalls of the sender

ASSUME YmodemAssumption ==
  /\ N \in Nat /\ Mod \in Nat /\ Mod > 2
  /\ MaxRetries \in Nat \ {0} /\ CrcRetries \in Nat \ {0}
  /\ Cans \in Nat \ {0} /\ MaxDamage \in Nat /\ MaxStray \in Nat

VARIABLES
  down, up,        \* the two directions of the line
  damage, stray,   \* what has gone wrong on it so far
  spc, block,      \* the sender: where it waits, and its blockno
  stalled,         \* the sender's computer is busy with something else
  rpc,             \* the receiver: open, read or final header, then prompt
  flushing,        \* "no", or the result of get_hdr after xyzModem_flush
  noisy, cans,     \* hdr_chars > 0 and can_total of this get_hdr
  retries, crcRetries,
  next,            \* next_blk
  atEof,           \* at_eof
  got,             \* the blocks that load has stored, by their place in the file
  report           \* what load prints: "none", "loaded" or "failed"

line == <<down, up, damage, stray>>
sender == <<spc, block, stalled>>
getHdr == <<flushing, noisy, cans>>
counters == <<retries, crcRetries>>
file == <<next, atEof, got, report>>
receiver == <<rpc, getHdr, counters, file>>
vars == <<line, sender, receiver>>

Data(n) == [kind |-> "block", n |-> n]
Eot == [kind |-> "eot"]
Can == [kind |-> "can"]
Bad == [kind |-> "bad"]
Noise == [kind |-> "noise"]

Items == {Data(n) : n \in 0..N} \cup {Eot, Can, Bad, Noise}
Replies == {"ACK", "C", "NAK", "noise"}

-----------------------------------------------------------------------------
(* The line: of the items sent at once, one may be lost or garbled, or a   *)
(* stray character may come first.                                         *)
Lost(items, i) == RemoveAt(items, i)

Put(q, items, garbled, noise) ==
  \/ q' = q \o items /\ UNCHANGED <<damage, stray>>
  \/ /\ damage < MaxDamage
     /\ damage' = damage + 1
     /\ \E i \in DOMAIN items :
          \/ q' = q \o Lost(items, i)
          \/ q' = q \o [items EXCEPT ![i] = garbled[i]]
     /\ UNCHANGED stray
  \/ /\ stray < MaxStray
     /\ stray' = stray + 1
     /\ q' = q \o <<noise>> \o items
     /\ UNCHANGED damage

GarbledItems(items) ==
  [i \in DOMAIN items |-> IF items[i].kind = "block" THEN Bad ELSE Noise]
GarbledReplies(replies) == [i \in DOMAIN replies |-> "noise"]

(* putonebyte and ymodem_send_block of the sender, PUTC of the receiver *)
Send(items) == Put(down, items, GarbledItems(items), Noise)
Reply(replies) == Put(up, replies, GarbledReplies(replies), "noise")

-----------------------------------------------------------------------------
(* The sender *)

Init ==
  /\ down = <<>> /\ up = <<>> /\ damage = 0 /\ stray = 0
  /\ spc = "start" /\ block = 0 /\ stalled = FALSE
  /\ rpc = "open" /\ flushing = "no" /\ noisy = FALSE /\ cans = 0
  /\ retries = MaxRetries /\ crcRetries = CrcRetries
  /\ next = 1 /\ atEof = FALSE /\ got = <<>> /\ report = "none"

(* ymodem_send_data flushes what has come so far *)
Start ==
  /\ spc = "start" /\ ~stalled
  /\ spc' = "ready" /\ up' = <<>>
  /\ UNCHANGED <<down, damage, stray, block, stalled, receiver>>

(* What the sender waits for next and sends, when it has read a character  *)
(* or, at "none", waited a minute in vain: <<next wait, blockno, items>>.  *)
Answer(ch) ==
  LET header == <<"header", 0, <<Data(0)>> >>
      quit == <<"done", block, <<>> >>
      data(b) == IF b > N THEN <<"eot", b, <<Eot>> >> ELSE <<"data", b, <<Data(b)>> >>
  IN CASE spc = "ready" -> IF ch = "C" THEN header ELSE quit
       [] spc = "header" /\ ch = "ACK" -> <<"headerC", 0, <<>> >>
       [] spc = "header" /\ ch = "NAK" -> header
       [] spc = "header" /\ ch \notin {"ACK", "NAK"} -> <<"done", 0, <<Can, Can>> >>
       [] spc = "headerC" -> IF ch = "C" THEN data(1) ELSE header
       [] spc = "data" /\ ch = "ACK" -> data(block + 1)
       [] spc = "data" /\ ch \in {"CAN", "none"} -> quit
       [] spc = "data" /\ ch \notin {"ACK", "CAN", "none"} -> data(block)
       [] spc = "eot" /\ ch = "ACK" -> <<"eotC", block, <<>> >>
       [] spc = "eotC" -> IF ch = "C" THEN <<"last", block, <<Data(0)>> >> ELSE quit
       [] spc \in {"eot", "last"} /\ ch = "none" -> quit
       [] spc = "eot" /\ ch \notin {"ACK", "none"} -> <<"eot", block, <<Eot>> >>
       [] spc = "last" -> IF ch = "ACK" THEN quit ELSE <<"last", block, <<Data(0)>> >>

React(ch) ==
  /\ spc' = Answer(ch)[1] /\ block' = Answer(ch)[2]
  /\ Send(Answer(ch)[3])
  /\ UNCHANGED stalled

GetReply ==
  /\ ~stalled /\ spc \notin {"start", "done"} /\ up # <<>>
  /\ React(Head(up))
  /\ up' = Tail(up)
  /\ UNCHANGED receiver

(* ymodem_getc_minute gives up: RedBoot is at its prompt and says nothing *)
GetNothing ==
  /\ ~stalled /\ spc \notin {"start", "done"} /\ up = <<>>
  /\ rpc = "prompt" /\ down = <<>>
  /\ React("none")
  /\ UNCHANGED <<up, receiver>>

Stall ==
  /\ ~stalled /\ stray < MaxStray
  /\ stalled' = TRUE /\ stray' = stray + 1
  /\ UNCHANGED <<down, up, damage, spc, block, receiver>>

Resume ==
  /\ stalled /\ stalled' = FALSE
  /\ UNCHANGED <<line, spc, block, receiver>>

-----------------------------------------------------------------------------
(* The receiver *)

crcMode == crcRetries > 0
Ask(crc) == IF crc > 0 THEN "C" ELSE "NAK"
Text == <<"noise", "C">>  \* what RedBoot prints has a C in it, and no ACK

EnterGetHdr(dirty) ==
  flushing' = "no" /\ noisy' = dirty /\ cans' = 0

ToPrompt(result) ==
  rpc' = "prompt" /\ report' = result /\ UNCHANGED counters

(* stream_open, when get_hdr has returned stat and, if it is ok, block n *)
Opened(stat, n) ==
  LET crc == IF stat = "timeout" /\ crcMode THEN crcRetries - 1 ELSE crcRetries
      replies == CASE stat = "timeout" -> <<Ask(crc)>>
                   [] stat = "eof" -> <<"ACK">>
                   [] OTHER -> <<>>
  IN /\ rpc = "open"
     /\ UNCHANGED <<next, atEof, got>>
     /\ \/ /\ stat = "ok"
           /\ rpc' = "read" /\ retries' = MaxRetries
           /\ Reply(IF n % Mod = 0 THEN <<"ACK">> ELSE <<>>)
           /\ UNCHANGED <<crcRetries, report>>
        \/ /\ stat \notin {"ok", "cancel"} /\ retries > 1
           /\ retries' = retries - 1 /\ crcRetries' = crc
           /\ Reply(replies)
           /\ UNCHANGED <<rpc, report>>
        \/ /\ stat = "cancel" \/ (stat # "ok" /\ retries = 1)
           /\ ToPrompt("failed")
           /\ Reply(replies \o Text)

(* stream_read: the block wanted, the one before it, or neither; a block   *)
(* is acknowledged when the next header is read, which nothing precedes.   *)
(* When the tries run out with stat = 0, the block before is data again.   *)
FaultyAccept(n) ==
  /\ n % Mod \in {next, (next - 1) % Mod}
  /\ got' = Append(got, n) /\ next' = (n + 1) % Mod
  /\ retries' = MaxRetries
  /\ Reply(<<"ACK">>)
  /\ UNCHANGED <<rpc, crcRetries, atEof, report>>

Accept(n) ==
  /\ n % Mod = next
  /\ got' = Append(got, n) /\ next' = (next + 1) % Mod
  /\ retries' = MaxRetries
  /\ Reply(<<"ACK">>)
  /\ UNCHANGED <<rpc, crcRetries, atEof, report>>

FaultyAcceptAgain(n) ==
  /\ n % Mod # next /\ n % Mod = (next - 1) % Mod
  /\ IF retries > 1
     THEN retries' = retries - 1 /\ UNCHANGED got
     ELSE retries' = MaxRetries /\ got' = Append(got, n)
  /\ Reply(<<>>)
  /\ UNCHANGED <<rpc, crcRetries, next, atEof, report>>

AcceptAgain(n) ==
  /\ n % Mod # next /\ n % Mod = (next - 1) % Mod
  /\ IF retries > 1
     THEN retries' = retries - 1 /\ UNCHANGED got
     ELSE retries' = MaxRetries /\ got' = Append(got, n)
  /\ Reply(<<"ACK">>)
  /\ UNCHANGED <<rpc, crcRetries, next, atEof, report>>

FaultyAskAgain ==
  /\ IF retries > 0
     THEN /\ retries' = retries - 1 /\ Reply(<<Ask(crcRetries)>>)
          /\ UNCHANGED <<rpc, crcRetries, report>>
     ELSE ToPrompt("loaded") /\ Reply(<<Ask(crcRetries)>> \o Text)
  /\ UNCHANGED <<next, atEof, got>>

AskAgain ==
  /\ IF retries > 1
     THEN /\ retries' = retries - 1 /\ Reply(<<Ask(crcRetries)>>)
          /\ UNCHANGED <<rpc, crcRetries, report>>
     ELSE ToPrompt("loaded") /\ Reply(<<Ask(crcRetries)>> \o Text)
  /\ UNCHANGED <<next, atEof, got>>

Read(stat, n) ==
  /\ rpc = "read"
  /\ \/ stat = "ok" /\ (Accept(n) \/ AcceptAgain(n))
     \/ stat = "ok" /\ n % Mod \notin {next, (next - 1) % Mod} /\ AskAgain
     \/ stat \in {"timeout", "frame", "cksum"} /\ AskAgain
     \/ /\ stat = "cancel"
        /\ ToPrompt("loaded") /\ Reply(Text)
        /\ UNCHANGED <<next, atEof, got>>
     \/ /\ stat = "eof"
        /\ rpc' = "final"
        /\ Reply(<<"ACK", "ACK", Ask(crcRetries)>>)
        /\ UNCHANGED <<counters, file>>

(* the final header, whatever comes *)
Final(stat) ==
  /\ rpc = "final"
  /\ ToPrompt("loaded") /\ atEof' = TRUE
  /\ Reply((IF stat = "eof" THEN <<"ACK", "ACK">> ELSE <<"ACK">>) \o Text)
  /\ UNCHANGED <<next, got>>

Return(stat, n, dirty) ==
  /\ Opened(stat, n) \/ Read(stat, n) \/ Final(stat)
  /\ EnterGetHdr(dirty)
  /\ UNCHANGED <<spc, block>>

(* xyzModem_get_hdr: one item of the line.  In checksum mode the second    *)
(* byte of the CRC is left over, and the first is not the checksum.        *)
Listening == rpc # "prompt" /\ flushing = "no" /\ down # <<>>

GetBlock ==
  /\ Listening /\ Head(down).kind = "block"
  /\ down' = Tail(down)
  /\ IF crcMode THEN Return("ok", Head(down).n, FALSE) ELSE Return("cksum", 0, TRUE)
  /\ UNCHANGED stalled

GetBad ==
  /\ Listening /\ Head(down).kind = "bad"
  /\ down' = Tail(down)
  /\ \/ Return("cksum", 0, FALSE) /\ UNCHANGED stalled
     \/ /\ flushing' \in {"frame", "timeout"}
        /\ UNCHANGED <<up, damage, stray, sender, rpc, noisy, cans, counters, file>>

GetCan ==
  /\ Listening /\ Head(down).kind = "can"
  /\ down' = Tail(down)
  /\ IF cans + 1 = Cans
     THEN Return("cancel", 0, FALSE) /\ UNCHANGED stalled
     ELSE /\ cans' = cans + 1 /\ noisy' = TRUE
          /\ UNCHANGED <<up, damage, stray, sender, rpc, flushing, counters, file>>

GetEot ==
  /\ Listening /\ Head(down).kind = "eot" /\ ~noisy
  /\ down' = Tail(down)
  /\ Return("eof", 0, FALSE) /\ UNCHANGED stalled

Ignore ==
  /\ Listening
  /\ Head(down).kind = "noise" \/ (Head(down).kind = "eot" /\ noisy)
  /\ down' = Tail(down) /\ noisy' = TRUE
  /\ UNCHANGED <<up, damage, stray, sender, rpc, flushing, cans, counters, file>>

(* Nothing comes for 2 s *)
Silent ==
  /\ down = <<>>
  /\ stalled \/ spc = "done" \/ (spc # "start" /\ up = <<>>)

Timeout ==
  /\ rpc # "prompt" /\ flushing = "no" /\ Silent
  /\ flushing' = "timeout"
  /\ UNCHANGED <<line, sender, rpc, noisy, cans, counters, file>>

(* xyzModem_flush, and the missing bytes of a damaged block *)
Toss ==
  /\ rpc # "prompt" /\ flushing # "no" /\ down # <<>>
  /\ down' = Tail(down)
  /\ UNCHANGED <<up, damage, stray, sender, receiver>>

FlushEnds ==
  /\ rpc # "prompt" /\ flushing # "no" /\ Silent
  /\ Return(flushing, 0, FALSE)
  /\ stalled' = FALSE
  /\ UNCHANGED down

(* RedBoot's command line echoes some of what it gets *)
Prompt ==
  /\ rpc = "prompt" /\ down # <<>>
  /\ down' = Tail(down)
  /\ \E echo \in Replies \cup {"CAN", "none"} :
       up' = IF echo = "none" THEN up ELSE Append(up, echo)
  /\ UNCHANGED <<damage, stray, sender, receiver>>

-----------------------------------------------------------------------------
Done ==
  /\ rpc = "prompt" /\ spc = "done" /\ down = <<>> /\ UNCHANGED vars

SenderStep == Start \/ GetReply \/ GetNothing \/ Resume
ReceiverStep ==
  \/ GetBlock \/ GetBad \/ GetCan \/ GetEot \/ Ignore
  \/ Timeout \/ Toss \/ FlushEnds \/ Prompt

Next == SenderStep \/ ReceiverStep \/ Stall \/ Done

(* Neither computer stops, and a stall ends.                               *)
Fairness == WF_vars(SenderStep) /\ WF_vars(ReceiverStep)

Spec == Init /\ [][Next]_vars
FairSpec == Spec /\ Fairness

-----------------------------------------------------------------------------
TypeOK ==
  /\ down \in Seq(Items) /\ up \in Seq(Replies \cup {"CAN"})
  /\ damage \in 0..MaxDamage /\ stray \in 0..MaxStray
  /\ spc \in {"start", "ready", "header", "headerC", "data", "eot", "eotC", "last", "done"}
  /\ block \in 0..N + 1 /\ stalled \in BOOLEAN
  /\ rpc \in {"open", "read", "final", "prompt"}
  /\ flushing \in {"no", "timeout", "frame"} /\ noisy \in BOOLEAN /\ cans \in 0..Cans
  /\ retries \in 1..MaxRetries /\ crcRetries \in 0..CrcRetries
  /\ next \in 0..Mod - 1 /\ atEof \in BOOLEAN
  /\ got \in Seq(0..N) /\ report \in {"none", "loaded", "failed"}

(* What has been loaded is the beginning of the file: no block is missing, *)
(* twice or out of order, although block numbers wrap, acknowledgements    *)
(* are lost and the two sides fall out of step (xyzModem_stream_read).     *)
(* It needs enough tries, and a file whose end does not fall on the block  *)
(* numbered Mod - 1: for the receiver that waits for number 0 behind it,   *)
(* the header that ends the session is that block (MCYmodem_desync.cfg).   *)
InOrder == \A i \in DOMAIN got : got[i] = i

(* Unless characters are added or the sender stalls, a transfer whose      *)
(* damage is less than the retries ends with the whole file loaded, or is  *)
(* given up by the sender before its first data block.                     *)
Delivered ==
  <>(/\ rpc = "prompt"
     /\ stray = 0 => Len(got) = N \/ (spc = "done" /\ block = 0))

(* load reports a raw image as loaded only when the receiver has seen the  *)
(* end of the file: redboot_getc returns -1 for "error or EOF, status in   *)
(* getc_info.err" (load.c:117).  Violated: the raw path does not look.     *)
LoadedMeansEof == report = "loaded" => atEof

(* The end of the file is seen only behind its last block: violated,       *)
(* xyzModem_get_hdr accepts EOT whatever block came last.                  *)
EofMeansComplete == atEof => Len(got) = N
=============================================================================
