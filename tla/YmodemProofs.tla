---------------------------- MODULE YmodemProofs ----------------------------
(***************************************************************************)
(* Proofs about Ymodem for every file, every modulus and any number of     *)
(* tries: types, and that on a line which only loses and garbles what has  *)
(* been loaded is the beginning of the file.                               *)
(*                                                                         *)
(* On such a line at most one item or reply is under way, so that a state  *)
(* is known by the sender's wait and by what that one is (Opening to       *)
(* Ending).  A block is stored twice only if the tries run out at a        *)
(* repetition; every loss or garbling costs the receiver at most two tries *)
(* before a block gets through, and the invariant counts, in each state of *)
(* a sender that is at a block already stored, how many of them can have   *)
(* been used.                                                              *)
(***************************************************************************)
EXTENDS Ymodem, SequenceTheorems, TLAPS

(***************************************************************************)
(* Types.                                                                  *)
(***************************************************************************)
Places == {"start", "ready", "header", "headerC", "data", "eot", "eotC", "last", "done"}
Characters == Replies \cup {"CAN"}
Statuses == {"ok", "eof", "cancel", "timeout", "frame", "cksum"}

(* TypeOK, and with it: a block of data is one of the file.                *)
SenderTypes ==
  /\ spc \in Places
  /\ block \in 0..N + 1
  /\ spc = "data" => block \in 1..N
LineTypes ==
  /\ down \in Seq(Items)
  /\ up \in Seq(Characters)
  /\ damage \in 0..MaxDamage /\ stray \in 0..MaxStray
GetHdrTypes ==
  /\ flushing \in {"no", "timeout", "frame"}
  /\ cans \in 0..Cans - 1
LoadTypes ==
  /\ rpc \in {"open", "read", "final", "prompt"}
  /\ retries \in 1..MaxRetries /\ crcRetries \in 0..CrcRetries
  /\ next \in 0..Mod - 1
  /\ got \in Seq(0..N) /\ report \in {"none", "loaded", "failed"}
FlagTypes == stalled \in BOOLEAN /\ noisy \in BOOLEAN /\ atEof \in BOOLEAN
Types == SenderTypes /\ LineTypes /\ GetHdrTypes /\ LoadTypes /\ FlagTypes

LEMMA TypesAnswer == Types => TypeOK
BY YmodemAssumption
   DEF Types, SenderTypes, LineTypes, GetHdrTypes, LoadTypes, FlagTypes, TypeOK, Places, Characters

LEMMA InitTypes == Init => Types
<1>. SUFFICES ASSUME Init PROVE Types
  OBVIOUS
<1>1. <<>> \in Seq(Items) /\ <<>> \in Seq(Characters) /\ <<>> \in Seq(0..N)
  OBVIOUS
<1>2. SenderTypes
  BY YmodemAssumption DEF Init, SenderTypes, Places
<1>3. LineTypes
  BY <1>1, YmodemAssumption DEF Init, LineTypes
<1>4. GetHdrTypes /\ LoadTypes
  BY <1>1, YmodemAssumption DEF Init, GetHdrTypes, LoadTypes
<1>5. FlagTypes
  BY Zenon DEF Init, FlagTypes
<1>. QED
  BY <1>2, <1>3, <1>4, <1>5 DEF Types

LEMMA ItemsAre ==
  /\ Eot \in Items /\ Can \in Items /\ Bad \in Items /\ Noise \in Items
  /\ \A n \in 0..N : Data(n) \in Items
BY DEF Items

(* What comes into a queue, whatever happens to it on the way.             *)
LEMMA LostTypes ==
  ASSUME NEW T, NEW items \in Seq(T), NEW i \in DOMAIN items
  PROVE  Lost(items, i) \in Seq(T)
<1>1. i \in 1..Len(items)
  BY LenProperties
<1>2. SubSeq(items, 1, i - 1) \in Seq(T) /\ SubSeq(items, i + 1, Len(items)) \in Seq(T)
  BY <1>1, SubSeqProperties
<1>. QED
  BY <1>2, ConcatProperties DEF Lost, RemoveAt

LEMMA PutTypes ==
  ASSUME NEW T, NEW q \in Seq(T), NEW q1, NEW items \in Seq(T),
         NEW garbled, \A i \in DOMAIN items : garbled[i] \in T, NEW noise \in T,
         \/ q1 = q \o items
         \/ \E i \in DOMAIN items :
              q1 = q \o Lost(items, i) \/ q1 = q \o [items EXCEPT ![i] = garbled[i]]
         \/ q1 = q \o <<noise>> \o items
  PROVE  q1 \in Seq(T)
<1>1. CASE q1 = q \o items
  BY <1>1, ConcatProperties
<1>2. CASE \E i \in DOMAIN items : q1 = q \o Lost(items, i)
  BY <1>2, LostTypes, ConcatProperties
<1>3. ASSUME NEW i \in DOMAIN items, q1 = q \o [items EXCEPT ![i] = garbled[i]]
      PROVE  q1 \in Seq(T)
  <2>1. [items EXCEPT ![i] = garbled[i]] \in Seq(T)
    BY ExceptSeq, LenProperties
  <2>. QED
    BY <1>3, <2>1, ConcatProperties
<1>4. CASE q1 = q \o <<noise>> \o items
  <2>1. <<noise>> \in Seq(T)
    OBVIOUS
  <2>2. q \o <<noise>> \in Seq(T)
    BY <2>1, ConcatProperties
  <2>. QED
    BY <1>4, <2>2, ConcatProperties
<1>. QED
  BY <1>1, <1>2, <1>3, <1>4

LEMMA SendTypes ==
  ASSUME LineTypes, NEW items \in Seq(Items), Send(items)
  PROVE  down' \in Seq(Items) /\ damage' \in 0..MaxDamage /\ stray' \in 0..MaxStray
<1>1. damage' \in 0..MaxDamage /\ stray' \in 0..MaxStray
  BY YmodemAssumption DEF LineTypes, Send, Put
<1>2. \A i \in DOMAIN items : GarbledItems(items)[i] \in Items
  BY ItemsAre DEF GarbledItems
<1>3. \/ down' = down \o items
      \/ \E i \in DOMAIN items : \/ down' = down \o Lost(items, i)
                                 \/ down' = down \o [items EXCEPT ![i] = GarbledItems(items)[i]]
      \/ down' = down \o <<Noise>> \o items
  BY DEF Send, Put
<1>4. down' \in Seq(Items)
  BY <1>2, <1>3, PutTypes, ItemsAre DEF LineTypes
<1>. QED
  BY <1>1, <1>4

LEMMA ReplyTypes ==
  ASSUME LineTypes, NEW replies \in Seq(Replies), Reply(replies)
  PROVE  up' \in Seq(Characters) /\ damage' \in 0..MaxDamage /\ stray' \in 0..MaxStray
<1>1. damage' \in 0..MaxDamage /\ stray' \in 0..MaxStray
  BY YmodemAssumption DEF LineTypes, Reply, Put
<1>2. "noise" \in Characters /\ \A i \in DOMAIN replies : GarbledReplies(replies)[i] \in Characters
  BY DEF GarbledReplies, Replies, Characters
<1>3. \/ up' = up \o replies
      \/ \E i \in DOMAIN replies : \/ up' = up \o Lost(replies, i)
                                 \/ up' = up \o [replies EXCEPT ![i] = GarbledReplies(replies)[i]]
      \/ up' = up \o <<"noise">> \o replies
  BY DEF Reply, Put
<1>4. replies \in Seq(Characters)
  BY SeqMonotonic DEF Characters
<1>5. up' \in Seq(Characters)
  BY <1>2, <1>3, <1>4, PutTypes DEF LineTypes
<1>. QED
  BY <1>1, <1>5

(* The sender's answers.                                                   *)
LEMMA AnswerTypes ==
  ASSUME SenderTypes, spc \notin {"start", "done"}, NEW ch \in Characters \cup {"none"}
  PROVE  /\ Answer(ch)[1] \in Places
         /\ Answer(ch)[2] \in 0..N + 1
         /\ Answer(ch)[1] = "data" => Answer(ch)[2] \in 1..N
         /\ Answer(ch)[3] \in Seq(Items)
<1>. DEFINE Fits(a) == /\ a[1] \in Places
                       /\ a[2] \in 0..N + 1
                       /\ a[1] = "data" => a[2] \in 1..N
                       /\ a[3] \in Seq(Items)
<1>. DEFINE header == <<"header", 0, <<Data(0)>> >>
            quit == <<"done", block, <<>> >>
            data(b) == IF b > N THEN <<"eot", b, <<Eot>> >> ELSE <<"data", b, <<Data(b)>> >>
<1>0. N \in Nat /\ block \in 0..N + 1 /\ <<>> \in Seq(Items)
  BY YmodemAssumption DEF SenderTypes
<1>1. Fits(header)
  BY <1>0, ItemsAre DEF Places
<1>2. Fits(quit)
  BY <1>0 DEF Places
<1>3. Fits(<<"done", 0, <<Can, Can>> >>) /\ Fits(<<"headerC", 0, <<>> >>)
      /\ Fits(<<"eotC", block, <<>> >>)
  BY <1>0, ItemsAre DEF Places
<1>4. Fits(<<"last", block, <<Data(0)>> >>) /\ Fits(<<"eot", block, <<Eot>> >>)
  BY <1>0, ItemsAre DEF Places
<1>5. ASSUME NEW b \in 1..N + 1 PROVE Fits(data(b))
  <2>1. CASE b > N
    BY <1>0, <2>1, ItemsAre DEF Places
  <2>2. CASE b <= N
    <3>1. b \in 1..N /\ Data(b) \in Items
      BY <1>0, <2>2, ItemsAre
    <3>. QED
      BY <1>0, <2>2, <3>1 DEF Places
  <2>. QED
    BY <1>0, <2>1, <2>2
<1>6. spc = "data" => block \in 1..N + 1 /\ block + 1 \in 1..N + 1
  BY <1>0 DEF SenderTypes
<1>7. 1 \in 1..N + 1
  BY <1>0
<1>8. Answer(ch) \in {header, quit, <<"done", 0, <<Can, Can>> >>, <<"headerC", 0, <<>> >>,
                      <<"eotC", block, <<>> >>, <<"last", block, <<Data(0)>> >>,
                      <<"eot", block, <<Eot>> >>, data(1)}
      \/ (spc = "data" /\ Answer(ch) \in {data(block), data(block + 1)})
  <2>. HIDE DEF data, header, quit
  <2>1. CASE spc \in {"ready", "header", "headerC"}
    BY <2>1 DEF Answer, data, header, quit
  <2>2. CASE spc = "data"
    BY <2>2 DEF Answer, data, header, quit
  <2>3. CASE spc \in {"eot", "eotC", "last"}
    BY <2>3 DEF Answer, data, header, quit
  <2>. QED
    BY <2>1, <2>2, <2>3 DEF SenderTypes, Places
<1>9. Fits(Answer(ch))
  <2>. HIDE DEF Fits, data, header, quit
  <2>. QED
    BY <1>1, <1>2, <1>3, <1>4, <1>5, <1>6, <1>7, <1>8
<1>. QED
  BY <1>9

LEMMA ReactTypes ==
  ASSUME Types, spc \notin {"start", "done"}, NEW ch \in Characters \cup {"none"}, React(ch)
  PROVE  /\ SenderTypes' /\ stalled' = stalled
         /\ down' \in Seq(Items) /\ damage' \in 0..MaxDamage /\ stray' \in 0..MaxStray
<1>. DEFINE a == Answer(ch)
<1>1. a[1] \in Places /\ a[2] \in 0..N + 1 /\ (a[1] = "data" => a[2] \in 1..N)
      /\ a[3] \in Seq(Items)
  BY AnswerTypes DEF Types
<1>2. spc' = a[1] /\ block' = a[2] /\ Send(a[3]) /\ stalled' = stalled
  BY DEF React
<1>. HIDE DEF a
<1>3. SenderTypes'
  BY <1>1, <1>2 DEF SenderTypes
<1>. QED
  BY <1>1, <1>2, <1>3, SendTypes DEF Types

(* The receiver's replies.                                                 *)
LEMMA RepliesAre ==
  /\ <<>> \in Seq(Replies) /\ <<"ACK">> \in Seq(Replies) /\ Text \in Seq(Replies)
  /\ <<"ACK">> \o Text \in Seq(Replies) /\ <<"ACK", "ACK">> \o Text \in Seq(Replies)
  /\ \A crc : /\ <<Ask(crc)>> \in Seq(Replies)
              /\ <<Ask(crc)>> \o Text \in Seq(Replies)
              /\ <<"ACK", "ACK", Ask(crc)>> \in Seq(Replies)
<1>1. <<>> \in Seq(Replies) /\ <<"ACK">> \in Seq(Replies) /\ Text \in Seq(Replies)
      /\ <<"ACK", "ACK">> \in Seq(Replies)
  BY DEF Replies, Text
<1>2. \A crc : <<Ask(crc)>> \in Seq(Replies) /\ <<"ACK", "ACK", Ask(crc)>> \in Seq(Replies)
  BY DEF Replies, Ask
<1>. QED
  BY <1>1, <1>2, ConcatProperties

LEMMA OpenedTypes ==
  ASSUME Types, NEW stat, NEW n, Opened(stat, n)
  PROVE  /\ LoadTypes' /\ atEof' = atEof
         /\ up' \in Seq(Characters) /\ damage' \in 0..MaxDamage /\ stray' \in 0..MaxStray
<1>. DEFINE crc == IF stat = "timeout" /\ crcMode THEN crcRetries - 1 ELSE crcRetries
            replies == CASE stat = "timeout" -> <<Ask(crc)>>
                         [] stat = "eof" -> <<"ACK">>
                         [] OTHER -> <<>>
<1>1. crc \in 0..CrcRetries
  BY YmodemAssumption DEF Types, LoadTypes, crcMode
<1>2. replies \in Seq(Replies) /\ replies \o Text \in Seq(Replies)
  BY RepliesAre, ConcatProperties
<1>3. /\ UNCHANGED <<next, atEof, got>>
      /\ \/ /\ rpc' = "read" /\ retries' = MaxRetries
            /\ Reply(IF n % Mod = 0 THEN <<"ACK">> ELSE <<>>)
            /\ UNCHANGED <<crcRetries, report>>
         \/ /\ retries > 1 /\ retries' = retries - 1 /\ crcRetries' = crc
            /\ Reply(replies)
            /\ UNCHANGED <<rpc, report>>
         \/ ToPrompt("failed") /\ Reply(replies \o Text)
  BY DEF Opened
<1>. HIDE DEF crc, replies
<1>4. LoadTypes'
  BY <1>1, <1>3, YmodemAssumption DEF Types, LoadTypes, ToPrompt, counters
<1>5. \E r \in Seq(Replies) : Reply(r)
  <2>1. (IF n % Mod = 0 THEN <<"ACK">> ELSE <<>>) \in Seq(Replies)
    BY RepliesAre
  <2>. QED
    BY <1>2, <1>3, <2>1
<1>. QED
  BY <1>3, <1>4, <1>5, ReplyTypes DEF Types

LEMMA ReadTypes ==
  ASSUME Types, NEW stat, NEW n \in 0..N, Read(stat, n)
  PROVE  /\ LoadTypes' /\ atEof' = atEof
         /\ up' \in Seq(Characters) /\ damage' \in 0..MaxDamage /\ stray' \in 0..MaxStray
<1>1. CASE Accept(n) \/ AcceptAgain(n)
  <2>1. (next + 1) % Mod \in 0..Mod - 1
    BY YmodemAssumption DEF Types, LoadTypes
  <2>2. Append(got, n) \in Seq(0..N)
    BY AppendProperties DEF Types, LoadTypes
  <2>3. /\ got' \in {got, Append(got, n)}
        /\ next' \in {next, (n + 1) % Mod, (next + 1) % Mod}
        /\ retries' \in {MaxRetries} \/ (retries > 1 /\ retries' = retries - 1)
        /\ UNCHANGED <<rpc, crcRetries, atEof, report>>
    BY <1>1 DEF Accept, AcceptAgain
  <2>5. LoadTypes'
    <3>1. (n + 1) % Mod \in 0..Mod - 1 /\ LoadTypes
      BY YmodemAssumption DEF Types
    <3>2. next' \in 0..Mod - 1 /\ got' \in Seq(0..N)
      BY <2>1, <2>2, <2>3, <3>1 DEF LoadTypes
    <3>3. retries' \in 1..MaxRetries
      BY <2>3, <3>1, YmodemAssumption DEF LoadTypes
    <3>. QED
      BY <2>3, <3>1, <3>2, <3>3 DEF LoadTypes
  <2>4. Reply(<<"ACK">>)
    BY <1>1 DEF Accept, AcceptAgain
  <2>. QED
    BY <2>3, <2>4, <2>5, RepliesAre, ReplyTypes DEF Types
<1>2. CASE AskAgain
  <2>1. LoadTypes'
    BY <1>2, YmodemAssumption DEF Types, LoadTypes, AskAgain, ToPrompt, counters
  <2>3. atEof' = atEof
    BY <1>2 DEF AskAgain
  <2>2. Reply(<<Ask(crcRetries)>>) \/ Reply(<<Ask(crcRetries)>> \o Text)
    BY <1>2 DEF AskAgain
  <2>. QED
    BY <2>1, <2>2, <2>3, RepliesAre, ReplyTypes DEF Types
<1>3. CASE ToPrompt("loaded") /\ Reply(Text) /\ UNCHANGED <<next, atEof, got>>
  <2>1. LoadTypes'
    BY <1>3 DEF Types, LoadTypes, ToPrompt, counters
  <2>. QED
    BY <1>3, <2>1, RepliesAre, ReplyTypes DEF Types
<1>4. CASE rpc' = "final" /\ Reply(<<"ACK", "ACK", Ask(crcRetries)>>) /\ UNCHANGED <<counters, file>>
  <2>1. LoadTypes'
    BY <1>4 DEF Types, LoadTypes, counters, file
  <2>2. atEof' = atEof
    BY <1>4 DEF file
  <2>. QED
    BY <1>4, <2>1, <2>2, RepliesAre, ReplyTypes DEF Types
<1>. QED
  BY <1>1, <1>2, <1>3, <1>4 DEF Read

LEMMA FinalTypes ==
  ASSUME Types, NEW stat, Final(stat)
  PROVE  /\ LoadTypes' /\ atEof' = TRUE
         /\ up' \in Seq(Characters) /\ damage' \in 0..MaxDamage /\ stray' \in 0..MaxStray
<1>1. LoadTypes'
  BY DEF Final, Types, LoadTypes, ToPrompt, counters
<1>3. atEof' = TRUE
  BY DEF Final
<1>2. Reply(<<"ACK", "ACK">> \o Text) \/ Reply(<<"ACK">> \o Text)
  BY DEF Final
<1>. QED
  BY <1>1, <1>2, <1>3, RepliesAre, ReplyTypes DEF Types

LEMMA ReturnTypes ==
  ASSUME Types, NEW stat, NEW n \in 0..N, NEW dirty \in BOOLEAN, Return(stat, n, dirty),
         down' \in Seq(Items), stalled' \in BOOLEAN
  PROVE  Types'
<1>1. /\ LoadTypes' /\ atEof' \in {atEof, TRUE}
      /\ up' \in Seq(Characters) /\ damage' \in 0..MaxDamage /\ stray' \in 0..MaxStray
  BY OpenedTypes, ReadTypes, FinalTypes DEF Return
<1>2. GetHdrTypes'
  BY YmodemAssumption DEF Return, EnterGetHdr, GetHdrTypes
<1>3. SenderTypes'
  BY DEF Return, SenderTypes, Types
<1>4. FlagTypes'
  BY <1>1, Zenon DEF Return, EnterGetHdr, FlagTypes, Types
<1>5. LineTypes'
  BY <1>1 DEF LineTypes
<1>. QED
  BY <1>1, <1>2, <1>3, <1>4, <1>5 DEF Types

LEMMA HeadDown ==
  ASSUME Types, down # <<>>
  PROVE  /\ Head(down) \in Items /\ Tail(down) \in Seq(Items)
         /\ Head(down).kind = "block" => Head(down) = Data(Head(down).n) /\ Head(down).n \in 0..N
<1>1. Head(down) \in Items /\ Tail(down) \in Seq(Items)
  BY HeadTailProperties DEF Types, LineTypes
<1>. QED
  BY <1>1 DEF Items, Data, Eot, Can, Bad, Noise

LEMMA StepTypes == Types /\ [Next]_vars => Types'
<1>. SUFFICES ASSUME Types, [Next]_vars PROVE Types'
  OBVIOUS
<1>. USE DEF receiver, sender, line, getHdr, counters, file
<1>1. CASE Start
  <2>1. <<>> \in Seq(Characters)
    OBVIOUS
  <2>2. SenderTypes' /\ LineTypes' /\ GetHdrTypes' /\ LoadTypes'
    BY <1>1, <2>1, YmodemAssumption
       DEF Start, Types, SenderTypes, LineTypes, GetHdrTypes, LoadTypes, Places
  <2>3. FlagTypes'
    BY <1>1, Zenon DEF Start, Types, FlagTypes
  <2>. QED
    BY <2>2, <2>3 DEF Types
<1>2. CASE GetReply \/ GetNothing
  <2>1. PICK ch \in Characters \cup {"none"} : /\ spc \notin {"start", "done"} /\ React(ch)
                                               /\ up' \in {up, Tail(up)} /\ (up = <<>> => up' = up)
                                               /\ UNCHANGED receiver
    <3>1. CASE GetReply
      <4>1. Head(up) \in Characters
        BY <3>1, HeadTailProperties DEF GetReply, Types, LineTypes
      <4>. QED
        BY <3>1, <4>1 DEF GetReply
    <3>2. CASE GetNothing
      BY <3>2 DEF GetNothing
    <3>. QED
      BY <1>2, <3>1, <3>2
  <2>2. /\ SenderTypes' /\ stalled' = stalled
        /\ down' \in Seq(Items) /\ damage' \in 0..MaxDamage /\ stray' \in 0..MaxStray
    BY <2>1, ReactTypes
  <2>3. up' \in Seq(Characters)
    <3>1. up \in Seq(Characters)
      BY DEF Types, LineTypes
    <3>2. up # <<>> => Tail(up) \in Seq(Characters)
      BY <3>1, HeadTailProperties
    <3>. QED
      BY <2>1, <3>1, <3>2
  <2>4. LineTypes' /\ GetHdrTypes' /\ LoadTypes'
    BY <2>1, <2>2, <2>3 DEF Types, LineTypes, GetHdrTypes, LoadTypes
  <2>5. FlagTypes'
    BY <2>1, <2>2, Zenon DEF Types, FlagTypes
  <2>. QED
    BY <2>2, <2>4, <2>5 DEF Types
<1>3. CASE Stall \/ Resume
  <2>0. /\ stray' = stray \/ (stray < MaxStray /\ stray' = stray + 1)
        /\ UNCHANGED <<down, up, damage, spc, block, receiver>>
    BY <1>3 DEF Stall, Resume
  <2>1. SenderTypes' /\ LineTypes' /\ GetHdrTypes' /\ LoadTypes'
    BY <2>0, YmodemAssumption DEF Types, SenderTypes, LineTypes, GetHdrTypes, LoadTypes
  <2>2. FlagTypes'
    BY <1>3, Zenon DEF Stall, Resume, Types, FlagTypes
  <2>. QED
    BY <2>1, <2>2 DEF Types
<1>4. CASE GetBlock
  <2>1. Head(down).n \in 0..N /\ 0 \in 0..N /\ down' \in Seq(Items) /\ stalled' \in BOOLEAN
    BY <1>4, HeadDown, YmodemAssumption DEF GetBlock, Listening, Types, FlagTypes
  <2>2. Return("ok", Head(down).n, FALSE) \/ Return("cksum", 0, TRUE)
    BY <1>4 DEF GetBlock
  <2>. QED
    BY <2>1, <2>2, ReturnTypes
<1>5. CASE GetBad
  <2>1. 0 \in 0..N /\ down' \in Seq(Items)
    BY <1>5, HeadDown, YmodemAssumption DEF GetBad, Listening
  <2>2. CASE Return("cksum", 0, FALSE) /\ UNCHANGED stalled
    <3>1. stalled' \in BOOLEAN
      BY <2>2, Zenon DEF Types, FlagTypes
    <3>. QED
      BY <2>1, <2>2, <3>1, ReturnTypes
  <2>3. CASE /\ flushing' \in {"frame", "timeout"}
             /\ UNCHANGED <<up, damage, stray, sender, rpc, noisy, cans, counters, file>>
    <3>1. SenderTypes' /\ LineTypes' /\ GetHdrTypes' /\ LoadTypes'
      BY <2>1, <2>3 DEF Types, SenderTypes, LineTypes, GetHdrTypes, LoadTypes
    <3>2. FlagTypes'
      BY <2>3, Zenon DEF Types, FlagTypes
    <3>. QED
      BY <3>1, <3>2 DEF Types
  <2>. QED
    BY <1>5, <2>2, <2>3 DEF GetBad
<1>6. CASE GetCan
  <2>1. 0 \in 0..N /\ down' \in Seq(Items)
    BY <1>6, HeadDown, YmodemAssumption DEF GetCan, Listening
  <2>2. CASE Return("cancel", 0, FALSE) /\ UNCHANGED stalled
    <3>1. stalled' \in BOOLEAN
      BY <2>2, Zenon DEF Types, FlagTypes
    <3>. QED
      BY <2>1, <2>2, <3>1, ReturnTypes
  <2>3. CASE /\ cans + 1 # Cans /\ cans' = cans + 1 /\ noisy' = TRUE
             /\ UNCHANGED <<up, damage, stray, sender, rpc, flushing, counters, file>>
    <3>1. cans + 1 \in 0..Cans - 1
      <4>1. cans \in 0..Cans - 1 /\ cans + 1 # Cans
        BY <2>3 DEF Types, GetHdrTypes
      <4>. QED
        BY <4>1, YmodemAssumption
    <3>2. SenderTypes' /\ LineTypes' /\ GetHdrTypes' /\ LoadTypes'
      BY <2>1, <2>3, <3>1, YmodemAssumption
         DEF Types, SenderTypes, LineTypes, GetHdrTypes, LoadTypes
    <3>3. FlagTypes'
      BY <2>3, Zenon DEF Types, FlagTypes
    <3>. QED
      BY <3>2, <3>3 DEF Types
  <2>. QED
    BY <1>6, <2>2, <2>3 DEF GetCan
<1>7. CASE GetEot
  <2>1. 0 \in 0..N /\ down' \in Seq(Items) /\ stalled' \in BOOLEAN
    BY <1>7, HeadDown, YmodemAssumption DEF GetEot, Listening, Types, FlagTypes
  <2>2. Return("eof", 0, FALSE)
    BY <1>7 DEF GetEot
  <2>. QED
    BY <2>1, <2>2, ReturnTypes
<1>8. CASE Ignore \/ Toss
  <2>1. down' \in Seq(Items)
    BY <1>8, HeadDown DEF Ignore, Toss, Listening
  <2>2. SenderTypes' /\ LineTypes' /\ GetHdrTypes' /\ LoadTypes'
    BY <1>8, <2>1 DEF Ignore, Toss, Types, SenderTypes, LineTypes, GetHdrTypes, LoadTypes
  <2>3. FlagTypes'
    BY <1>8, Zenon DEF Ignore, Toss, Types, FlagTypes
  <2>. QED
    BY <2>2, <2>3 DEF Types
<1>9. CASE Timeout
  <2>1. SenderTypes' /\ LineTypes' /\ GetHdrTypes' /\ LoadTypes'
    BY <1>9 DEF Timeout, Types, SenderTypes, LineTypes, GetHdrTypes, LoadTypes
  <2>2. FlagTypes'
    BY <1>9, Zenon DEF Timeout, Types, FlagTypes
  <2>. QED
    BY <2>1, <2>2 DEF Types
<1>10. CASE FlushEnds
  <2>1. 0 \in 0..N /\ down' \in Seq(Items)
    BY <1>10, YmodemAssumption DEF FlushEnds, Types, LineTypes
  <2>3. stalled' \in BOOLEAN
    BY <1>10, Zenon DEF FlushEnds
  <2>2. Return(flushing, 0, FALSE)
    BY <1>10 DEF FlushEnds
  <2>. QED
    BY <2>1, <2>2, <2>3, ReturnTypes
<1>11. CASE Prompt
  <2>1. down' \in Seq(Items)
    BY <1>11, HeadDown DEF Prompt
  <2>2. up' \in Seq(Characters)
    <3>1. PICK echo \in Replies \cup {"CAN", "none"} :
            up' = IF echo = "none" THEN up ELSE Append(up, echo)
      BY <1>11 DEF Prompt
    <3>2. echo # "none" => echo \in Characters
      BY DEF Characters
    <3>. QED
      BY <3>1, <3>2, AppendProperties DEF Types, LineTypes
  <2>3. SenderTypes' /\ LineTypes' /\ GetHdrTypes' /\ LoadTypes'
    BY <1>11, <2>1, <2>2 DEF Prompt, Types, SenderTypes, LineTypes, GetHdrTypes, LoadTypes
  <2>4. FlagTypes'
    BY <1>11, Zenon DEF Prompt, Types, FlagTypes
  <2>. QED
    BY <2>3, <2>4 DEF Types
<1>12. CASE UNCHANGED vars
  <2>1. SenderTypes' /\ LineTypes' /\ GetHdrTypes' /\ LoadTypes'
    BY <1>12 DEF vars, Types, SenderTypes, LineTypes, GetHdrTypes, LoadTypes
  <2>2. FlagTypes'
    BY <1>12, Zenon DEF vars, Types, FlagTypes
  <2>. QED
    BY <2>1, <2>2 DEF Types
<1>. QED
  BY <1>1, <1>2, <1>3, <1>4, <1>5, <1>6, <1>7, <1>8, <1>9, <1>10, <1>11, <1>12
     DEF Next, SenderStep, ReceiverStep, Done

-----------------------------------------------------------------------------
(* TypeOK of every transfer.                                               *)
THEOREM YmodemTypeOK == Spec => []TypeOK
<1>1. Init => Types
  BY InitTypes
<1>2. Types /\ [Next]_vars => Types'
  BY StepTypes
<1>3. Types => TypeOK
  BY TypesAnswer
<1>. QED
  BY <1>1, <1>2, <1>3, PTL DEF Spec

-----------------------------------------------------------------------------
(***************************************************************************)
(* A line that adds nothing.                                               *)
(***************************************************************************)
(* Between the two sides there is at most one item or one reply.           *)
Empty == down = <<>> /\ up = <<>>
Coming(x) == down = <<x>> /\ up = <<>>
Going(r) == down = <<>> /\ up = <<r>>

Failures == MaxRetries - retries

(* stream_open has not seen the header.                                    *)
Opening ==
  /\ rpc = "open" /\ got = <<>> /\ next = 1 /\ block = 0
  /\ \/ spc = "start" /\ Empty
     \/ /\ spc \in {"ready", "header"}
        /\ Empty \/ \E r \in {"C", "NAK", "noise"} : Going(r)
     \/ spc = "header" /\ (Coming(Data(0)) \/ Coming(Bad))

(* stream_read is at work: it has stored the beginning of the file.        *)
Reading ==
  /\ rpc = "read" /\ crcRetries > 0
  /\ next = (Len(got) + 1) % Mod
  /\ InOrder

(* The header has been accepted, and the sender has not noticed;           *)
Greeted ==
  /\ spc = "header" /\ block = 0 /\ got = <<>>
  /\ \/ Empty \/ Coming(Bad) \/ \E r \in {"C", "noise"} : Going(r)
     \/ Going("ACK") /\ Failures <= 2 * damage
     \/ Coming(Data(0)) /\ Failures <= 2 * damage - 1

(* it has, and waits for the C of the first block.                         *)
Invited ==
  /\ spc = "headerC" /\ block = 0 /\ got = <<>>
  /\ \/ Empty /\ Failures <= 2 * damage
     \/ Going("C") /\ Failures <= 2 * damage + 1
     \/ Going("noise") /\ Failures <= 2 * damage - 1

(* The sender is at the block that the receiver wants,                     *)
Ahead ==
  /\ spc = "data" /\ block = Len(got) + 1 /\ block \in 1..N
  /\ \/ Empty \/ Coming(Data(block)) \/ Coming(Bad)
     \/ \E r \in {"C", "noise"} : Going(r)

(* or at the one before it, which the receiver may take for new data when  *)
(* its tries run out.                                                      *)
Behind ==
  /\ spc = "data" /\ block = Len(got) /\ block \in 1..N
  /\ \/ Going("ACK") /\ Failures <= 2 * damage
     \/ (Coming(Data(block)) \/ \E r \in {"C", "noise"} : Going(r)) /\ Failures <= 2 * damage - 1
     \/ (Empty \/ Coming(Bad)) /\ Failures <= 2 * damage - 2

(* The whole file has been stored.                                         *)
Ending ==
  /\ spc = "eot" /\ Len(got) = N
  /\ \/ Empty \/ Coming(Eot) \/ Coming(Noise)
     \/ \E r \in {"C", "noise"} : Going(r)

Together == Opening \/ (Reading /\ (Greeted \/ Invited \/ Ahead \/ Behind \/ Ending))

(* The sender has given up, and no block is on its way;                    *)
Over ==
  /\ spc = "done" /\ rpc \in {"open", "read"}
  /\ \A i \in DOMAIN down : down[i].kind # "block"
(* the receiver has left the loop of stream_read.                          *)
Left == rpc \in {"final", "prompt"}

OnCourse ==
  /\ InOrder
  /\ \/ Together /\ (flushing = "no" \/ Empty)
     \/ Over
     \/ Left

Lockstep == stray = 0 => ~stalled /\ OnCourse

(* What becomes of one item, or of none, on a line with nothing in it.     *)
LEMMA PutOne ==
  ASSUME NEW T, NEW x \in T, NEW g \in T
  PROVE  /\ DOMAIN <<x>> = {1}
         /\ <<>> \o <<x>> = <<x>>
         /\ <<>> \o Lost(<<x>>, 1) = <<>>
         /\ <<>> \o [<<x>> EXCEPT ![1] = g] = <<g>>
<1>1. <<x>> \in Seq(T) /\ <<>> \in Seq(T) /\ Len(<<x>>) = 1 /\ DOMAIN <<x>> = 1..1
  OBVIOUS
<1>2. SubSeq(<<x>>, 1, 1 - 1) = <<>> /\ SubSeq(<<x>>, 1 + 1, Len(<<x>>)) = <<>>
  BY <1>1, SubSeqEmpty
<1>3. <<>> \o <<>> = <<>>
  BY <1>1, ConcatEmptySeq
<1>4. <<>> \o Lost(<<x>>, 1) = <<>>
  BY <1>2, <1>3 DEF Lost, RemoveAt
<1>5. [<<x>> EXCEPT ![1] = g] \in Seq(T) /\ Len([<<x>> EXCEPT ![1] = g]) = 1
      /\ [<<x>> EXCEPT ![1] = g][1] = g
  BY <1>1, ExceptSeq
<1>6. [<<x>> EXCEPT ![1] = g] = <<g>>
  BY <1>5, SeqEqual
<1>7. <<g>> \in Seq(T)
  OBVIOUS
<1>8. <<>> \o [<<x>> EXCEPT ![1] = g] = <<g>> /\ <<>> \o <<x>> = <<x>>
  BY <1>1, <1>6, <1>7, ConcatEmptySeq
<1>. QED
  BY <1>1, <1>4, <1>8

LEMMA SendOne ==
  ASSUME LineTypes, stray' = stray, down = <<>>, NEW x \in Items, Send(<<x>>)
  PROVE  \/ down' = <<x>> /\ damage' = damage
         \/ down' = <<>> /\ damage' = damage + 1
         \/ down' = <<IF x.kind = "block" THEN Bad ELSE Noise>> /\ damage' = damage + 1
<1>. DEFINE g == IF x.kind = "block" THEN Bad ELSE Noise
<1>1. g \in Items
  BY ItemsAre
<1>2. GarbledItems(<<x>>)[1] = g
  BY PutOne, ItemsAre DEF GarbledItems
<1>3. stray' # stray + 1
  BY YmodemAssumption DEF LineTypes
<1>4. \/ down' = <<>> \o <<x>> /\ damage' = damage
      \/ \E i \in DOMAIN <<x>> :
           /\ damage' = damage + 1
           /\ \/ down' = <<>> \o Lost(<<x>>, i)
              \/ down' = <<>> \o [<<x>> EXCEPT ![i] = GarbledItems(<<x>>)[i]]
  BY <1>3 DEF Send, Put
<1>5. \/ down' = <<>> \o <<x>> /\ damage' = damage
      \/ down' = <<>> \o Lost(<<x>>, 1) /\ damage' = damage + 1
      \/ down' = <<>> \o [<<x>> EXCEPT ![1] = g] /\ damage' = damage + 1
  BY <1>1, <1>2, <1>4, PutOne
<1>. QED
  BY <1>1, <1>5, PutOne

LEMMA SendNone ==
  ASSUME LineTypes, stray' = stray, Send(<<>>)
  PROVE  down' = down /\ damage' = damage
<1>1. stray' # stray + 1 /\ DOMAIN <<>> = {}
  BY YmodemAssumption DEF LineTypes
<1>2. down \o <<>> = down
  BY ConcatEmptySeq DEF LineTypes
<1>. QED
  BY <1>1, <1>2 DEF Send, Put

LEMMA ReplyOne ==
  ASSUME LineTypes, stray' = stray, up = <<>>, NEW r \in Replies, Reply(<<r>>)
  PROVE  \/ up' = <<r>> /\ damage' = damage
         \/ up' \in {<<>>, <<"noise">>} /\ damage' = damage + 1
<1>1. "noise" \in Replies
  BY DEF Replies
<1>2. GarbledReplies(<<r>>)[1] = "noise"
  BY PutOne DEF GarbledReplies
<1>3. stray' # stray + 1
  BY YmodemAssumption DEF LineTypes
<1>4. \/ up' = <<>> \o <<r>> /\ damage' = damage
      \/ \E i \in DOMAIN <<r>> :
           /\ damage' = damage + 1
           /\ \/ up' = <<>> \o Lost(<<r>>, i)
              \/ up' = <<>> \o [<<r>> EXCEPT ![i] = GarbledReplies(<<r>>)[i]]
  BY <1>3 DEF Reply, Put
<1>5. \/ up' = <<>> \o <<r>> /\ damage' = damage
      \/ up' = <<>> \o Lost(<<r>>, 1) /\ damage' = damage + 1
      \/ up' = <<>> \o [<<r>> EXCEPT ![1] = "noise"] /\ damage' = damage + 1
  BY <1>2, <1>4, PutOne
<1>. QED
  BY <1>1, <1>5, PutOne

LEMMA ReplyNone ==
  ASSUME LineTypes, stray' = stray, Reply(<<>>)
  PROVE  up' = up /\ damage' = damage
<1>1. stray' # stray + 1 /\ DOMAIN <<>> = {}
  BY YmodemAssumption DEF LineTypes
<1>2. up \o <<>> = up
  BY ConcatEmptySeq DEF LineTypes
<1>. QED
  BY <1>1, <1>2 DEF Reply, Put

(* Block numbers.                                                          *)
LEMMA Remainder ==
  ASSUME NEW q \in Int, NEW r \in 0..Mod - 1
  PROVE  (Mod * q + r) % Mod = r
<1>1. ASSUME NEW m \in Nat, m > 0, NEW s \in 0..m - 1
      PROVE  (m * q + s) % m = s
  OBVIOUS
<1>. QED
  BY <1>1, YmodemAssumption

LEMMA NextNumber ==
  ASSUME NEW a \in Int
  PROVE  /\ (a + 1) % Mod = IF a % Mod = Mod - 1 THEN 0 ELSE (a % Mod) + 1
         /\ (((a + 1) % Mod) + 1) % Mod = (a + 2) % Mod
         /\ (((a + 1) % Mod) - 1) % Mod = a % Mod
         /\ (a + 1) % Mod # a % Mod
<1>. DEFINE q == a \div Mod
            r == a % Mod
<1>1. a = Mod * q + r /\ r \in 0..Mod - 1 /\ q \in Int /\ Mod \in Nat /\ Mod > 2
  BY YmodemAssumption
<1>2. r = a % Mod
  OBVIOUS
<1>. HIDE DEF q, r
<1>3. \A b \in Int, s \in 0..Mod - 1 : b % Mod = s =>
        (b + 1) % Mod = IF s = Mod - 1 THEN 0 ELSE s + 1
  <2>. SUFFICES ASSUME NEW b \in Int, NEW s \in 0..Mod - 1, b % Mod = s
                PROVE  (b + 1) % Mod = IF s = Mod - 1 THEN 0 ELSE s + 1
    OBVIOUS
  <2>. DEFINE p == b \div Mod
  <2>1. b = Mod * p + s /\ p \in Int
    BY <1>1
  <2>. HIDE DEF p
  <2>2. b + 1 = Mod * (p + 1) + 0 \/ s # Mod - 1
    BY <1>1, <2>1
  <2>3. b + 1 = Mod * p + (s + 1)
    BY <1>1, <2>1
  <2>4. s = Mod - 1 => (b + 1) % Mod = 0
    BY <1>1, <2>1, <2>2, Remainder
  <2>5. s # Mod - 1 => (b + 1) % Mod = s + 1
    <3>1. s # Mod - 1 => s + 1 \in 0..Mod - 1
      BY <1>1
    <3>. QED
      BY <2>1, <2>3, <3>1, Remainder
  <2>. QED
    BY <2>4, <2>5
<1>4. \A s \in 0..Mod - 1 : s % Mod = s
  <2>1. \A s \in 0..Mod - 1 : s = Mod * 0 + s
    BY <1>1
  <2>. QED
    BY <2>1, Remainder
<1>5. (-1) % Mod = Mod - 1
  <2>1. -1 = Mod * (-1) + (Mod - 1) /\ Mod - 1 \in 0..Mod - 1
    BY <1>1
  <2>. QED
    BY <2>1, Remainder
<1>. DEFINE b == a + 1
            s == IF r = Mod - 1 THEN 0 ELSE r + 1
<1>6. b \in Int /\ b % Mod = s /\ s \in 0..Mod - 1 /\ b + 1 = a + 2
  BY <1>1, <1>2, <1>3
<1>7. (b + 1) % Mod = IF s = Mod - 1 THEN 0 ELSE s + 1
  <2>. HIDE DEF b, s
  <2>. QED
    BY <1>3, <1>6
<1>8. (s + 1) % Mod = IF s = Mod - 1 THEN 0 ELSE s + 1
  <2>. HIDE DEF b, s
  <2>. QED
    BY <1>3, <1>4, <1>6
<1>9. (s - 1) % Mod = r
  <2>1. CASE r = Mod - 1
    <3>1. s - 1 = -1
      BY <2>1
    <3>. QED
      BY <1>5, <2>1, <3>1
  <2>2. CASE r # Mod - 1
    <3>1. s - 1 = r
      BY <1>1, <2>2
    <3>. QED
      BY <1>1, <1>4, <3>1
  <2>. QED
    BY <2>1, <2>2
<1>10. s # r
  BY <1>1
<1>. QED
  BY <1>2, <1>6, <1>7, <1>8, <1>9, <1>10

LEMMA FirstNumbers == 0 % Mod = 0 /\ 1 % Mod = 1
<1>1. 0 = Mod * 0 + 0 /\ 1 = Mod * 0 + 1 /\ 0 \in 0..Mod - 1 /\ 1 \in 0..Mod - 1
  BY YmodemAssumption
<1>. QED
  BY <1>1, Remainder

(* The steps of a transfer that is neither over nor stalled, by what is on *)
(* the line.                                                               *)
Underway ==
  /\ Types /\ ~stalled
  /\ rpc \in {"open", "read"} /\ spc # "done"

Kept == <<damage, block, rpc, counters, next, got>>

LEMMA EmptyStep ==
  ASSUME Underway, [Next]_vars, stray' = stray, Empty
  PROVE  \/ UNCHANGED Kept /\ Empty' /\ (spc' = spc \/ (spc = "start" /\ spc' = "ready"))
         \/ /\ spc # "start" /\ flushing \in {"timeout", "frame"}
            /\ Return(flushing, 0, FALSE) /\ down' = <<>> /\ flushing' = "no"
<1>. USE DEF receiver, sender, line, getHdr, counters, file, Kept, Empty
<1>0. damage \in Nat /\ stray \in Nat /\ stray' # stray + 1
  BY YmodemAssumption DEF Underway, Types, LineTypes
<1>1. CASE Start
  BY <1>1 DEF Start
<1>2. CASE Timeout
  BY <1>2 DEF Timeout
<1>3. CASE FlushEnds
  <2>1. flushing \in {"timeout", "frame"} /\ spc # "start"
    BY <1>3 DEF FlushEnds, Silent, Underway, Types, GetHdrTypes
  <2>. QED
    BY <1>3, <2>1 DEF FlushEnds, Return, EnterGetHdr
<1>4. CASE UNCHANGED vars
  BY <1>4 DEF vars
<1>5. ~GetReply /\ ~GetNothing /\ ~Stall /\ ~Resume /\ ~Prompt /\ ~Toss
  BY <1>0 DEF GetReply, GetNothing, Stall, Resume, Prompt, Toss, Underway
<1>6. ~GetBlock /\ ~GetBad /\ ~GetCan /\ ~GetEot /\ ~Ignore
  BY DEF GetBlock, GetBad, GetCan, GetEot, Ignore, Listening
<1>. QED
  BY <1>1, <1>2, <1>3, <1>4, <1>5, <1>6 DEF Next, SenderStep, ReceiverStep, Done

LEMMA GoingStep ==
  ASSUME Underway, [Next]_vars, stray' = stray, flushing = "no", spc # "start",
         NEW r, Going(r)
  PROVE  \/ UNCHANGED vars
         \/ React(r) /\ up' = <<>> /\ UNCHANGED receiver
<1>0. stray \in Nat /\ stray' # stray + 1
  BY YmodemAssumption DEF Underway, Types, LineTypes
<1>1. up # <<>> /\ down = <<>> /\ Head(up) = r /\ Tail(up) = <<>>
  BY DEF Going
<1>2. ~Start /\ ~GetNothing /\ ~Stall /\ ~Resume /\ ~Prompt /\ ~Toss /\ ~FlushEnds
  BY <1>0, <1>1 DEF Start, GetNothing, Stall, Resume, Prompt, Toss, FlushEnds, Underway
<1>3. ~Timeout
  BY <1>1 DEF Timeout, Silent, Underway
<1>4. ~GetBlock /\ ~GetBad /\ ~GetCan /\ ~GetEot /\ ~Ignore
  BY <1>1 DEF GetBlock, GetBad, GetCan, GetEot, Ignore, Listening
<1>5. GetReply \/ UNCHANGED vars
  BY <1>2, <1>3, <1>4 DEF Next, SenderStep, ReceiverStep, Done
<1>. QED
  BY <1>1, <1>5 DEF GetReply

LEMMA ComingStep ==
  ASSUME Underway, [Next]_vars, stray' = stray, flushing = "no", spc # "start",
         NEW x \in Items \ {Can}, Coming(x)
  PROVE  \/ UNCHANGED vars
         \/ /\ down' = <<>>
            /\ \/ /\ x.kind = "block" /\ flushing' = "no"
                  /\ IF crcMode THEN Return("ok", x.n, FALSE) ELSE Return("cksum", 0, TRUE)
               \/ x.kind = "bad" /\ Return("cksum", 0, FALSE) /\ flushing' = "no"
               \/ x.kind = "eot" /\ Return("eof", 0, FALSE) /\ flushing' = "no"
               \/ x.kind # "block" /\ UNCHANGED <<up, spc, Kept>>
<1>0. stray \in Nat /\ stray' # stray + 1
  BY YmodemAssumption DEF Underway, Types, LineTypes
<1>1. up = <<>> /\ down # <<>> /\ Head(down) = x /\ Tail(down) = <<>>
  BY DEF Coming
<1>2. ~Start /\ ~GetReply /\ ~GetNothing /\ ~Stall /\ ~Resume /\ ~Prompt /\ ~Toss
  BY <1>0, <1>1 DEF Start, GetReply, GetNothing, Stall, Resume, Prompt, Toss, Underway
<1>3. ~Timeout /\ ~FlushEnds
  BY <1>1 DEF Timeout, FlushEnds, Silent
<1>4. x.kind # "can"
  BY DEF Items, Data, Eot, Can, Bad, Noise
<1>5. ~GetCan
  BY <1>1, <1>4 DEF GetCan
<1>. USE DEF receiver, sender, line, getHdr, counters, file, Kept
<1>6. CASE GetBlock
  BY <1>1, <1>6 DEF GetBlock, Return, EnterGetHdr
<1>7. CASE GetBad
  BY <1>1, <1>7 DEF GetBad, Return, EnterGetHdr
<1>8. CASE GetEot
  BY <1>1, <1>8 DEF GetEot, Return, EnterGetHdr
<1>9. CASE Ignore
  BY <1>1, <1>9 DEF Ignore
<1>. QED
  BY <1>2, <1>3, <1>5, <1>6, <1>7, <1>8, <1>9 DEF Next, SenderStep, ReceiverStep, Done

LEMMA StallKept ==
  ASSUME Types, [Next]_vars, stray' = stray, ~stalled
  PROVE  ~stalled'
<1>0. stray \in Nat /\ stray' # stray + 1
  BY YmodemAssumption DEF Types, LineTypes
<1>1. UNCHANGED stalled \/ stalled' = FALSE
  BY <1>0, Zenon
     DEF Next, SenderStep, ReceiverStep, Done, vars, sender, Start, GetReply, GetNothing,
         React, Stall, Resume, GetBlock, GetBad, GetCan, GetEot, Ignore, Timeout, Toss,
         FlushEnds, Prompt
<1>. QED
  BY <1>1, Zenon

(* A reply to a line that is silent arrives, is lost or is garbled.        *)
Replied(r) ==
  \/ up' = <<r>> /\ damage' = damage
  \/ up' \in {<<>>, <<"noise">>} /\ damage' = damage + 1

LEMMA ReadAgain ==
  ASSUME Types, stray' = stray, up = <<>>, Reading,
         NEW stat \in {"timeout", "frame", "cksum"}, NEW dirty, Return(stat, 0, dirty)
  PROVE  /\ got' = got /\ InOrder'
         /\ \/ Left'
            \/ /\ Reading' /\ retries' = retries - 1
               /\ UNCHANGED <<spc, block>> /\ Replied("C")
<1>1. Read(stat, 0) /\ UNCHANGED <<spc, block>>
  BY DEF Return, Reading, Opened, Final
<1>2. AskAgain
  BY <1>1 DEF Read
<1>3. got' = got /\ next' = next
  BY <1>2 DEF AskAgain
<1>4. InOrder'
  BY <1>3 DEF Reading, InOrder
<1>5. CASE retries > 1
  <2>1. Ask(crcRetries) = "C" /\ "C" \in Replies
    BY DEF Reading, Ask, Replies
  <2>2. retries' = retries - 1 /\ Reply(<<Ask(crcRetries)>>) /\ UNCHANGED <<rpc, crcRetries>>
    BY <1>2, <1>5 DEF AskAgain
  <2>3. Replied("C")
    BY <2>1, <2>2, ReplyOne DEF Replied, Types
  <2>4. Reading'
    BY <1>3, <1>4, <2>2 DEF Reading
  <2>. QED
    BY <1>1, <1>3, <1>4, <2>2, <2>3, <2>4
<1>6. CASE ~(retries > 1)
  <2>1. Left'
    BY <1>2, <1>6 DEF AskAgain, ToPrompt, Left
  <2>. QED
    BY <1>3, <1>4, <2>1
<1>. QED
  BY <1>5, <1>6

(* The block wanted is stored,                                             *)
LEMMA ReadNext ==
  ASSUME Types, stray' = stray, up = <<>>, Reading, NEW n, n = Len(got) + 1, n \in 0..N,
         NEW dirty, Return("ok", n, dirty)
  PROVE  /\ Reading' /\ retries' = MaxRetries /\ Len(got') = Len(got) + 1
         /\ UNCHANGED <<spc, block>> /\ Replied("ACK")
<1>. USE DEF Reading
<1>0. got \in Seq(0..N) /\ Len(got) \in Nat /\ DOMAIN got = 1..Len(got)
  BY LenProperties DEF Types, LoadTypes
<1>1. Read("ok", n) /\ UNCHANGED <<spc, block>>
  BY DEF Return, Opened, Final
<1>2. n % Mod = next
  OBVIOUS
<1>3. Accept(n)
  BY <1>1, <1>2 DEF Read, AcceptAgain
<1>4. /\ got' = Append(got, n) /\ next' = (next + 1) % Mod /\ retries' = MaxRetries
      /\ Reply(<<"ACK">>) /\ UNCHANGED <<rpc, crcRetries>>
  BY <1>3 DEF Accept
<1>5. /\ Append(got, n) \in Seq(0..N) /\ Len(Append(got, n)) = Len(got) + 1
      /\ \A i \in 1..Len(got) : Append(got, n)[i] = got[i]
      /\ Append(got, n)[Len(got) + 1] = n
  BY <1>0, AppendProperties
<1>6. InOrder'
  <2>1. DOMAIN got' = 1..Len(got) + 1
    BY <1>4, <1>5, LenProperties
  <2>. SUFFICES ASSUME NEW i \in 1..Len(got) + 1 PROVE got'[i] = i
    BY <2>1 DEF InOrder
  <2>2. CASE i \in 1..Len(got)
    BY <1>0, <1>4, <1>5, <2>2 DEF InOrder
  <2>3. CASE i = Len(got) + 1
    BY <1>4, <1>5, <2>3
  <2>. QED
    BY <1>0, <2>2, <2>3
<1>7. next' = (Len(got') + 1) % Mod
  <2>1. next' = (Len(got) + 2) % Mod
    BY <1>0, <1>4, NextNumber
  <2>2. Len(got') + 1 = Len(got) + 2
    BY <1>0, <1>4, <1>5
  <2>. QED
    BY <2>1, <2>2
<1>8. Replied("ACK")
  BY <1>4, ReplyOne DEF Replied, Replies, Types
<1>9. Len(got') = Len(got) + 1
  BY <1>4, <1>5
<1>. QED
  BY <1>1, <1>4, <1>6, <1>7, <1>8, <1>9

(* and the one before it is not while there are tries left.                *)
LEMMA ReadPrevious ==
  ASSUME Types, stray' = stray, up = <<>>, Reading, NEW n, n = Len(got), n \in 0..N,
         retries > 1, NEW dirty, Return("ok", n, dirty)
  PROVE  /\ Reading' /\ retries' = retries - 1 /\ got' = got
         /\ UNCHANGED <<spc, block>> /\ Replied("ACK")
<1>. USE DEF Reading
<1>0. n \in Int
  BY LenProperties DEF Types, LoadTypes
<1>1. Read("ok", n) /\ UNCHANGED <<spc, block>>
  BY DEF Return, Opened, Final
<1>2. n % Mod # next /\ n % Mod = (next - 1) % Mod
  BY <1>0, NextNumber
<1>3. AcceptAgain(n)
  BY <1>1, <1>2 DEF Read, Accept
<1>4. /\ got' = got /\ next' = next /\ retries' = retries - 1
      /\ Reply(<<"ACK">>) /\ UNCHANGED <<rpc, crcRetries>>
  BY <1>3 DEF AcceptAgain
<1>5. InOrder'
  BY <1>4 DEF InOrder
<1>6. Replied("ACK")
  BY <1>4, ReplyOne DEF Replied, Replies, Types
<1>. QED
  BY <1>1, <1>4, <1>5, <1>6

(* The end of the file.                                                    *)
LEMMA ReadEof ==
  ASSUME Reading, NEW dirty, Return("eof", 0, dirty)
  PROVE  Left' /\ InOrder'
<1>1. Read("eof", 0)
  BY DEF Return, Reading, Opened, Final
<1>2. rpc' = "final" /\ got' = got
  BY <1>1 DEF Read, file
<1>. QED
  BY <1>2 DEF Left, Reading, InOrder

(* The sender's step: what it waits for next, and what it sends.           *)
LEMMA ReactOne ==
  ASSUME Types, stray' = stray, down = <<>>, up' = <<>>, NEW ch, React(ch),
         NEW w, NEW b, NEW x \in Items, Answer(ch) = <<w, b, <<x>> >>
  PROVE  /\ spc' = w /\ block' = b
         /\ \/ Coming(x)' /\ damage' = damage
            \/ Empty' /\ damage' = damage + 1
            \/ down' = <<IF x.kind = "block" THEN Bad ELSE Noise>> /\ up' = <<>> /\ damage' = damage + 1
<1>1. spc' = w /\ block' = b /\ Send(<<x>>)
  BY DEF React
<1>2. Coming(x)' <=> down' = <<x>> /\ up' = <<>>
  BY DEF Coming
<1>. QED
  BY <1>1, <1>2, SendOne DEF Empty, Types

LEMMA ReactNone ==
  ASSUME Types, stray' = stray, down = <<>>, up' = <<>>, NEW ch, React(ch),
         NEW w, NEW b, Answer(ch) = <<w, b, <<>> >>
  PROVE  spc' = w /\ block' = b /\ Empty' /\ damage' = damage
<1>1. spc' = w /\ block' = b /\ Send(<<>>)
  BY DEF React
<1>. QED
  BY <1>1, SendNone DEF Empty, Types

LEMMA ReactCancels ==
  ASSUME Types, down = <<>>, NEW ch, React(ch), Answer(ch) = <<"done", 0, <<Can, Can>> >>,
         rpc \in {"open", "read"}, rpc' = rpc
  PROVE  Over'
<1>. DEFINE T == {Can, Bad, Noise}
            cancel == <<Can, Can>>
<1>1. spc' = "done" /\ Send(cancel)
  BY DEF React
<1>2. <<>> \in Seq(T) /\ cancel \in Seq(T) /\ DOMAIN cancel = 1..2 /\ Noise \in T
  OBVIOUS
<1>3. \A i \in DOMAIN cancel : GarbledItems(cancel)[i] \in T
  BY <1>2 DEF GarbledItems
<1>4. \/ down' = <<>> \o cancel
      \/ \E i \in DOMAIN cancel : \/ down' = <<>> \o Lost(cancel, i)
                                  \/ down' = <<>> \o [cancel EXCEPT ![i] = GarbledItems(cancel)[i]]
      \/ down' = <<>> \o <<Noise>> \o cancel
  BY <1>1 DEF Send, Put
<1>5. down' \in Seq(T)
  <2>. HIDE DEF T, cancel
  <2>. QED
    BY <1>2, <1>3, <1>4, PutTypes
<1>6. \A i \in DOMAIN down' : down'[i] \in T
  BY <1>5, LenProperties
<1>7. \A x \in T : x.kind # "block"
  BY DEF Can, Bad, Noise
<1>. QED
  BY <1>1, <1>6, <1>7 DEF Over

LEMMA CountsAre ==
  ASSUME Types
  PROVE  /\ damage \in 0..MaxDamage /\ damage \in Int /\ retries \in Int /\ MaxRetries \in Int
         /\ Failures \in Int /\ Failures >= 0 /\ Len(got) \in Nat /\ N \in Nat /\ MaxDamage \in Nat
         /\ got = <<>> => Len(got) = 0
<1>1. got \in Seq(0..N)
  BY DEF Types, LoadTypes
<1>2. Len(got) \in Nat /\ (got = <<>> => Len(got) = 0)
  BY <1>1, LenProperties
<1>. QED
  BY <1>2, YmodemAssumption DEF Types, LineTypes, LoadTypes, Failures

LEMMA SameCourse == OnCourse /\ UNCHANGED vars => OnCourse'
<1>. QED
  BY DEF vars, line, sender, receiver, getHdr, counters, file, OnCourse, InOrder,
     Together, Opening, Reading, Greeted, Invited, Ahead, Behind, Ending, Over, Left,
     Failures, Empty, Coming, Going

LEMMA BadStep ==
  ASSUME Underway, [Next]_vars, stray' = stray, flushing = "no" \/ Empty, spc # "start",
         Coming(Bad)
  PROVE  \/ UNCHANGED vars
         \/ /\ down' = <<>> /\ up = <<>>
            /\ \/ Return("cksum", 0, FALSE) /\ flushing' = "no"
               \/ UNCHANGED <<up, spc, Kept>>
<1>1. Bad \in Items \ {Can} /\ Bad.kind = "bad"
  BY ItemsAre DEF Bad, Can
<1>2. flushing = "no" /\ up = <<>>
  BY DEF Coming, Empty
<1>. QED
  BY <1>1, <1>2, ComingStep

LEMMA BlockStep ==
  ASSUME Underway, [Next]_vars, stray' = stray, flushing = "no" \/ Empty, spc # "start",
         NEW n \in 0..N, Coming(Data(n))
  PROVE  \/ UNCHANGED vars
         \/ /\ down' = <<>> /\ up = <<>> /\ flushing' = "no"
            /\ IF crcRetries > 0 THEN Return("ok", n, FALSE) ELSE Return("cksum", 0, TRUE)
<1>1. Data(n) \in Items \ {Can} /\ Data(n).kind = "block" /\ Data(n).n = n
  BY ItemsAre DEF Data, Can
<1>2. flushing = "no" /\ up = <<>>
  BY DEF Coming, Empty
<1>3. \/ UNCHANGED vars
      \/ /\ down' = <<>> /\ flushing' = "no"
         /\ IF crcMode THEN Return("ok", Data(n).n, FALSE) ELSE Return("cksum", 0, TRUE)
      \/ FALSE
  BY <1>1, <1>2, ComingStep
<1>. QED
  BY <1>1, <1>2, <1>3 DEF crcMode

LEMMA GreetedKept ==
  ASSUME Underway, [Next]_vars, stray' = stray, flushing = "no" \/ Empty,
         MaxRetries > 2 * MaxDamage, Reading, Greeted
  PROVE  OnCourse'
<1>. USE DEF Reading, Greeted
<1>0. /\ got = <<>> /\ spc # "start" /\ Types
      /\ damage \in 0..MaxDamage /\ retries \in Int /\ MaxRetries \in Int /\ Len(got) = 0
  BY CountsAre DEF Underway
<1>1. ASSUME Kept' = Kept, spc' = spc, Empty' PROVE OnCourse'
  BY <1>0, <1>1 DEF Kept, counters, OnCourse, Together, InOrder
<1>2. ASSUME up = <<>>, down' = <<>>, flushing' = "no",
             NEW stat \in {"timeout", "frame", "cksum"}, NEW dirty, Return(stat, 0, dirty)
      PROVE  OnCourse'
  <2>1. /\ got' = got /\ InOrder'
        /\ \/ Left'
           \/ Reading' /\ UNCHANGED <<spc, block>> /\ Replied("C")
    BY <1>0, <1>2, ReadAgain
  <2>2. CASE Reading' /\ UNCHANGED <<spc, block>> /\ Replied("C")
    <3>1. Greeted'
      BY <1>0, <1>2, <2>1, <2>2 DEF Replied, Empty, Going
    <3>. QED
      BY <1>2, <2>1, <2>2, <3>1 DEF OnCourse, Together
  <2>. QED
    BY <2>1, <2>2 DEF OnCourse
<1>3. ASSUME UNCHANGED vars PROVE OnCourse'
  BY <1>3, SameCourse DEF OnCourse, Together
<1>4. CASE Empty
  <2>1. \/ UNCHANGED Kept /\ Empty' /\ spc' = spc
        \/ /\ flushing \in {"timeout", "frame"}
           /\ Return(flushing, 0, FALSE) /\ down' = <<>> /\ flushing' = "no"
    BY <1>0, <1>4, EmptyStep
  <2>. QED
    BY <1>4, <1>1, <1>2, <2>1 DEF Empty
<1>5. CASE Coming(Bad)
  <2>1. \/ UNCHANGED vars
        \/ /\ down' = <<>> /\ up = <<>>
           /\ \/ Return("cksum", 0, FALSE) /\ flushing' = "no"
              \/ UNCHANGED <<up, spc, Kept>>
    BY <1>0, <1>5, BadStep
  <2>. QED
    BY <1>1, <1>2, <1>3, <2>1 DEF Empty
<1>6. ASSUME NEW r \in {"C", "noise"}, Going(r) PROVE OnCourse'
  <2>1. \/ UNCHANGED vars
        \/ React(r) /\ up' = <<>> /\ UNCHANGED receiver
    BY <1>0, <1>6, GoingStep DEF Empty, Going
  <2>2. Answer(r) = <<"done", 0, <<Can, Can>> >>
    BY DEF Answer
  <2>3. CASE React(r) /\ UNCHANGED receiver
    <3>1. Over'
      BY <1>0, <1>6, <2>2, <2>3, ReactCancels DEF Going, receiver
    <3>. QED
      BY <2>3, <3>1 DEF OnCourse, receiver, file, InOrder
  <2>. QED
    BY <1>3, <2>1, <2>3
<1>7. CASE Going("ACK") /\ Failures <= 2 * damage
  <2>1. \/ UNCHANGED vars
        \/ React("ACK") /\ up' = <<>> /\ UNCHANGED receiver
    BY <1>0, <1>7, GoingStep DEF Empty, Going
  <2>2. Answer("ACK") = <<"headerC", 0, <<>> >>
    BY DEF Answer
  <2>3. CASE React("ACK") /\ up' = <<>> /\ UNCHANGED receiver
    <3>1. spc' = "headerC" /\ block' = 0 /\ Empty' /\ damage' = damage
      BY <1>0, <1>7, <2>2, <2>3, ReactNone DEF Going
    <3>2. Invited' /\ Reading'
      BY <1>7, <2>3, <3>1 DEF Invited, Failures, receiver, counters, file, InOrder
    <3>. QED
      BY <2>3, <3>1, <3>2 DEF OnCourse, Together
  <2>. QED
    BY <1>3, <2>1, <2>3
<1>8. CASE Coming(Data(0)) /\ Failures <= 2 * damage - 1
  <2>1. 0 \in 0..N
    BY YmodemAssumption
  <2>2. \/ UNCHANGED vars
        \/ down' = <<>> /\ up = <<>> /\ flushing' = "no" /\ Return("ok", 0, FALSE)
    BY <1>0, <1>8, <2>1, BlockStep
  <2>3. retries > 1
    BY <1>0, <1>8, CountsAre DEF Failures
  <2>4. CASE down' = <<>> /\ up = <<>> /\ flushing' = "no" /\ Return("ok", 0, FALSE)
    <3>1. /\ Reading' /\ retries' = retries - 1 /\ got' = got
          /\ UNCHANGED <<spc, block>> /\ Replied("ACK")
      BY <1>0, <2>1, <2>3, <2>4, ReadPrevious
    <3>2. Greeted'
      BY <1>0, <1>8, <2>4, <3>1 DEF Replied, Empty, Going, Failures
    <3>. QED
      BY <2>4, <3>1, <3>2 DEF OnCourse, Together
  <2>. QED
    BY <1>3, <2>2, <2>4
<1>. QED
  BY <1>4, <1>5, <1>6, <1>7, <1>8

LEMMA InvitedKept ==
  ASSUME Underway, [Next]_vars, stray' = stray, flushing = "no" \/ Empty, Reading, Invited
  PROVE  OnCourse'
<1>. USE DEF Reading, Invited
<1>0. /\ got = <<>> /\ spc # "start" /\ Types
      /\ damage \in Int /\ retries \in Int /\ MaxRetries \in Int /\ Len(got) = 0 /\ N \in Nat
  BY CountsAre DEF Underway
<1>1. ASSUME UNCHANGED vars PROVE OnCourse'
  BY <1>1, SameCourse DEF OnCourse, Together
<1>2. CASE Empty /\ Failures <= 2 * damage
  <2>1. CASE UNCHANGED Kept /\ Empty' /\ spc' = spc
    BY <1>0, <1>2, <2>1 DEF Kept, counters, OnCourse, Together, InOrder, Failures
  <2>2. CASE /\ flushing \in {"timeout", "frame"}
             /\ Return(flushing, 0, FALSE) /\ down' = <<>> /\ flushing' = "no"
    <3>1. /\ got' = got /\ InOrder'
          /\ \/ Left'
             \/ /\ Reading' /\ retries' = retries - 1
                /\ UNCHANGED <<spc, block>> /\ Replied("C")
      BY <1>0, <1>2, <2>2, ReadAgain DEF Empty
    <3>2. CASE Reading' /\ retries' = retries - 1 /\ UNCHANGED <<spc, block>> /\ Replied("C")
      <4>1. Invited'
        BY <1>0, <1>2, <2>2, <3>1, <3>2 DEF Replied, Empty, Going, Failures
      <4>. QED
        BY <2>2, <3>1, <3>2, <4>1 DEF OnCourse, Together
    <3>. QED
      BY <3>1, <3>2 DEF OnCourse
  <2>. QED
    BY <1>0, <1>2, <2>1, <2>2, EmptyStep
<1>3. CASE Going("C") /\ Failures <= 2 * damage + 1
  <2>1. \/ UNCHANGED vars
        \/ React("C") /\ up' = <<>> /\ UNCHANGED receiver
    BY <1>0, <1>3, GoingStep DEF Empty, Going
  <2>2. CASE React("C") /\ up' = <<>> /\ UNCHANGED receiver
    <3>1. Reading' /\ got' = got /\ flushing' = flushing
      BY <2>2 DEF receiver, getHdr, counters, file, InOrder
    <3>2. CASE N = 0
      <4>1. Answer("C") = <<"eot", 1, <<Eot>> >>
        BY <3>2 DEF Answer
      <4>2. Ending'
        BY <1>0, <1>3, <2>2, <3>1, <3>2, <4>1, ReactOne, ItemsAre DEF Ending, Going, Empty, Coming, Eot
      <4>. QED
        BY <1>3, <3>1, <4>2 DEF OnCourse, Together, Empty, Going
    <3>3. CASE N # 0
      <4>1. Answer("C") = <<"data", 1, <<Data(1)>> >>
        BY <1>0, <3>3 DEF Answer
      <4>2. Data(1) \in Items /\ Data(1).kind = "block" /\ 1 \in 1..N
        BY <1>0, <3>3, ItemsAre DEF Data
      <4>3. Ahead'
        BY <1>0, <1>3, <2>2, <3>1, <3>3, <4>1, <4>2, ReactOne DEF Ahead, Going, Empty, Coming
      <4>. QED
        BY <1>3, <3>1, <4>3 DEF OnCourse, Together, Empty, Going
    <3>. QED
      BY <3>2, <3>3
  <2>. QED
    BY <1>1, <2>1, <2>2
<1>4. CASE Going("noise") /\ Failures <= 2 * damage - 1
  <2>1. \/ UNCHANGED vars
        \/ React("noise") /\ up' = <<>> /\ UNCHANGED receiver
    BY <1>0, <1>4, GoingStep DEF Empty, Going
  <2>2. CASE React("noise") /\ up' = <<>> /\ UNCHANGED receiver
    <3>1. Reading' /\ got' = got /\ flushing' = flushing /\ retries' = retries
      BY <2>2 DEF receiver, getHdr, counters, file, InOrder
    <3>2. Answer("noise") = <<"header", 0, <<Data(0)>> >>
      BY DEF Answer
    <3>3. Data(0) \in Items /\ Data(0).kind = "block"
      BY <1>0, ItemsAre DEF Data
    <3>4. Greeted'
      BY <1>0, <1>4, <2>2, <3>1, <3>2, <3>3, ReactOne DEF Greeted, Going, Empty, Coming, Failures
    <3>. QED
      BY <1>4, <3>1, <3>4 DEF OnCourse, Together, Empty, Going
  <2>. QED
    BY <1>1, <2>1, <2>2
<1>. QED
  BY <1>2, <1>3, <1>4

LEMMA AheadKept ==
  ASSUME Underway, [Next]_vars, stray' = stray, flushing = "no" \/ Empty, Reading, Ahead
  PROVE  OnCourse'
<1>. USE DEF Reading, Ahead
<1>0. /\ spc # "start" /\ Types /\ Len(got) \in Nat /\ N \in Nat /\ block \in 0..N
      /\ damage \in 0..MaxDamage /\ damage \in Int /\ damage >= 0 /\ MaxRetries \in Int
  BY CountsAre DEF Underway
<1>1. ASSUME UNCHANGED vars PROVE OnCourse'
  BY <1>1, SameCourse DEF OnCourse, Together
<1>2. ASSUME Kept' = Kept, spc' = spc, Empty' PROVE OnCourse'
  BY <1>0, <1>2 DEF Kept, counters, OnCourse, Together, InOrder
<1>3. ASSUME up = <<>>, down' = <<>>, flushing' = "no",
             NEW stat \in {"timeout", "frame", "cksum"}, NEW dirty, Return(stat, 0, dirty)
      PROVE  OnCourse'
  <2>1. /\ got' = got /\ InOrder'
        /\ \/ Left'
           \/ Reading' /\ UNCHANGED <<spc, block>> /\ Replied("C")
    BY <1>0, <1>3, ReadAgain
  <2>2. CASE Reading' /\ UNCHANGED <<spc, block>> /\ Replied("C")
    <3>1. Ahead'
      BY <1>0, <1>3, <2>1, <2>2 DEF Replied, Empty, Going
    <3>. QED
      BY <1>3, <2>1, <2>2, <3>1 DEF OnCourse, Together
  <2>. QED
    BY <2>1, <2>2 DEF OnCourse
<1>4. CASE Empty
  <2>1. \/ UNCHANGED Kept /\ Empty' /\ spc' = spc
        \/ /\ flushing \in {"timeout", "frame"}
           /\ Return(flushing, 0, FALSE) /\ down' = <<>> /\ flushing' = "no"
    BY <1>0, <1>4, EmptyStep
  <2>. QED
    BY <1>2, <1>3, <1>4, <2>1 DEF Empty
<1>5. CASE Coming(Bad)
  <2>1. \/ UNCHANGED vars
        \/ /\ down' = <<>> /\ up = <<>>
           /\ \/ Return("cksum", 0, FALSE) /\ flushing' = "no"
              \/ UNCHANGED <<up, spc, Kept>>
    BY <1>0, <1>5, BadStep
  <2>. QED
    BY <1>1, <1>2, <1>3, <2>1 DEF Empty
<1>6. ASSUME NEW r \in {"C", "noise"}, Going(r) PROVE OnCourse'
  <2>1. \/ UNCHANGED vars
        \/ React(r) /\ up' = <<>> /\ UNCHANGED receiver
    BY <1>0, <1>6, GoingStep DEF Empty, Going
  <2>2. CASE React(r) /\ up' = <<>> /\ UNCHANGED receiver
    <3>1. Reading' /\ got' = got /\ flushing' = flushing
      BY <2>2 DEF receiver, getHdr, counters, file, InOrder
    <3>2. Answer(r) = <<"data", block, <<Data(block)>> >>
      BY <1>0 DEF Answer
    <3>3. Data(block) \in Items /\ Data(block).kind = "block"
      BY <1>0, ItemsAre DEF Data
    <3>4. /\ spc' = "data" /\ block' = block
          /\ Coming(Data(block))' \/ Empty' \/ Coming(Bad)'
      BY <1>0, <1>6, <2>2, <3>2, <3>3, ReactOne DEF Going, Coming
    <3>5. Ahead'
      BY <1>0, <3>1, <3>4
    <3>. QED
      BY <1>6, <3>1, <3>5 DEF OnCourse, Together, Empty, Going
  <2>. QED
    BY <1>1, <2>1, <2>2
<1>7. CASE Coming(Data(block))
  <2>1. \/ UNCHANGED vars
        \/ down' = <<>> /\ up = <<>> /\ flushing' = "no" /\ Return("ok", block, FALSE)
    BY <1>0, <1>7, BlockStep
  <2>2. CASE down' = <<>> /\ up = <<>> /\ flushing' = "no" /\ Return("ok", block, FALSE)
    <3>1. /\ Reading' /\ retries' = MaxRetries /\ Len(got') = Len(got) + 1
          /\ UNCHANGED <<spc, block>> /\ Replied("ACK")
      BY <1>0, <2>2, ReadNext
    <3>2. Behind'
      BY <1>0, <2>2, <3>1 DEF Behind, Replied, Empty, Going, Failures
    <3>. QED
      BY <2>2, <3>1, <3>2 DEF OnCourse, Together
  <2>. QED
    BY <1>1, <2>1, <2>2
<1>. QED
  BY <1>4, <1>5, <1>6, <1>7

LEMMA BehindKept ==
  ASSUME Underway, [Next]_vars, stray' = stray, flushing = "no" \/ Empty,
         MaxRetries > 2 * MaxDamage, Reading, Behind
  PROVE  OnCourse'
<1>. USE DEF Reading, Behind
<1>0. /\ spc # "start" /\ Types /\ Len(got) \in Nat /\ N \in Nat /\ block \in 0..N /\ MaxDamage \in Nat
      /\ damage \in 0..MaxDamage /\ damage \in Int /\ retries \in Int /\ MaxRetries \in Int
  BY CountsAre DEF Underway
<1>1. ASSUME UNCHANGED vars PROVE OnCourse'
  BY <1>1, SameCourse DEF OnCourse, Together
<1>2. ASSUME Kept' = Kept, spc' = spc, Empty', Failures <= 2 * damage - 2 PROVE OnCourse'
  BY <1>0, <1>2 DEF Kept, counters, OnCourse, Together, InOrder, Failures
<1>3. ASSUME up = <<>>, down' = <<>>, flushing' = "no", Failures <= 2 * damage - 2,
             NEW stat \in {"timeout", "frame", "cksum"}, NEW dirty, Return(stat, 0, dirty)
      PROVE  OnCourse'
  <2>1. /\ got' = got /\ InOrder'
        /\ \/ Left'
           \/ /\ Reading' /\ retries' = retries - 1
              /\ UNCHANGED <<spc, block>> /\ Replied("C")
    BY <1>0, <1>3, ReadAgain
  <2>2. CASE Reading' /\ retries' = retries - 1 /\ UNCHANGED <<spc, block>> /\ Replied("C")
    <3>1. Behind'
      BY <1>0, <1>3, <2>1, <2>2 DEF Replied, Empty, Going, Failures
    <3>. QED
      BY <1>3, <2>1, <2>2, <3>1 DEF OnCourse, Together
  <2>. QED
    BY <2>1, <2>2 DEF OnCourse
<1>4. CASE Empty /\ Failures <= 2 * damage - 2
  <2>1. \/ UNCHANGED Kept /\ Empty' /\ spc' = spc
        \/ /\ flushing \in {"timeout", "frame"}
           /\ Return(flushing, 0, FALSE) /\ down' = <<>> /\ flushing' = "no"
    BY <1>0, <1>4, EmptyStep
  <2>. QED
    BY <1>2, <1>3, <1>4, <2>1 DEF Empty
<1>5. CASE Coming(Bad) /\ Failures <= 2 * damage - 2
  <2>1. \/ UNCHANGED vars
        \/ /\ down' = <<>> /\ up = <<>>
           /\ \/ Return("cksum", 0, FALSE) /\ flushing' = "no"
              \/ UNCHANGED <<up, spc, Kept>>
    BY <1>0, <1>5, BadStep
  <2>. QED
    BY <1>1, <1>2, <1>3, <1>5, <2>1 DEF Empty
<1>6. ASSUME NEW r \in {"C", "noise"}, Going(r), Failures <= 2 * damage - 1 PROVE OnCourse'
  <2>1. \/ UNCHANGED vars
        \/ React(r) /\ up' = <<>> /\ UNCHANGED receiver
    BY <1>0, <1>6, GoingStep DEF Empty, Going
  <2>2. CASE React(r) /\ up' = <<>> /\ UNCHANGED receiver
    <3>1. Reading' /\ got' = got /\ flushing' = flushing /\ retries' = retries
      BY <2>2 DEF receiver, getHdr, counters, file, InOrder
    <3>2. Answer(r) = <<"data", block, <<Data(block)>> >>
      BY <1>0 DEF Answer
    <3>3. Data(block) \in Items /\ Data(block).kind = "block"
      BY <1>0, ItemsAre DEF Data
    <3>4. /\ spc' = "data" /\ block' = block
          /\ \/ Coming(Data(block))' /\ damage' = damage
             \/ (Empty' \/ Coming(Bad)') /\ damage' = damage + 1
      BY <1>0, <1>6, <2>2, <3>2, <3>3, ReactOne DEF Going, Coming
    <3>5. Behind'
      BY <1>0, <1>6, <3>1, <3>4 DEF Failures, Coming
    <3>. QED
      BY <1>6, <3>1, <3>5 DEF OnCourse, Together, Empty, Going
  <2>. QED
    BY <1>1, <2>1, <2>2
<1>7. CASE Coming(Data(block)) /\ Failures <= 2 * damage - 1
  <2>1. \/ UNCHANGED vars
        \/ down' = <<>> /\ up = <<>> /\ flushing' = "no" /\ Return("ok", block, FALSE)
    BY <1>0, <1>7, BlockStep
  <2>2. CASE down' = <<>> /\ up = <<>> /\ flushing' = "no" /\ Return("ok", block, FALSE)
    <3>1. retries > 1
      BY <1>0, <1>7 DEF Failures
    <3>2. /\ Reading' /\ retries' = retries - 1 /\ got' = got
          /\ UNCHANGED <<spc, block>> /\ Replied("ACK")
      BY <1>0, <2>2, <3>1, ReadPrevious
    <3>3. Behind'
      BY <1>0, <1>7, <2>2, <3>2 DEF Replied, Empty, Going, Failures
    <3>. QED
      BY <2>2, <3>2, <3>3 DEF OnCourse, Together
  <2>. QED
    BY <1>1, <2>1, <2>2
<1>8. CASE Going("ACK") /\ Failures <= 2 * damage
  <2>1. \/ UNCHANGED vars
        \/ React("ACK") /\ up' = <<>> /\ UNCHANGED receiver
    BY <1>0, <1>8, GoingStep DEF Empty, Going
  <2>2. CASE React("ACK") /\ up' = <<>> /\ UNCHANGED receiver
    <3>1. Reading' /\ got' = got /\ flushing' = flushing
      BY <2>2 DEF receiver, getHdr, counters, file, InOrder
    <3>2. CASE block = N
      <4>1. Answer("ACK") = <<"eot", block + 1, <<Eot>> >>
        BY <1>0, <3>2 DEF Answer
      <4>2. Ending'
        BY <1>0, <1>8, <2>2, <3>1, <3>2, <4>1, ReactOne, ItemsAre DEF Ending, Going, Empty, Coming, Eot
      <4>. QED
        BY <1>8, <3>1, <4>2 DEF OnCourse, Together, Empty, Going
    <3>3. CASE block # N
      <4>1. Answer("ACK") = <<"data", block + 1, <<Data(block + 1)>> >>
        BY <1>0, <3>3 DEF Answer
      <4>2. Data(block + 1) \in Items /\ Data(block + 1).kind = "block" /\ block + 1 \in 1..N
        BY <1>0, <3>3, ItemsAre DEF Data
      <4>3. /\ spc' = "data" /\ block' = block + 1
            /\ \/ down' = <<Data(block + 1)>> /\ up' = <<>>
               \/ Empty' \/ Coming(Bad)'
        BY <1>0, <1>8, <2>2, <4>1, <4>2, ReactOne DEF Going, Coming
      <4>4. Coming(Data(block))' \/ Empty' \/ Coming(Bad)'
        BY <4>3 DEF Coming
      <4>5. Ahead'
        BY <1>0, <3>1, <4>2, <4>3, <4>4 DEF Ahead
      <4>. QED
        BY <1>8, <3>1, <4>5 DEF OnCourse, Together, Empty, Going
    <3>. QED
      BY <3>2, <3>3
  <2>. QED
    BY <1>1, <2>1, <2>2
<1>. QED
  BY <1>4, <1>5, <1>6, <1>7, <1>8

LEMMA EndingKept ==
  ASSUME Underway, [Next]_vars, stray' = stray, flushing = "no" \/ Empty, Reading, Ending
  PROVE  OnCourse'
<1>. USE DEF Reading, Ending
<1>0. spc # "start" /\ Types
  BY DEF Underway
<1>1. ASSUME UNCHANGED vars PROVE OnCourse'
  BY <1>1, SameCourse DEF OnCourse, Together
<1>2. ASSUME Kept' = Kept, spc' = spc, Empty' PROVE OnCourse'
  BY <1>0, <1>2 DEF Kept, counters, OnCourse, Together, InOrder
<1>3. CASE Empty
  <2>1. CASE UNCHANGED Kept /\ Empty' /\ spc' = spc
    BY <1>2, <2>1
  <2>2. CASE /\ flushing \in {"timeout", "frame"}
             /\ Return(flushing, 0, FALSE) /\ down' = <<>> /\ flushing' = "no"
    <3>1. /\ got' = got /\ InOrder'
          /\ \/ Left'
             \/ Reading' /\ UNCHANGED <<spc, block>> /\ Replied("C")
      BY <1>0, <1>3, <2>2, ReadAgain DEF Empty
    <3>2. CASE Reading' /\ UNCHANGED <<spc, block>> /\ Replied("C")
      <4>1. Ending'
        BY <1>0, <2>2, <3>1, <3>2 DEF Replied, Empty, Going
      <4>. QED
        BY <2>2, <3>1, <3>2, <4>1 DEF OnCourse, Together
    <3>. QED
      BY <3>1, <3>2 DEF OnCourse
  <2>. QED
    BY <1>0, <1>3, <2>1, <2>2, EmptyStep
<1>4. ASSUME NEW x \in {Eot, Noise}, Coming(x) PROVE OnCourse'
  <2>1. x \in Items \ {Can} /\ x.kind \in {"eot", "noise"}
    BY ItemsAre DEF Eot, Noise, Can
  <2>2. \/ UNCHANGED vars
        \/ down' = <<>> /\ Return("eof", 0, FALSE)
        \/ down' = <<>> /\ UNCHANGED <<up, spc, Kept>>
    BY <1>0, <1>4, <2>1, ComingStep DEF Coming, Empty
  <2>3. CASE Return("eof", 0, FALSE)
    BY <2>3, ReadEof DEF OnCourse
  <2>4. CASE down' = <<>> /\ UNCHANGED <<up, spc, Kept>>
    BY <1>2, <1>4, <2>4 DEF Empty, Coming
  <2>. QED
    BY <1>1, <2>2, <2>3, <2>4
<1>5. ASSUME NEW r \in {"C", "noise"}, Going(r) PROVE OnCourse'
  <2>1. \/ UNCHANGED vars
        \/ React(r) /\ up' = <<>> /\ UNCHANGED receiver
    BY <1>0, <1>5, GoingStep DEF Empty, Going
  <2>2. CASE React(r) /\ up' = <<>> /\ UNCHANGED receiver
    <3>1. Reading' /\ got' = got /\ flushing' = flushing
      BY <2>2 DEF receiver, getHdr, counters, file, InOrder
    <3>2. Answer(r) = <<"eot", block, <<Eot>> >>
      BY <1>0 DEF Answer
    <3>3. Ending'
      BY <1>0, <1>5, <2>2, <3>1, <3>2, ReactOne, ItemsAre DEF Going, Empty, Coming, Eot
    <3>. QED
      BY <1>5, <3>1, <3>3 DEF OnCourse, Together, Empty, Going
  <2>. QED
    BY <1>1, <2>1, <2>2
<1>. QED
  BY <1>3, <1>4, <1>5

(* stream_open: anything but a header keeps it waiting or makes it fail,   *)
LEMMA OpenAgain ==
  ASSUME Types, stray' = stray, up = <<>>, rpc = "open",
         NEW stat \in {"timeout", "frame", "cksum"}, NEW dirty, Return(stat, 0, dirty)
  PROVE  /\ got' = got /\ next' = next
         /\ \/ Left'
            \/ /\ UNCHANGED <<rpc, spc, block>>
               /\ up' = <<>> \/ \E r \in {"C", "NAK", "noise"} : up' = <<r>>
<1>1. Opened(stat, 0) /\ UNCHANGED <<spc, block>>
  BY DEF Return, Read, Final
<1>2. got' = got /\ next' = next
  BY <1>1 DEF Opened
<1>3. CASE rpc' = "prompt"
  BY <1>2, <1>3 DEF Left
<1>4. CASE rpc' # "prompt" /\ stat = "timeout"
  <2>1. PICK crc : rpc' = rpc /\ Reply(<<Ask(crc)>>)
    BY <1>1, <1>4 DEF Opened, ToPrompt
  <2>2. Ask(crc) \in {"C", "NAK"} /\ Ask(crc) \in Replies
    BY DEF Ask, Replies
  <2>3. \/ up' = <<Ask(crc)>>
        \/ up' \in {<<>>, <<"noise">>}
    BY <2>1, <2>2, ReplyOne DEF Types
  <2>. QED
    BY <1>1, <1>2, <2>1, <2>2, <2>3
<1>5. CASE rpc' # "prompt" /\ stat # "timeout"
  <2>1. rpc' = rpc /\ Reply(<<>>)
    BY <1>1, <1>5 DEF Opened, ToPrompt
  <2>. QED
    BY <1>1, <1>2, <2>1, ReplyNone DEF Types
<1>. QED
  BY <1>3, <1>4, <1>5

(* and a header opens the stream.                                          *)
LEMMA OpenHeader ==
  ASSUME Types, stray' = stray, Opening, spc = "header", up = <<>>, crcRetries > 0, down' = <<>>,
         Return("ok", 0, FALSE)
  PROVE  Reading' /\ Greeted'
<1>1. Opened("ok", 0) /\ UNCHANGED <<spc, block>>
  BY DEF Return, Read, Final, Opening
<1>2. /\ rpc' = "read" /\ retries' = MaxRetries /\ UNCHANGED <<next, got, crcRetries>>
      /\ Reply(<<"ACK">>)
  BY <1>1, FirstNumbers DEF Opened
<1>3. Replied("ACK")
  BY <1>2, ReplyOne DEF Replied, Replies, Types
<1>4. Len(got') = 0 /\ DOMAIN got' = {} /\ damage \in Int /\ damage >= 0 /\ MaxRetries \in Int
  BY <1>2, CountsAre DEF Opening
<1>5. Reading'
  BY <1>2, <1>4, FirstNumbers DEF Reading, InOrder, Opening
<1>6. Greeted'
  BY <1>1, <1>2, <1>3, <1>4 DEF Greeted, Opening, Replied, Empty, Going, Failures
<1>. QED
  BY <1>5, <1>6

LEMMA OpeningKept ==
  ASSUME Underway, [Next]_vars, stray' = stray, flushing = "no" \/ Empty, Opening
  PROVE  OnCourse'
<1>. USE DEF Opening
<1>0. Types /\ DOMAIN got = {} /\ InOrder /\ N \in Nat /\ Len(got) = 0
  BY CountsAre DEF Underway, InOrder
<1>1. ASSUME UNCHANGED vars PROVE OnCourse'
  BY <1>0, <1>1, SameCourse DEF OnCourse, Together
<1>2. ASSUME Kept' = Kept, spc' = spc \/ (spc = "start" /\ spc' = "ready"), Empty' PROVE OnCourse'
  BY <1>0, <1>2 DEF Kept, counters, OnCourse, Together, InOrder
<1>3. ASSUME spc \in {"ready", "header"}, up = <<>>, down' = <<>>, flushing' = "no",
             NEW stat \in {"timeout", "frame", "cksum"}, NEW dirty, Return(stat, 0, dirty)
      PROVE  OnCourse'
  <2>1. /\ got' = got /\ next' = next
        /\ \/ Left'
           \/ /\ UNCHANGED <<rpc, spc, block>>
              /\ up' = <<>> \/ \E r \in {"C", "NAK", "noise"} : up' = <<r>>
    BY <1>0, <1>3, OpenAgain
  <2>2. InOrder'
    BY <1>0, <2>1 DEF InOrder
  <2>3. CASE /\ UNCHANGED <<rpc, spc, block>>
             /\ up' = <<>> \/ \E r \in {"C", "NAK", "noise"} : up' = <<r>>
    <3>1. Opening'
      BY <1>3, <2>1, <2>3 DEF Empty, Going
    <3>. QED
      BY <1>3, <2>2, <3>1 DEF OnCourse, Together
  <2>. QED
    BY <2>1, <2>2, <2>3 DEF OnCourse
<1>4. CASE spc = "start" /\ Empty
  BY <1>0, <1>2, <1>4, EmptyStep
<1>5. CASE spc \in {"ready", "header"} /\ Empty
  <2>1. \/ UNCHANGED Kept /\ Empty' /\ spc' = spc
        \/ /\ flushing \in {"timeout", "frame"}
           /\ Return(flushing, 0, FALSE) /\ down' = <<>> /\ flushing' = "no"
    BY <1>0, <1>5, EmptyStep
  <2>. QED
    BY <1>2, <1>3, <1>5, <2>1 DEF Empty
<1>6. CASE spc = "header" /\ Coming(Bad)
  <2>1. \/ UNCHANGED vars
        \/ /\ down' = <<>> /\ up = <<>>
           /\ \/ Return("cksum", 0, FALSE) /\ flushing' = "no"
              \/ UNCHANGED <<up, spc, Kept>>
    BY <1>0, <1>6, BadStep
  <2>. QED
    BY <1>1, <1>2, <1>3, <1>6, <2>1 DEF Empty
<1>7. CASE spc = "header" /\ Coming(Data(0))
  <2>1. \/ UNCHANGED vars
        \/ /\ down' = <<>> /\ up = <<>> /\ flushing' = "no"
           /\ IF crcRetries > 0 THEN Return("ok", 0, FALSE) ELSE Return("cksum", 0, TRUE)
    <3>1. 0 \in 0..N /\ spc # "start"
      BY <1>0, <1>7
    <3>. QED
      BY <1>0, <1>7, <3>1, BlockStep
  <2>2. CASE down' = <<>> /\ up = <<>> /\ flushing' = "no" /\ crcRetries > 0 /\ Return("ok", 0, FALSE)
    <3>1. Reading' /\ Greeted'
      BY <1>0, <1>7, <2>2, OpenHeader
    <3>. QED
      BY <2>2, <3>1 DEF OnCourse, Together, Reading
  <2>. QED
    BY <1>1, <1>3, <1>7, <2>1, <2>2
<1>8. ASSUME spc \in {"ready", "header"}, NEW r \in {"C", "NAK", "noise"}, Going(r)
      PROVE  OnCourse'
  <2>1. \/ UNCHANGED vars
        \/ React(r) /\ up' = <<>> /\ UNCHANGED receiver
    BY <1>0, <1>8, GoingStep DEF Empty, Going
  <2>2. CASE React(r) /\ up' = <<>> /\ UNCHANGED receiver
    <3>1. UNCHANGED <<rpc, got, next, flushing>> /\ InOrder' /\ flushing' = "no" /\ down = <<>>
      BY <1>0, <1>8, <2>2 DEF receiver, getHdr, counters, file, InOrder, Empty, Going
    <3>2. \/ Answer(r) = <<"header", 0, <<Data(0)>> >>
          \/ Answer(r) = <<"done", block, <<>> >>
          \/ Answer(r) = <<"done", 0, <<Can, Can>> >>
      BY <1>8 DEF Answer
    <3>3. CASE Answer(r) = <<"header", 0, <<Data(0)>> >>
      <4>1. Data(0) \in Items /\ Data(0).kind = "block"
        BY <1>0, ItemsAre DEF Data
      <4>2. Opening'
        BY <1>0, <1>8, <2>2, <3>1, <3>3, <4>1, ReactOne DEF Empty, Coming
      <4>. QED
        BY <3>1, <4>2 DEF OnCourse, Together
    <3>4. CASE Answer(r) = <<"done", block, <<>> >>
      <4>1. spc' = "done" /\ Empty'
        BY <1>0, <2>2, <3>1, <3>4, ReactNone
      <4>2. Over'
        BY <3>1, <4>1 DEF Over, Empty
      <4>. QED
        BY <3>1, <4>2 DEF OnCourse
    <3>5. CASE Answer(r) = <<"done", 0, <<Can, Can>> >>
      <4>1. Over'
        BY <1>0, <2>2, <3>1, <3>5, ReactCancels
      <4>. QED
        BY <3>1, <4>1 DEF OnCourse
    <3>. QED
      BY <3>2, <3>3, <3>4, <3>5
  <2>. QED
    BY <1>1, <2>1, <2>2
<1>. QED
  BY <1>4, <1>5, <1>6, <1>7, <1>8

(* Only a block makes stream_read store anything.                          *)
LEMMA NothingStored ==
  ASSUME NEW stat \in {"timeout", "frame", "cksum", "eof", "cancel"}, NEW dirty, Return(stat, 0, dirty)
  PROVE  /\ got' = got /\ UNCHANGED <<spc, block>>
         /\ rpc' = rpc \/ Left'
<1>1. CASE Opened(stat, 0)
  BY <1>1 DEF Opened, ToPrompt, Return, Left
<1>2. CASE Read(stat, 0)
  BY <1>2 DEF Read, AskAgain, ToPrompt, Return, Left, file
<1>3. CASE Final(stat)
  BY <1>3 DEF Final, ToPrompt, Return, Left
<1>. QED
  BY <1>1, <1>2, <1>3 DEF Return

LEMMA OverKept ==
  ASSUME Types, [Next]_vars, InOrder, Over
  PROVE  OnCourse'
<1>. USE DEF receiver, sender, line, getHdr, counters, file, Over
<1>1. ASSUME got' = got, spc' = spc, rpc' = rpc \/ Left', down' = down \/ (down # <<>> /\ down' = Tail(down))
      PROVE  OnCourse'
  <2>1. InOrder'
    BY <1>1 DEF InOrder
  <2>2. \A i \in DOMAIN down' : down'[i].kind # "block"
    <3>1. CASE down # <<>> /\ down' = Tail(down)
      <4>1. /\ down \in Seq(Items) /\ Tail(down) \in Seq(Items) /\ Len(Tail(down)) = Len(down) - 1
            /\ \A i \in 1..Len(Tail(down)) : Tail(down)[i] = down[i + 1]
        BY <3>1, HeadTailProperties DEF Types, LineTypes
      <4>2. /\ DOMAIN down = 1..Len(down) /\ Len(down) \in Nat
            /\ DOMAIN Tail(down) = 1..Len(Tail(down))
        BY <4>1, LenProperties
      <4>. QED
        BY <3>1, <4>1, <4>2
    <3>. QED
      BY <1>1, <3>1
  <2>. QED
    BY <1>1, <2>1, <2>2 DEF OnCourse
<1>2. down # <<>> => Head(down).kind # "block"
  <2>. SUFFICES ASSUME down # <<>> PROVE Head(down) = down[1] /\ 1 \in DOMAIN down
    OBVIOUS
  <2>1. down \in Seq(Items)
    BY DEF Types, LineTypes
  <2>. QED
    BY <2>1
<1>3. ~GetBlock
  BY <1>2 DEF GetBlock, Listening
<1>4. ~Start /\ ~GetReply /\ ~GetNothing /\ ~Prompt
  BY DEF Start, GetReply, GetNothing, Prompt
<1>5. CASE Stall \/ Resume \/ Timeout \/ UNCHANGED vars
  BY <1>1, <1>5 DEF Stall, Resume, Timeout, vars
<1>6. CASE GetBad
  BY <1>1, <1>6, NothingStored DEF GetBad, Listening
<1>7. CASE GetCan
  BY <1>1, <1>7, NothingStored DEF GetCan, Listening
<1>8. CASE GetEot
  BY <1>1, <1>8, NothingStored DEF GetEot, Listening
<1>9. CASE Ignore \/ Toss
  BY <1>1, <1>9 DEF Ignore, Toss, Listening
<1>10. CASE FlushEnds
  <2>1. flushing \in {"timeout", "frame"}
    BY <1>10 DEF FlushEnds, Types, GetHdrTypes
  <2>. QED
    BY <1>1, <1>10, <2>1, NothingStored DEF FlushEnds
<1>. QED
  BY <1>3, <1>4, <1>5, <1>6, <1>7, <1>8, <1>9, <1>10 DEF Next, SenderStep, ReceiverStep, Done

LEMMA LeftKept ==
  ASSUME [Next]_vars, InOrder, Left
  PROVE  OnCourse'
<1>. USE DEF receiver, sender, line, getHdr, counters, file, Left
<1>1. ASSUME NEW stat, NEW n, NEW dirty, Return(stat, n, dirty)
      PROVE  got' = got /\ Left'
  BY <1>1 DEF Return, Opened, Read, Final, ToPrompt
<1>2. got' = got /\ Left'
  <2>1. CASE SenderStep \/ Stall \/ Done \/ UNCHANGED vars
    BY <2>1 DEF SenderStep, Start, GetReply, GetNothing, Resume, Stall, Done, vars
  <2>2. CASE GetBlock \/ GetBad \/ GetCan \/ GetEot \/ FlushEnds
    BY <1>1, <2>2 DEF GetBlock, GetBad, GetCan, GetEot, FlushEnds
  <2>3. CASE Ignore \/ Timeout \/ Toss \/ Prompt
    BY <2>3 DEF Ignore, Timeout, Toss, Prompt
  <2>. QED
    BY <2>1, <2>2, <2>3 DEF Next, ReceiverStep
<1>. QED
  BY <1>2 DEF OnCourse, InOrder

LEMMA StrayOnlyGrows == Types /\ [Next]_vars /\ stray' = 0 => stray = 0
<1>. SUFFICES ASSUME Types, [Next]_vars, stray' = 0 PROVE stray = 0
  OBVIOUS
<1>. USE DEF receiver, sender, line, getHdr, counters, file
<1>0. stray \in Nat
  BY YmodemAssumption DEF Types, LineTypes
<1>1. ASSUME NEW r, Reply(r) PROVE stray' \in {stray, stray + 1}
  BY <1>1 DEF Reply, Put
<1>2. ASSUME NEW i, Send(i) PROVE stray' \in {stray, stray + 1}
  BY <1>2 DEF Send, Put
<1>3. ASSUME NEW stat, NEW n, NEW dirty, Return(stat, n, dirty)
      PROVE  stray' \in {stray, stray + 1}
  <2>1. \E r : Reply(r)
    BY <1>3 DEF Return, Opened, Read, Final, Accept, AcceptAgain, AskAgain
  <2>. QED
    BY <1>1, <2>1
<1>4. stray' \in {stray, stray + 1}
  <2>1. CASE SenderStep
    BY <1>2, <2>1 DEF SenderStep, Start, GetReply, GetNothing, React, Resume
  <2>2. CASE Stall \/ Done \/ UNCHANGED vars
    BY <2>2 DEF Stall, Done, vars
  <2>3. CASE GetBlock \/ GetEot \/ FlushEnds
    BY <1>3, <2>3 DEF GetBlock, GetEot, FlushEnds
  <2>4. CASE GetBad \/ GetCan
    BY <1>3, <2>4 DEF GetBad, GetCan
  <2>5. CASE Ignore \/ Timeout \/ Toss \/ Prompt
    BY <2>5 DEF Ignore, Timeout, Toss, Prompt
  <2>. QED
    BY <2>1, <2>2, <2>3, <2>4, <2>5 DEF Next, ReceiverStep
<1>. QED
  BY <1>0, <1>4

LEMMA LockstepKept ==
  MaxRetries > 2 * MaxDamage /\ Types /\ Lockstep /\ [Next]_vars => Lockstep'
<1>. SUFFICES ASSUME MaxRetries > 2 * MaxDamage, Types, Lockstep, [Next]_vars, stray' = 0
              PROVE  ~stalled' /\ OnCourse'
  BY DEF Lockstep
<1>1. stray = 0 /\ stray' = stray /\ ~stalled /\ OnCourse
  BY StrayOnlyGrows DEF Lockstep
<1>2. ~stalled'
  BY <1>1, StallKept
<1>3. CASE Together /\ (flushing = "no" \/ Empty)
  <2>1. Underway
    BY <1>1, <1>3 DEF Underway, Together, Opening, Reading, Greeted, Invited, Ahead, Behind, Ending
  <2>. QED
    BY <1>1, <1>2, <1>3, <2>1, OpeningKept, GreetedKept, InvitedKept, AheadKept, BehindKept,
       EndingKept DEF Together
<1>4. CASE Over
  BY <1>1, <1>2, <1>4, OverKept DEF OnCourse
<1>5. CASE Left
  BY <1>1, <1>2, <1>5, LeftKept DEF OnCourse
<1>. QED
  BY <1>1, <1>3, <1>4, <1>5 DEF OnCourse

-----------------------------------------------------------------------------
LEMMA InitLockstep == Init => Lockstep
<1>. SUFFICES ASSUME Init PROVE ~stalled /\ OnCourse
  BY DEF Lockstep
<1>1. ~stalled
  BY Zenon DEF Init
<1>2. DOMAIN <<>> = {}
  OBVIOUS
<1>3. OnCourse
  BY <1>2 DEF Init, OnCourse, Together, Opening, Empty, InOrder
<1>. QED
  BY <1>1, <1>3

(* As long as the line adds nothing and the sender does not stall, what    *)
(* has been loaded is the beginning of the file, whatever is lost or       *)
(* garbled, if the tries are more than twice that.                         *)
THEOREM LossyInOrder ==
  ASSUME MaxRetries > 2 * MaxDamage
  PROVE  Spec => [](stray = 0 => InOrder)
<1>1. Init => Types /\ Lockstep
  BY InitTypes, InitLockstep
<1>2. Types /\ Lockstep /\ [Next]_vars => (Types /\ Lockstep)'
  BY StepTypes, LockstepKept
<1>3. Lockstep => (stray = 0 => InOrder)
  BY DEF Lockstep, OnCourse
<1>. QED
  BY <1>1, <1>2, <1>3, PTL DEF Spec
=============================================================================
