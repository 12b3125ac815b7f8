------------------------ MODULE CusePresenterProofs ------------------------
(* The answers, the writes and the polls of spwcuse, for every depth of its  *)
(* queues, every number of requests, and whatever is written and received.   *)
EXTENDS CusePresenter, TLAPS

Read == [req : Nat, size : Nat, nonblocking : BOOLEAN]
Write == [req : Nat, record : Records]
Sent == [req : Nat, type : {"DATA", "TIME_CODE", "OTHER"}, terminator : {"EEP", "EOP"}]
Place == {"service", "decide", "notify", "write", "wait", "receive", "more", "eagain",
          "asleep", "exited", "joined"}
Errno == {"OK", "EINVAL", "EBUSY", "EAGAIN", "EOPNOTSUPP", "ENOBUFS", "ENOLINK",
          "EMSGSIZE", "EIO", "ENOMEM", "EINTR"}
Answer == (Errno \X Records) \cup Seq(Errno)
Operation == [op : {"read"}] \cup [op : {"write"}, record : Records]

State == [opened : BOOLEAN, nonblocking : BOOLEAN, stopping : BOOLEAN, reads : Seq(Read),
          writes : Seq(Write), records : Seq(Records), poll_handle : BOOLEAN]
Broker == [at : Place, then : Place, write : Write \cup {<<>>}, immediate : BOOLEAN,
           handle : BOOLEAN]
Port == [up : BOOLEAN, packets : Seq(Records), time_codes : Seq(Records),
         coming : Seq(Records), sent : Seq(Sent)]

TypeOK ==
    /\ state \in State /\ broker \in Broker /\ port \in Port
    /\ asked \in Seq(Operation)
    /\ answers \in Seq(Seq(Answer)) /\ Len(answers) = Len(asked)

\* The broker holds a write exactly from the pass that took it to its reply,
\* and a poll handle only until it notifies it.
BrokerHolds ==
    /\ broker.write # <<>> <=> broker.at = "write" \/ (broker.at = "notify" /\ broker.then = "write")
    /\ broker.handle => broker.at = "notify"

\* Write w is a write that was asked for and whose record was found legal.
Legal(w) ==
    /\ w.req \in DOMAIN asked /\ asked[w.req].op = "write"
    /\ asked[w.req].record = w.record /\ validate_user_record(w.record) = "OK"

\* The requests of a queue are in the order of the calls.
Ordered(s) == \A i, j \in DOMAIN s : i < j => s[i].req < s[j].req

\* The queues hold requests of their kind, in the order of the calls; the
\* write in the broker's hands comes before them.
QueuesOrdered ==
    /\ \A i \in DOMAIN state.reads : /\ state.reads[i].req \in DOMAIN asked
                                     /\ asked[state.reads[i].req].op = "read"
    /\ Ordered(state.reads)
    /\ \A i \in DOMAIN state.writes : Legal(state.writes[i])
    /\ Ordered(state.writes)
    /\ broker.write # <<>> =>
          /\ Legal(broker.write)
          /\ \A i \in DOMAIN state.writes : broker.write.req < state.writes[i].req

\* What was sent was asked for, before every write that still waits.
SentBefore ==
    \A i \in DOMAIN port.sent :
        /\ port.sent[i].req \in DOMAIN asked
        /\ \A j \in DOMAIN state.writes : port.sent[i].req < state.writes[j].req
        /\ broker.write # <<>> => port.sent[i].req < broker.write.req

\* The inductive invariant.
IInv == /\ TypeOK /\ BrokerHolds /\ QueuesOrdered /\ SentBefore
        /\ AnsweredOnce /\ WritesInOrder /\ PollersWoken

-----------------------------------------------------------------------------
(* What a step does to the requests. *)

\* Nothing: the queues, the write in hand, the answers and what was sent stay.
KeepReads == state'.reads = state.reads
KeepWrites == state'.writes = state.writes /\ broker'.write = broker.write
KeepAnswers == asked' = asked /\ answers' = answers
KeepSent == port'.sent = port.sent
Keep == KeepReads /\ KeepWrites /\ KeepAnswers /\ KeepSent

\* The first read is answered.
AnswerRead ==
    /\ state.reads # <<>> /\ state'.reads = Tail(state.reads)
    /\ \E a \in Answer : answers' = Reply(Head(state.reads).req, a)
    /\ asked' = asked /\ KeepWrites /\ KeepSent

\* The broker takes the first write.
TakeWrite ==
    /\ state.writes # <<>> /\ broker.write = <<>>
    /\ state'.writes = Tail(state.writes) /\ broker'.write = Head(state.writes)
    /\ KeepReads /\ KeepAnswers /\ KeepSent

\* The write in hand is answered, and sent if the answer is OK.
FinishWrite ==
    /\ broker.write # <<>> /\ broker'.write = <<>>
    /\ \E e \in Errno :
         /\ answers' = Reply(broker.write.req, <<e>>)
         /\ \/ KeepSent /\ e # "OK"
            \/ port'.sent = Append(port.sent,
                   [req |-> broker.write.req, type |-> broker.write.record.type,
                    terminator |-> IF broker.write.record.eep THEN "EEP" ELSE "EOP"])
    /\ asked' = asked /\ KeepReads /\ state'.writes = state.writes

\* A request is queued, or answered with an error at once.
NewRead ==
    \E r \in Read : /\ r.req = req /\ state'.reads = Append(state.reads, r)
                    /\ Ask([op |-> "read"]) /\ KeepWrites /\ KeepSent
NewWrite ==
    \E w \in Write : /\ w.req = req /\ validate_user_record(w.record) = "OK"
                     /\ state'.writes = Append(state.writes, w)
                     /\ Ask([op |-> "write", record |-> w.record])
                     /\ broker'.write = broker.write /\ KeepReads /\ KeepSent
NewRefused ==
    \E op \in Operation, e \in Errno \ {"OK"} :
        /\ asked' = Append(asked, op) /\ answers' = Append(answers, << <<e>> >>)
        /\ KeepReads /\ KeepWrites /\ KeepSent

\* The waiting reads are answered together.
EndReads ==
    /\ state'.reads = <<>>
    /\ answers' = [r \in DOMAIN answers |->
                     IF \E p \in Range(state.reads) : p.req = r
                     THEN Append(answers[r], <<"EINTR">>) ELSE answers[r]]
    /\ asked' = asked /\ KeepWrites /\ KeepSent

\* The waiting writes are dropped, once the broker is gone.
DropWrites ==
    /\ broker.at = "exited" /\ broker'.at = "joined"
    /\ state'.writes = <<>> /\ broker'.write = broker.write
    /\ KeepReads /\ KeepAnswers /\ KeepSent

RequestStep == \/ Keep \/ AnswerRead \/ TakeWrite \/ FinishWrite \/ NewRead
               \/ NewWrite \/ NewRefused \/ EndReads \/ DropWrites

\* A write is not the empty tuple that stands for none.
LEMMA WriteFacts ==
  ASSUME NEW w \in Write
  PROVE  w # <<>>
  BY DEF Write

\* Tail, Append and EXCEPT, element by element.
LEMMA TailFacts ==
  ASSUME NEW S, NEW s \in Seq(S), s # <<>>
  PROVE  /\ Tail(s) \in Seq(S) /\ Len(s) \in Nat \ {0} /\ Len(Tail(s)) = Len(s) - 1
         /\ DOMAIN s = 1 .. Len(s) /\ DOMAIN Tail(s) = 1 .. Len(s) - 1
         /\ \A i \in DOMAIN Tail(s) : i + 1 \in DOMAIN s /\ Tail(s)[i] = s[i + 1]
         /\ 1 \in DOMAIN s /\ Head(s) = s[1] /\ Head(s) \in S
  OBVIOUS

LEMMA AppendFacts ==
  ASSUME NEW S, NEW s \in Seq(S), NEW x \in S
  PROVE  /\ Append(s, x) \in Seq(S) /\ Len(s) \in Nat /\ Len(Append(s, x)) = Len(s) + 1
         /\ DOMAIN s = 1 .. Len(s) /\ DOMAIN Append(s, x) = 1 .. Len(s) + 1
         /\ \A i \in DOMAIN s : Append(s, x)[i] = s[i]
         /\ Append(s, x)[Len(s) + 1] = x
  OBVIOUS

LEMMA ExceptFacts ==
  ASSUME NEW S, NEW s \in Seq(S), NEW i \in 1 .. Len(s), NEW x \in S
  PROVE  /\ [s EXCEPT ![i] = x] \in Seq(S) /\ Len([s EXCEPT ![i] = x]) = Len(s)
         /\ \A j \in 1 .. Len(s) : [s EXCEPT ![i] = x][j] = IF j = i THEN x ELSE s[j]
  OBVIOUS

\* An ordered queue stays ordered without its head, and with a later request.
LEMMA TailOrdered ==
  ASSUME NEW S, NEW s \in Seq(S), s # <<>>, Ordered(s)
  PROVE  Ordered(Tail(s)) /\ \A i \in DOMAIN Tail(s) : Head(s).req < Tail(s)[i].req
  <1>1. /\ DOMAIN s = 1 .. Len(s) /\ DOMAIN Tail(s) = 1 .. Len(s) - 1 /\ Len(s) \in Nat
        /\ \A i \in DOMAIN Tail(s) : i + 1 \in DOMAIN s /\ Tail(s)[i] = s[i + 1]
        /\ 1 \in DOMAIN s /\ Head(s) = s[1]
    BY TailFacts
  <1>2. ASSUME NEW i \in DOMAIN Tail(s), NEW j \in DOMAIN Tail(s), i < j
        PROVE  Tail(s)[i].req < Tail(s)[j].req
    <2>1. i + 1 \in DOMAIN s /\ j + 1 \in DOMAIN s /\ i + 1 < j + 1
      BY <1>1, <1>2
    <2>2. s[i + 1].req < s[j + 1].req
      BY <2>1, Zenon DEF Ordered
    <2> QED
      BY <1>1, <2>2
  <1>3. ASSUME NEW i \in DOMAIN Tail(s)
        PROVE  Head(s).req < Tail(s)[i].req
    <2>1. i + 1 \in DOMAIN s /\ 1 < i + 1
      BY <1>1
    <2>2. s[1].req < s[i + 1].req
      BY <1>1, <2>1, Zenon DEF Ordered
    <2> QED
      BY <1>1, <2>2
  <1> QED
    BY <1>2, <1>3 DEF Ordered

LEMMA EmptyOrdered == Ordered(<<>>) /\ DOMAIN <<>> = {}
  BY DEF Ordered

LEMMA AppendOrdered ==
  ASSUME NEW S, NEW s \in Seq(S), NEW x \in S, Ordered(s),
         \A i \in DOMAIN s : s[i].req < x.req
  PROVE  Ordered(Append(s, x))
  <1>1. /\ DOMAIN s = 1 .. Len(s) /\ DOMAIN Append(s, x) = 1 .. Len(s) + 1 /\ Len(s) \in Nat
        /\ \A i \in DOMAIN s : Append(s, x)[i] = s[i]
        /\ Append(s, x)[Len(s) + 1] = x
    BY AppendFacts
  <1> SUFFICES ASSUME NEW i \in DOMAIN Append(s, x), NEW j \in DOMAIN Append(s, x), i < j
               PROVE  Append(s, x)[i].req < Append(s, x)[j].req
    BY DEF Ordered
  <1>2. i \in DOMAIN s /\ Append(s, x)[i] = s[i]
    BY <1>1
  <1>3. CASE j \in DOMAIN s
    BY <1>1, <1>2, <1>3 DEF Ordered
  <1>4. CASE j = Len(s) + 1
    BY <1>1, <1>2, <1>4
  <1> QED
    BY <1>1, <1>3, <1>4

\* What the types say of the queues.
LEMMA SequenceFacts ==
  ASSUME TypeOK
  PROVE  /\ state.reads \in Seq(Read) /\ state.writes \in Seq(Write)
         /\ state.records \in Seq(Records) /\ port.sent \in Seq(Sent)
         /\ broker.write \in Write \cup {<<>>}
         /\ asked \in Seq(Operation) /\ answers \in Seq(Seq(Answer))
         /\ Len(answers) = Len(asked) /\ Len(asked) \in Nat
         /\ DOMAIN asked = 1 .. Len(asked) /\ DOMAIN answers = 1 .. Len(asked)
  BY DEF TypeOK, State, Broker, Port

\* Requests asked for stay asked for.
LEMMA AskFacts ==
  ASSUME TypeOK, NEW op \in Operation, asked' = Append(asked, op)
  PROVE  /\ DOMAIN asked' = DOMAIN asked \cup {req} /\ req \notin DOMAIN asked
         /\ asked'[req] = op /\ \A r \in DOMAIN asked : asked'[r] = asked[r] /\ r < req
         /\ \A w : Legal(w) => Legal(w)'
  <1>1. asked \in Seq(Operation)
    BY SequenceFacts
  <1>2. /\ DOMAIN asked' = DOMAIN asked \cup {req} /\ req \notin DOMAIN asked
        /\ asked'[req] = op /\ \A r \in DOMAIN asked : asked'[r] = asked[r] /\ r < req
    BY <1>1, AppendFacts DEF req
  <1> QED
    BY <1>2 DEF Legal

\* The queues stay in order.
LEMMA QueuesStep ==
  ASSUME TypeOK, BrokerHolds, QueuesOrdered, RequestStep
  PROVE  QueuesOrdered'
  <1>0. /\ state.reads \in Seq(Read) /\ state.writes \in Seq(Write)
        /\ broker.write \in Write \cup {<<>>}
    BY SequenceFacts
  <1>1. CASE Keep
    BY <1>1 DEF Keep, KeepReads, KeepWrites, KeepAnswers, QueuesOrdered, Legal
  <1>2. CASE AnswerRead
    <2>1. /\ DOMAIN state.reads = 1 .. Len(state.reads) /\ Len(state.reads) \in Nat
          /\ DOMAIN state'.reads = 1 .. Len(state.reads) - 1
          /\ \A i \in DOMAIN state'.reads :
                i + 1 \in DOMAIN state.reads /\ state'.reads[i] = state.reads[i + 1]
      BY <1>0, <1>2, TailFacts DEF AnswerRead
    <2>2. \A i \in DOMAIN state'.reads : /\ state'.reads[i].req \in DOMAIN asked
                                        /\ asked[state'.reads[i].req].op = "read"
      BY <2>1 DEF QueuesOrdered
    <2>3. Ordered(state'.reads)
      BY <1>0, <1>2, TailOrdered DEF QueuesOrdered, AnswerRead
    <2> QED
      BY <1>2, <2>2, <2>3 DEF AnswerRead, KeepWrites, QueuesOrdered, Legal
  <1>3. CASE TakeWrite
    <2>1. /\ DOMAIN state.writes = 1 .. Len(state.writes) /\ Len(state.writes) \in Nat
          /\ DOMAIN state'.writes = 1 .. Len(state.writes) - 1
          /\ \A i \in DOMAIN state'.writes :
                i + 1 \in DOMAIN state.writes /\ state'.writes[i] = state.writes[i + 1]
          /\ 1 \in DOMAIN state.writes /\ broker'.write = state.writes[1]
      BY <1>0, <1>3, TailFacts DEF TakeWrite
    <2>2. \A i \in DOMAIN state'.writes : Legal(state'.writes[i])
      BY <2>1 DEF QueuesOrdered
    <2>3. /\ Ordered(state'.writes)
          /\ \A i \in DOMAIN state'.writes : broker'.write.req < state'.writes[i].req
      BY <1>0, <1>3, TailOrdered DEF QueuesOrdered, TakeWrite
    <2>5. Legal(broker'.write)
      BY <2>1 DEF QueuesOrdered
    <2> QED
      BY <1>3, <2>2, <2>3, <2>5 DEF TakeWrite, KeepReads, KeepAnswers, QueuesOrdered, Legal
  <1>4. CASE FinishWrite
    BY <1>4 DEF FinishWrite, KeepReads, QueuesOrdered, Legal
  <1>5. CASE NewRead
    <2>1. PICK r \in Read : /\ r.req = req /\ state'.reads = Append(state.reads, r)
                           /\ Ask([op |-> "read"]) /\ KeepWrites /\ KeepSent
      BY <1>5 DEF NewRead
    <2>2. [op |-> "read"] \in Operation
      BY DEF Operation
    <2>3. /\ DOMAIN asked' = DOMAIN asked \cup {req} /\ asked'[req].op = "read"
          /\ \A q \in DOMAIN asked : asked'[q] = asked[q] /\ q < req
          /\ \A w : Legal(w) => Legal(w)'
      BY <2>1, <2>2, AskFacts DEF Ask
    <2>4. /\ DOMAIN state.reads = 1 .. Len(state.reads) /\ Len(state.reads) \in Nat
          /\ DOMAIN state'.reads = 1 .. Len(state.reads) + 1
          /\ \A i \in DOMAIN state.reads : state'.reads[i] = state.reads[i]
          /\ state'.reads[Len(state.reads) + 1] = r
      BY <1>0, <2>1, AppendFacts
    <2>5. \A i \in DOMAIN state'.reads : /\ state'.reads[i].req \in DOMAIN asked'
                                        /\ asked'[state'.reads[i].req].op = "read"
      BY <2>1, <2>3, <2>4 DEF QueuesOrdered
    <2>6. Ordered(state'.reads)
      BY <1>0, <2>1, <2>3, AppendOrdered DEF QueuesOrdered
    <2> QED
      BY <2>1, <2>3, <2>5, <2>6 DEF KeepWrites, QueuesOrdered
  <1>6. CASE NewWrite
    <2>1. PICK w \in Write : /\ w.req = req /\ validate_user_record(w.record) = "OK"
                            /\ state'.writes = Append(state.writes, w)
                            /\ Ask([op |-> "write", record |-> w.record])
                            /\ broker'.write = broker.write /\ KeepReads /\ KeepSent
      BY <1>6 DEF NewWrite
    <2>2. [op |-> "write", record |-> w.record] \in Operation
      BY DEF Operation, Write
    <2>3. /\ DOMAIN asked' = DOMAIN asked \cup {req}
          /\ asked'[req] = [op |-> "write", record |-> w.record]
          /\ \A q \in DOMAIN asked : asked'[q] = asked[q] /\ q < req
          /\ \A v : Legal(v) => Legal(v)'
      BY <2>1, <2>2, AskFacts DEF Ask
    <2>4. /\ DOMAIN state.writes = 1 .. Len(state.writes) /\ Len(state.writes) \in Nat
          /\ DOMAIN state'.writes = 1 .. Len(state.writes) + 1
          /\ \A i \in DOMAIN state.writes : state'.writes[i] = state.writes[i]
          /\ state'.writes[Len(state.writes) + 1] = w
      BY <1>0, <2>1, AppendFacts
    <2>5. Legal(w)'
      BY <2>1, <2>3 DEF Legal
    <2>6. \A v : Legal(v) => v.req < req
      BY <2>3 DEF Legal
    <2>7. (\A i \in DOMAIN state.writes : Legal(state.writes[i]))'
      <3> SUFFICES ASSUME NEW i \in (DOMAIN state.writes)'
                   PROVE  Legal(state.writes[i])'
        OBVIOUS
      <3>1. CASE i \in DOMAIN state.writes
        <4>1. Legal(state.writes[i]) /\ state'.writes[i] = state.writes[i]
          BY <2>4, <3>1 DEF QueuesOrdered
        <4> QED
          BY <2>3, <4>1 DEF Legal
      <3>2. CASE i = Len(state.writes) + 1
        BY <2>4, <2>5, <3>2 DEF Legal
      <3> QED
        BY <2>4, <3>1, <3>2
    <2>8. Ordered(state'.writes)
      BY <1>0, <2>1, <2>6, AppendOrdered DEF QueuesOrdered
    <2>9. broker.write # <<>> => \A i \in DOMAIN state'.writes : broker.write.req < state'.writes[i].req
      BY <2>1, <2>4, <2>6 DEF QueuesOrdered
    <2> QED
      BY <2>1, <2>3, <2>7, <2>8, <2>9 DEF KeepReads, QueuesOrdered
  <1>7. CASE NewRefused
    <2>1. PICK op \in Operation : asked' = Append(asked, op) /\ KeepReads /\ KeepWrites
      BY <1>7 DEF NewRefused
    <2> QED
      BY <2>1, AskFacts DEF KeepReads, KeepWrites, QueuesOrdered
  <1>8. CASE EndReads
    BY <1>8, EmptyOrdered DEF EndReads, KeepWrites, QueuesOrdered, Legal
  <1>9. CASE DropWrites
    BY <1>9, EmptyOrdered DEF DropWrites, KeepReads, KeepAnswers, QueuesOrdered, Legal
  <1> QED
    BY <1>1, <1>2, <1>3, <1>4, <1>5, <1>6, <1>7, <1>8, <1>9 DEF RequestStep

\* What was sent stays before what waits.
LEMMA SentBeforeStep ==
  ASSUME TypeOK, QueuesOrdered, SentBefore, RequestStep
  PROVE  SentBefore'
  <1>0. /\ state.writes \in Seq(Write) /\ port.sent \in Seq(Sent)
        /\ broker.write \in Write \cup {<<>>}
    BY SequenceFacts
  <1>1. CASE Keep \/ AnswerRead \/ EndReads
    BY <1>1 DEF Keep, AnswerRead, EndReads, KeepWrites, KeepAnswers, KeepSent, SentBefore
  <1>2. CASE TakeWrite
    <2>1. /\ \A i \in DOMAIN state'.writes :
                i + 1 \in DOMAIN state.writes /\ state'.writes[i] = state.writes[i + 1]
          /\ 1 \in DOMAIN state.writes /\ broker'.write = state.writes[1]
      BY <1>0, <1>2, TailFacts DEF TakeWrite
    <2> QED
      BY <1>2, <2>1 DEF TakeWrite, KeepAnswers, KeepSent, SentBefore
  <1>3. CASE FinishWrite
    <2>1. CASE KeepSent
      BY <1>3, <2>1 DEF FinishWrite, KeepSent, SentBefore
    <2>2. CASE ~KeepSent
      <3> DEFINE x == [req |-> broker.write.req, type |-> broker.write.record.type,
                       terminator |-> IF broker.write.record.eep THEN "EEP" ELSE "EOP"]
      <3>1. port'.sent = Append(port.sent, x) /\ broker.write \in Write
        BY <1>0, <1>3, <2>2 DEF FinishWrite
      <3>2. x \in Sent /\ x.req = broker.write.req
        BY <3>1 DEF Sent, Write, Records
      <3> HIDE DEF x
      <3>3. /\ DOMAIN port'.sent = 1 .. Len(port.sent) + 1 /\ Len(port.sent) \in Nat
            /\ DOMAIN port.sent = 1 .. Len(port.sent)
            /\ \A i \in DOMAIN port.sent : port'.sent[i] = port.sent[i]
            /\ port'.sent[Len(port.sent) + 1] = x
        BY <1>0, <3>1, <3>2, AppendFacts
      <3>4. /\ x.req \in DOMAIN asked
            /\ \A j \in DOMAIN state.writes : x.req < state.writes[j].req
        BY <1>3, <3>2 DEF FinishWrite, QueuesOrdered, Legal
      <3> QED
        BY <1>3, <3>3, <3>4 DEF FinishWrite, SentBefore
    <2> QED
      BY <2>1, <2>2
  <1>4. CASE NewRead \/ NewRefused
    <2>1. PICK op \in Operation : /\ asked' = Append(asked, op)
                                 /\ KeepWrites /\ KeepSent
      BY <1>4 DEF NewRead, NewRefused, Ask, Operation
    <2>2. DOMAIN asked \subseteq DOMAIN asked'
      BY <2>1, AskFacts
    <2> QED
      BY <2>1, <2>2 DEF KeepWrites, KeepSent, SentBefore
  <1>5. CASE NewWrite
    <2>1. PICK w \in Write : /\ w.req = req /\ state'.writes = Append(state.writes, w)
                            /\ Ask([op |-> "write", record |-> w.record])
                            /\ broker'.write = broker.write /\ KeepSent
      BY <1>5 DEF NewWrite
    <2>2. [op |-> "write", record |-> w.record] \in Operation
      BY DEF Operation, Write
    <2>3. DOMAIN asked \subseteq DOMAIN asked' /\ \A r \in DOMAIN asked : r < req
      BY <2>1, <2>2, AskFacts DEF Ask
    <2>4. /\ DOMAIN state.writes = 1 .. Len(state.writes) /\ Len(state.writes) \in Nat
          /\ DOMAIN state'.writes = 1 .. Len(state.writes) + 1
          /\ \A i \in DOMAIN state.writes : state'.writes[i] = state.writes[i]
          /\ state'.writes[Len(state.writes) + 1] = w
      BY <1>0, <2>1, AppendFacts
    <2> QED
      BY <2>1, <2>3, <2>4 DEF KeepSent, SentBefore
  <1>6. CASE DropWrites
    BY <1>6, EmptyOrdered DEF DropWrites, KeepAnswers, KeepSent, SentBefore
  <1> QED
    BY <1>1, <1>2, <1>3, <1>4, <1>5, <1>6 DEF RequestStep

\* What an answer to request r does to the answers.
LEMMA ReplyFacts ==
  ASSUME TypeOK, NEW r \in DOMAIN asked, NEW a \in Answer, answers' = Reply(r, a)
  PROVE  /\ answers' \in Seq(Seq(Answer)) /\ Len(answers') = Len(answers)
         /\ answers'[r] = Append(answers[r], a)
         /\ \A q \in DOMAIN asked : q # r => answers'[q] = answers[q]
  <1>1. /\ answers \in Seq(Seq(Answer)) /\ DOMAIN answers = DOMAIN asked
        /\ DOMAIN answers = 1 .. Len(answers)
    BY SequenceFacts
  <1>2. Append(answers[r], a) \in Seq(Answer)
    BY <1>1, AppendFacts
  <1>3. /\ answers' \in Seq(Seq(Answer)) /\ Len(answers') = Len(answers)
        /\ \A q \in 1 .. Len(answers) :
              answers'[q] = IF q = r THEN Append(answers[r], a) ELSE answers[q]
    BY <1>1, <1>2, ExceptFacts DEF Reply
  <1> QED
    BY <1>1, <1>3, Zenon

-----------------------------------------------------------------------------
(* Each request waits in one place or has had its answer. *)

\* Whether request r waits as a read, as a write, or in the broker's hands.
Reading(r) == \E i \in DOMAIN state.reads : state.reads[i].req = r
Writing(r) == \E i \in DOMAIN state.writes : state.writes[i].req = r
InHand(r) == broker.write # <<>> /\ broker.write.req = r

\* The three places, before and after a step.
LEMMA Places ==
  ASSUME NEW r
  PROVE  /\ InQueue(r) <=> Reading(r) \/ Writing(r) \/ InHand(r)
         /\ InQueue(r)' <=> Reading(r)' \/ Writing(r)' \/ InHand(r)'
  BY DEF InQueue, Range, Reading, Writing, InHand

\* Nothing waits in two places, and only what was asked for waits.
LEMMA PlacesDiffer ==
  ASSUME QueuesOrdered, NEW r
  PROVE  /\ Reading(r) => ~Writing(r) /\ ~InHand(r) /\ r \in DOMAIN asked
         /\ Writing(r) => r \in DOMAIN asked
         /\ InHand(r) => r \in DOMAIN asked
  BY DEF QueuesOrdered, Legal, Reading, Writing, InHand

\* What is left of a queue whose head was taken.
LEMMA HeadLeaves ==
  ASSUME NEW S, NEW s \in Seq(S), s # <<>>, Ordered(s), NEW r,
         \A i \in DOMAIN s : s[i].req \in Nat
  PROVE  (\E i \in DOMAIN Tail(s) : Tail(s)[i].req = r)
         <=> (\E i \in DOMAIN s : s[i].req = r) /\ r # Head(s).req
  <1>1. /\ DOMAIN s = 1 .. Len(s) /\ DOMAIN Tail(s) = 1 .. Len(s) - 1 /\ Len(s) \in Nat
        /\ \A i \in DOMAIN Tail(s) : i + 1 \in DOMAIN s /\ Tail(s)[i] = s[i + 1]
        /\ 1 \in DOMAIN s /\ Head(s) = s[1]
    BY TailFacts
  <1>2. \A i \in DOMAIN Tail(s) : Head(s).req < Tail(s)[i].req
    BY TailOrdered
  <1>3. ASSUME NEW i \in DOMAIN Tail(s), Tail(s)[i].req = r
        PROVE  (\E k \in DOMAIN s : s[k].req = r) /\ r # Head(s).req
    <2>1. Head(s).req \in Nat /\ r \in Nat /\ Head(s).req < r
      BY <1>1, <1>2, <1>3
    <2> QED
      BY <1>1, <1>3, <2>1
  <1>4. ASSUME NEW i \in DOMAIN s, s[i].req = r, r # Head(s).req
        PROVE  \E k \in DOMAIN Tail(s) : Tail(s)[k].req = r
    <2>1. i - 1 \in DOMAIN Tail(s) /\ (i - 1) + 1 = i
      BY <1>1, <1>4
    <2>2. Tail(s)[i - 1] = s[i]
      BY <1>1, <2>1
    <2> QED
      BY <1>4, <2>1, <2>2
  <1> QED
    BY <1>3, <1>4

\* Answered(r) is what AnsweredOnce says of request r.
Answered(r) ==
    IF InQueue(r) THEN answers[r] = <<>>
    ELSE Len(answers[r]) = 1 \/ (broker.at = "joined" /\ answers[r] = <<>>)

\* A first answer is one answer.
LEMMA FirstAnswer ==
  ASSUME NEW s, s = <<>>, NEW a
  PROVE  Len(Append(s, a)) = 1
  OBVIOUS

\* Request r keeps its place and its answers.
LEMMA SameAnswered ==
  ASSUME NEW r, Answered(r), InQueue(r)' <=> InQueue(r), answers'[r] = answers[r],
         broker.at = "joined" => broker'.at = "joined"
  PROVE  Answered(r)'
  BY DEF Answered

\* Every step keeps a request in one place until it has its one answer.
LEMMA AnsweredStep ==
  ASSUME TypeOK, BrokerHolds, QueuesOrdered, AnsweredOnce, RequestStep,
         broker.at = "joined" => broker'.at = "joined"
  PROVE  AnsweredOnce'
  <1>0. /\ state.reads \in Seq(Read) /\ state.writes \in Seq(Write)
        /\ broker.write \in Write \cup {<<>>}
        /\ \A i \in DOMAIN state.reads : state.reads[i].req \in Nat
        /\ \A i \in DOMAIN state.writes : state.writes[i].req \in Nat
    <2>1. /\ state.reads \in Seq(Read) /\ state.writes \in Seq(Write)
          /\ broker.write \in Write \cup {<<>>}
      BY SequenceFacts
    <2>2. /\ \A i \in DOMAIN state.reads : state.reads[i] \in Read
          /\ \A i \in DOMAIN state.writes : state.writes[i] \in Write
      BY <2>1
    <2> QED
      BY <2>1, <2>2 DEF Read, Write
  <1>t. /\ answers \in Seq(Seq(Answer)) /\ DOMAIN answers = DOMAIN asked
        /\ DOMAIN asked = 1 .. Len(asked) /\ Len(asked) \in Nat /\ Len(answers) = Len(asked)
    BY SequenceFacts
  <1>a. \A r \in DOMAIN asked : Answered(r)
    BY DEF AnsweredOnce, Answered
  <1> SUFFICES ASSUME NEW r \in DOMAIN asked'
               PROVE  Answered(r)'
    BY DEF AnsweredOnce, Answered
  <1>1. CASE Keep
    <2>1. InQueue(r)' <=> InQueue(r)
      BY <1>1, Places DEF Keep, KeepReads, KeepWrites, Reading, Writing, InHand
    <2> QED
      BY <1>1, <1>a, <2>1, SameAnswered DEF Keep, KeepAnswers
  <1>2. CASE AnswerRead
    <2>0. PICK h : h = Head(state.reads).req
      OBVIOUS
    <2>1. Reading(h) /\ h \in DOMAIN asked
      BY <1>0, <1>2, <2>0, TailFacts DEF AnswerRead, Reading, QueuesOrdered
    <2>2. PICK a \in Answer : answers' = Reply(h, a)
      BY <1>2, <2>0 DEF AnswerRead
    <2>3. /\ answers'[h] = Append(answers[h], a)
          /\ \A q \in DOMAIN asked : q # h => answers'[q] = answers[q]
      BY <2>1, <2>2, ReplyFacts
    <2>4. ASSUME NEW q PROVE Reading(q)' <=> Reading(q) /\ q # h
      <3>0. state.reads # <<>> /\ Ordered(state.reads)
        BY <1>2 DEF AnswerRead, QueuesOrdered
      <3>1. (\E i \in DOMAIN Tail(state.reads) : Tail(state.reads)[i].req = q)
            <=> (\E i \in DOMAIN state.reads : state.reads[i].req = q) /\ q # Head(state.reads).req
        BY <1>0, <3>0, HeadLeaves
      <3> QED
        BY <1>2, <2>0, <3>1 DEF AnswerRead, Reading
    <2>5. \A q : (Writing(q)' <=> Writing(q)) /\ (InHand(q)' <=> InHand(q))
      BY <1>2 DEF AnswerRead, KeepWrites, Writing, InHand
    <2>6. CASE r = h
      <3>1. answers[h] = <<>>
        BY <1>a, <2>1, Places DEF Answered
      <3>2. ~InQueue(h)'
        BY <2>1, <2>4, <2>5, Places, PlacesDiffer
      <3>3. Len(answers'[h]) = 1
        BY <2>3, <3>1, FirstAnswer
      <3> QED
        BY <2>6, <3>2, <3>3 DEF Answered
    <2>7. CASE r # h
      <3>1. InQueue(r)' <=> InQueue(r)
        BY <2>4, <2>5, <2>7, Places
      <3>2. r \in DOMAIN asked /\ answers'[r] = answers[r]
        BY <1>2, <2>3, <2>7 DEF AnswerRead
      <3> QED
        BY <1>a, <3>1, <3>2, SameAnswered
    <2> QED
      BY <2>6, <2>7
  <1>3. CASE TakeWrite
    <2>0. PICK h : h = Head(state.writes).req
      OBVIOUS
    <2>1. ASSUME NEW q PROVE Writing(q)' <=> Writing(q) /\ q # h
      <3>1. (\E i \in DOMAIN Tail(state.writes) : Tail(state.writes)[i].req = q)
            <=> (\E i \in DOMAIN state.writes : state.writes[i].req = q) /\ q # Head(state.writes).req
        BY <1>0, <1>3, HeadLeaves, Zenon DEF TakeWrite, QueuesOrdered
      <3> QED
        BY <1>3, <2>0, <3>1 DEF TakeWrite, Writing
    <2>2. Writing(h) /\ broker'.write # <<>>
      BY <1>0, <1>3, <2>0, TailFacts, WriteFacts DEF TakeWrite, Writing
    <2>3. \A q : InHand(q)' <=> q = h
      BY <1>3, <2>0, <2>2 DEF TakeWrite, InHand
    <2>4. \A q : (Reading(q)' <=> Reading(q)) /\ ~InHand(q)
      BY <1>3 DEF TakeWrite, KeepReads, Reading, InHand
    <2>5. InQueue(r)' <=> InQueue(r)
      BY <2>1, <2>2, <2>3, <2>4, Places
    <2> QED
      BY <1>3, <1>a, <2>5, SameAnswered DEF TakeWrite, KeepAnswers
  <1>4. CASE FinishWrite
    <2>0. PICK h : h = broker.write.req
      OBVIOUS
    <2>1. InHand(h) /\ h \in DOMAIN asked
      BY <1>4, <2>0 DEF FinishWrite, InHand, QueuesOrdered, Legal
    <2>2. PICK e \in Errno : answers' = Reply(h, <<e>>)
      BY <1>4, <2>0 DEF FinishWrite
    <2>3. <<e>> \in Answer
      BY DEF Answer
    <2>4. /\ answers'[h] = Append(answers[h], <<e>>)
          /\ \A q \in DOMAIN asked : q # h => answers'[q] = answers[q]
      BY <2>1, <2>2, <2>3, ReplyFacts
    <2>5. \A q : ~InHand(q)' /\ (InHand(q) <=> q = h)
      BY <1>4, <2>0 DEF FinishWrite, InHand
    <2>6. \A q : (Writing(q)' <=> Writing(q)) /\ (Reading(q)' <=> Reading(q))
      BY <1>4 DEF FinishWrite, KeepReads, Writing, Reading
    <2>7. ~Writing(h)
      <3>1. h \in Nat /\ \A i \in DOMAIN state.writes : h < state.writes[i].req
        BY <1>0, <1>4, <2>0 DEF FinishWrite, QueuesOrdered, Write
      <3> QED
        BY <1>0, <3>1 DEF Writing
    <2>8. CASE r = h
      <3>1. answers[h] = <<>>
        BY <1>a, <2>1, Places DEF Answered
      <3>2. ~InQueue(h)'
        BY <2>1, <2>5, <2>6, <2>7, Places, PlacesDiffer
      <3>3. Len(answers'[h]) = 1
        BY <2>4, <3>1, FirstAnswer
      <3> QED
        BY <2>8, <3>2, <3>3 DEF Answered
    <2>9. CASE r # h
      <3>1. InQueue(r)' <=> InQueue(r)
        BY <2>5, <2>6, <2>9, Places
      <3>2. r \in DOMAIN asked /\ answers'[r] = answers[r]
        BY <1>4, <2>4, <2>9 DEF FinishWrite
      <3> QED
        BY <1>a, <3>1, <3>2, SameAnswered
    <2> QED
      BY <2>8, <2>9
  <1>5. CASE NewRead \/ NewWrite \/ NewRefused
    <2>1. \E op \in Operation : asked' = Append(asked, op)
      BY <1>5, Zenon DEF NewRead, NewWrite, NewRefused, Ask, Operation, Write
    <2>2. DOMAIN asked' = DOMAIN asked \cup {req} /\ req \notin DOMAIN asked
      BY <2>1, AskFacts
    <2>3. PICK a : /\ answers' = Append(answers, a) /\ a \in Seq(Answer)
                   /\ \/ a = <<>> /\ (NewRead \/ NewWrite)
                      \/ Len(a) = 1 /\ NewRefused
      <3>1. ASSUME NEW e \in Errno PROVE << <<e>> >> \in Seq(Answer) /\ Len(<< <<e>> >>) = 1
        BY DEF Answer
      <3>2. <<>> \in Seq(Answer)
        OBVIOUS
      <3>3. CASE NewRead \/ NewWrite
        BY <3>2, <3>3, Zenon DEF NewRead, NewWrite, Ask
      <3>4. CASE NewRefused
        <4>1. PICK e \in Errno : answers' = Append(answers, << <<e>> >>)
          BY <3>4 DEF NewRefused
        <4> QED
          BY <3>1, <3>4, <4>1, Zenon
      <3> QED
        BY <1>5, <3>3, <3>4
    <2>4. answers'[req] = a /\ \A q \in DOMAIN asked : answers'[q] = answers[q]
      BY <1>t, <2>3, AppendFacts DEF req
    <2>5. ~InQueue(req)
      BY <2>2, Places, PlacesDiffer
    <2>6. ASSUME NEW q
          PROVE  InQueue(q)' <=> InQueue(q) \/ (q = req /\ (NewRead \/ NewWrite))
      <3>1. CASE NewRead
        <4>1. PICK x \in Read : x.req = req /\ state'.reads = Append(state.reads, x) /\ KeepWrites
          BY <3>1 DEF NewRead
        <4>2. /\ DOMAIN state.reads = 1 .. Len(state.reads) /\ Len(state.reads) \in Nat
              /\ DOMAIN state'.reads = 1 .. Len(state.reads) + 1
              /\ \A i \in DOMAIN state.reads : state'.reads[i] = state.reads[i]
              /\ state'.reads[Len(state.reads) + 1] = x
          BY <1>0, <4>1, AppendFacts
        <4>3. Reading(q)' <=> Reading(q) \/ q = req
          BY <4>1, <4>2 DEF Reading
        <4>4. (Writing(q)' <=> Writing(q)) /\ (InHand(q)' <=> InHand(q))
          BY <4>1 DEF KeepWrites, Writing, InHand
        <4> QED
          BY <3>1, <4>3, <4>4, Places
      <3>2. CASE NewWrite
        <4>1. PICK x \in Write : /\ x.req = req /\ state'.writes = Append(state.writes, x)
                                /\ broker'.write = broker.write /\ KeepReads
          BY <3>2 DEF NewWrite
        <4>2. /\ DOMAIN state.writes = 1 .. Len(state.writes) /\ Len(state.writes) \in Nat
              /\ DOMAIN state'.writes = 1 .. Len(state.writes) + 1
              /\ \A i \in DOMAIN state.writes : state'.writes[i] = state.writes[i]
              /\ state'.writes[Len(state.writes) + 1] = x
          BY <1>0, <4>1, AppendFacts
        <4>3. Writing(q)' <=> Writing(q) \/ q = req
          BY <4>1, <4>2 DEF Writing
        <4>4. (Reading(q)' <=> Reading(q)) /\ (InHand(q)' <=> InHand(q))
          BY <4>1 DEF KeepReads, Reading, InHand
        <4> QED
          BY <3>2, <4>3, <4>4, Places
      <3>3. CASE NewRefused /\ ~NewRead /\ ~NewWrite
        BY <3>3, Places DEF NewRefused, KeepReads, KeepWrites, Reading, Writing, InHand
      <3> QED
        BY <1>5, <3>1, <3>2, <3>3
    <2>7. CASE r = req
      <3>1. CASE NewRead \/ NewWrite
        <4>1. answers'[r] = <<>>
          <5>1. CASE NewRefused
            \* A request is not both queued and refused: its answers differ.
            <6>1. (\E e : answers' = Append(answers, << <<e>> >>)) /\ answers' = Append(answers, <<>>)
              BY <3>1, <5>1, Zenon DEF NewRefused, NewRead, NewWrite, Ask
            <6>2. \A e, b : Append(answers, e) = Append(answers, b) => e = b
              OBVIOUS
            <6>3. \E e : << <<e>> >> = <<>>
              BY <6>1, <6>2, Zenon
            <6> QED
              BY <6>3
          <5>2. CASE ~NewRefused
            BY <2>3, <2>4, <2>7, <5>2, Zenon
          <5> QED
            BY <5>1, <5>2
        <4> QED
          BY <2>6, <2>7, <3>1, <4>1 DEF Answered
      <3>2. CASE ~(NewRead \/ NewWrite)
        BY <2>3, <2>4, <2>5, <2>6, <2>7, <3>2, Zenon DEF Answered
      <3> QED
        BY <3>1, <3>2
    <2>8. CASE r # req
      BY <1>a, <2>2, <2>4, <2>6, <2>8, SameAnswered
    <2> QED
      BY <2>7, <2>8
  <1>6. CASE EndReads
    <2>1. \A q : Reading(q) <=> \E p \in Range(state.reads) : p.req = q
      BY DEF Reading, Range
    <2>2. /\ r \in DOMAIN asked
          /\ answers'[r] = IF Reading(r) THEN Append(answers[r], <<"EINTR">>) ELSE answers[r]
      BY <1>6, <1>t, <2>1 DEF EndReads
    <2>3. ~Reading(r)'
      BY <1>6, EmptyOrdered DEF EndReads, Reading
    <2>4. (Writing(r)' <=> Writing(r)) /\ (InHand(r)' <=> InHand(r))
      BY <1>6 DEF EndReads, KeepWrites, Writing, InHand
    <2>5. CASE Reading(r)
      <3>1. answers[r] = <<>>
        BY <1>a, <2>2, <2>5, Places DEF Answered
      <3>2. Len(answers'[r]) = 1
        BY <2>2, <2>5, <3>1, FirstAnswer
      <3> QED
        BY <2>3, <2>4, <2>5, <3>2, Places, PlacesDiffer DEF Answered
    <2>6. CASE ~Reading(r)
      BY <1>a, <2>2, <2>3, <2>4, <2>6, Places, SameAnswered
    <2> QED
      BY <2>5, <2>6
  <1>7. CASE DropWrites
    <2>1. (Reading(r)' <=> Reading(r)) /\ ~Writing(r)' /\ (InHand(r)' <=> InHand(r))
      BY <1>7, EmptyOrdered DEF DropWrites, KeepReads, Reading, Writing, InHand
    <2>2. r \in DOMAIN asked /\ answers'[r] = answers[r] /\ broker'.at = "joined"
      BY <1>7 DEF DropWrites, KeepAnswers
    <2> QED
      BY <1>a, <2>1, <2>2, Places DEF Answered
  <1> QED
    BY <1>1, <1>2, <1>3, <1>4, <1>5, <1>6, <1>7 DEF RequestStep

-----------------------------------------------------------------------------
(* Writes are sent in order, legal ones only, and OK means sent. *)

\* WritesInOrder, request by request and item by item.
Ok == << <<"OK">> >>
OkSent(r) ==
    asked[r].op = "write" /\ answers[r] = Ok
    => \E i \in DOMAIN port.sent : port.sent[i].req = r
AsAsked(i) ==
    LET given == asked[port.sent[i].req].record
    IN  /\ port.sent[i].type = given.type
        /\ port.sent[i].terminator = "EEP" <=> given.eep
        /\ given.framed /\ given.given = given.payload_size
        /\ given.type = "TIME_CODE" => given.legal

LEMMA WritesFacts ==
  WritesInOrder <=> /\ Ordered(port.sent)
                    /\ \A r \in DOMAIN asked : OkSent(r)
                    /\ \A i \in DOMAIN port.sent : AsAsked(i)
  BY DEF WritesInOrder, Ordered, OkSent, AsAsked, Ok

\* No answer, and an error, are not this answer.
LEMMA NotOk ==
  ASSUME NEW e, e # "OK"
  PROVE  << <<e>> >> # Ok
  BY DEF Ok

LEMMA EmptyNotOk == <<>> # Ok
  BY DEF Ok

\* Requests and items that a step leaves alone.
LEMMA SameSent ==
  ASSUME NEW r, OkSent(r), asked'[r] = asked[r],
         answers'[r] = answers[r] \/ answers'[r] # Ok \/ asked[r].op = "read",
         \A i \in DOMAIN port.sent : i \in DOMAIN port'.sent /\ port'.sent[i] = port.sent[i]
  PROVE  OkSent(r)'
  BY DEF OkSent

LEMMA SameItem ==
  ASSUME NEW i, AsAsked(i), port'.sent[i] = port.sent[i],
         asked'[port.sent[i].req] = asked[port.sent[i].req]
  PROVE  AsAsked(i)'
  BY DEF AsAsked

\* Every step keeps the writes in order.
LEMMA WritesStep ==
  ASSUME TypeOK, QueuesOrdered, SentBefore, AnsweredOnce, WritesInOrder, RequestStep
  PROVE  WritesInOrder'
  <1>0. /\ port.sent \in Seq(Sent) /\ broker.write \in Write \cup {<<>>}
        /\ answers \in Seq(Seq(Answer)) /\ DOMAIN answers = DOMAIN asked
        /\ Len(answers) = Len(asked) /\ state.reads \in Seq(Read)
        /\ DOMAIN asked = 1 .. Len(asked) /\ Len(asked) \in Nat
    BY SequenceFacts
  <1>a. /\ Ordered(port.sent) /\ \A r \in DOMAIN asked : OkSent(r)
        /\ \A i \in DOMAIN port.sent : AsAsked(i) /\ port.sent[i].req \in DOMAIN asked
    BY WritesFacts DEF SentBefore
  <1>b. SUFFICES /\ Ordered(port'.sent)
                 /\ \A r \in DOMAIN asked' : OkSent(r)'
                 /\ \A i \in DOMAIN port'.sent : AsAsked(i)'
    BY Zenon DEF WritesInOrder, Ordered, OkSent, AsAsked, Ok
  <1>1. CASE Keep \/ TakeWrite \/ DropWrites
    <2>1. asked' = asked /\ answers' = answers /\ port'.sent = port.sent
      BY <1>1 DEF Keep, TakeWrite, DropWrites, KeepAnswers, KeepSent
    <2>2. ASSUME NEW r \in DOMAIN asked' PROVE OkSent(r)'
      BY <1>a, <2>1, SameSent
    <2>3. ASSUME NEW i \in DOMAIN port'.sent PROVE AsAsked(i)'
      BY <1>a, <2>1, SameItem
    <2> QED
      BY <1>a, <2>1, <2>2, <2>3
  <1>2. CASE AnswerRead
    <2>0. PICK h : h = Head(state.reads).req
      OBVIOUS
    <2>1. h \in DOMAIN asked /\ asked[h].op = "read"
      BY <1>0, <1>2, <2>0, TailFacts DEF AnswerRead, QueuesOrdered
    <2>2. PICK a \in Answer : answers' = Reply(h, a)
      BY <1>2, <2>0 DEF AnswerRead
    <2>3. \A q \in DOMAIN asked : q # h => answers'[q] = answers[q]
      BY <2>1, <2>2, ReplyFacts
    <2>4. asked' = asked /\ port'.sent = port.sent
      BY <1>2 DEF AnswerRead, KeepSent
    <2>5. ASSUME NEW r \in DOMAIN asked' PROVE OkSent(r)'
      BY <1>a, <2>1, <2>3, <2>4, SameSent
    <2>6. \A i \in DOMAIN port'.sent : AsAsked(i)'
      BY <1>a, <2>4, SameItem
    <2> QED
      BY <1>a, <2>4, <2>5, <2>6
  <1>3. CASE FinishWrite
    <2>0. PICK h : h = broker.write.req
      OBVIOUS
    <2>1. /\ h \in DOMAIN asked /\ broker.write \in Write /\ Legal(broker.write)
          /\ \A i \in DOMAIN port.sent : port.sent[i].req < h
      BY <1>0, <1>3, <2>0 DEF FinishWrite, QueuesOrdered, SentBefore, Legal
    <2>2. PICK e \in Errno :
             /\ answers' = Reply(h, <<e>>)
             /\ \/ KeepSent /\ e # "OK"
                \/ port'.sent = Append(port.sent,
                      [req |-> broker.write.req, type |-> broker.write.record.type,
                       terminator |-> IF broker.write.record.eep THEN "EEP" ELSE "EOP"])
      BY <1>3, <2>0 DEF FinishWrite
    <2>3. <<e>> \in Answer
      BY DEF Answer
    <2>4. /\ answers'[h] = Append(answers[h], <<e>>)
          /\ \A q \in DOMAIN asked : q # h => answers'[q] = answers[q]
      BY <2>1, <2>2, <2>3, ReplyFacts
    <2>5. answers'[h] = << <<e>> >>
      <3>1. InQueue(h)
        BY <1>3, <2>0 DEF FinishWrite, InQueue
      <3>2. answers[h] = <<>>
        BY <2>1, <3>1 DEF AnsweredOnce
      <3> QED
        BY <2>4, <3>2
    <2>6. asked' = asked
      BY <1>3 DEF FinishWrite
    <2>7. CASE KeepSent /\ e # "OK"
      <3>1. answers'[h] # Ok
        BY <2>5, <2>7, NotOk
      <3>2. ASSUME NEW r \in DOMAIN asked' PROVE OkSent(r)'
        BY <1>a, <2>4, <2>6, <2>7, <3>1, SameSent DEF KeepSent
      <3>3. \A i \in DOMAIN port'.sent : AsAsked(i)'
        BY <1>a, <2>6, <2>7, SameItem DEF KeepSent
      <3> QED
        BY <1>a, <2>7, <3>2, <3>3 DEF KeepSent
    <2>8. CASE ~(KeepSent /\ e # "OK")
      <3> DEFINE x == [req |-> broker.write.req, type |-> broker.write.record.type,
                       terminator |-> IF broker.write.record.eep THEN "EEP" ELSE "EOP"]
                 w == broker.write.record
      <3>1. port'.sent = Append(port.sent, x)
        BY <2>2, <2>8
      <3>2. /\ x \in Sent /\ x.req = h /\ x.type = w.type
            /\ (x.terminator = "EEP" <=> w.eep)
        BY <2>0, <2>1 DEF Sent, Write, Records
      <3>3. /\ asked[h].record = w /\ w.framed /\ w.given = w.payload_size
            /\ (w.type = "TIME_CODE" => w.legal)
        BY <2>0, <2>1 DEF Legal, validate_user_record, vspw_cuse_record_decode_header,
           vspw_cuse_record_validate_payload
      <3> HIDE DEF x, w
      <3>4. /\ DOMAIN port'.sent = 1 .. Len(port.sent) + 1 /\ Len(port.sent) \in Nat
            /\ DOMAIN port.sent = 1 .. Len(port.sent)
            /\ \A i \in DOMAIN port.sent : port'.sent[i] = port.sent[i]
            /\ port'.sent[Len(port.sent) + 1] = x
        BY <1>0, <3>1, <3>2, AppendFacts
      <3>5. Ordered(port'.sent)
        BY <1>0, <1>a, <2>1, <3>1, <3>2, AppendOrdered, Zenon
      <3>6. ASSUME NEW r \in DOMAIN asked' PROVE OkSent(r)'
        <4>1. CASE r = h
          BY <3>2, <3>4, <4>1 DEF OkSent
        <4>2. CASE r # h
          BY <1>a, <2>4, <2>6, <3>4, <4>2, SameSent
        <4> QED
          BY <4>1, <4>2
      <3>7. ASSUME NEW i \in DOMAIN port'.sent PROVE AsAsked(i)'
        <4>1. CASE i \in DOMAIN port.sent
          BY <1>a, <2>6, <3>4, <4>1, SameItem
        <4>2. CASE i = Len(port.sent) + 1
          BY <2>6, <3>2, <3>3, <3>4, <4>2, Zenon DEF AsAsked
        <4> QED
          BY <3>4, <4>1, <4>2
      <3> QED
        BY <3>5, <3>6, <3>7
    <2> QED
      BY <2>7, <2>8
  <1>4. CASE NewRead \/ NewWrite \/ NewRefused
    <2>1. PICK op \in Operation : asked' = Append(asked, op)
      BY <1>4, Zenon DEF NewRead, NewWrite, NewRefused, Ask, Operation, Write
    <2>2. /\ DOMAIN asked' = DOMAIN asked \cup {req} /\ req \notin DOMAIN asked
          /\ \A q \in DOMAIN asked : asked'[q] = asked[q]
      BY <2>1, AskFacts
    <2>3. PICK a \in Seq(Answer) : answers' = Append(answers, a) /\ a # Ok
      <3>1. CASE NewRead \/ NewWrite
        <4>1. answers' = Append(answers, <<>>)
          BY <3>1, Zenon DEF NewRead, NewWrite, Ask
        <4>2. <<>> \in Seq(Answer)
          OBVIOUS
        <4> QED
          BY <4>1, <4>2, EmptyNotOk, Zenon
      <3>2. CASE NewRefused
        <4>1. PICK e \in Errno : answers' = Append(answers, << <<e>> >>) /\ e # "OK"
          BY <3>2 DEF NewRefused
        <4>2. << <<e>> >> \in Seq(Answer) /\ << <<e>> >> # Ok
          BY <4>1, NotOk DEF Answer
        <4> QED
          BY <4>1, <4>2, Zenon
      <3> QED
        BY <1>4, <3>1, <3>2
    <2>4. answers'[req] = a /\ \A q \in DOMAIN asked : answers'[q] = answers[q]
      BY <1>0, <2>3, AppendFacts DEF req
    <2>5. KeepSent
      BY <1>4, Zenon DEF NewRead, NewWrite, NewRefused
    <2>6. ASSUME NEW r \in DOMAIN asked' PROVE OkSent(r)'
      <3>1. CASE r = req
        BY <2>3, <2>4, <3>1 DEF OkSent
      <3>2. CASE r \in DOMAIN asked
        BY <1>a, <2>2, <2>4, <2>5, <3>2, SameSent DEF KeepSent
      <3> QED
        BY <2>2, <3>1, <3>2
    <2>7. ASSUME NEW i \in DOMAIN port'.sent PROVE AsAsked(i)'
      BY <1>a, <2>2, <2>5, SameItem DEF KeepSent
    <2> QED
      BY <1>a, <2>5, <2>6, <2>7 DEF KeepSent
  <1>5. CASE EndReads
    <2>1. \A q \in DOMAIN asked : (\E p \in Range(state.reads) : p.req = q) => asked[q].op = "read"
      BY DEF Range, QueuesOrdered
    <2>2. \A q \in DOMAIN asked : asked[q].op = "read" \/ answers'[q] = answers[q]
      BY <1>0, <1>5, <2>1 DEF EndReads
    <2>3. asked' = asked /\ port'.sent = port.sent
      BY <1>5 DEF EndReads, KeepSent
    <2>4. ASSUME NEW r \in DOMAIN asked' PROVE OkSent(r)'
      BY <1>a, <2>2, <2>3, SameSent
    <2>5. \A i \in DOMAIN port'.sent : AsAsked(i)'
      BY <1>a, <2>3, SameItem
    <2> QED
      BY <1>a, <2>3, <2>4, <2>5
  <1> QED
    BY <1>1, <1>2, <1>3, <1>4, <1>5 DEF RequestStep

-----------------------------------------------------------------------------
(* The broker's steps. *)

\* Answering a request keeps the types.
LEMMA ReplyType ==
  ASSUME TypeOK, NEW r \in DOMAIN asked, NEW a \in Answer, answers' = Reply(r, a),
         asked' = asked, state' \in State, broker' \in Broker, port' \in Port
  PROVE  TypeOK'
  BY ReplyFacts DEF TypeOK

\* Leaving the requests alone keeps them too.
LEMMA KeepType ==
  ASSUME TypeOK, UNCHANGED <<asked, answers>>,
         state' \in State, broker' \in Broker, port' \in Port
  PROVE  TypeOK'
  BY DEF TypeOK

LEMMA ServiceEffect ==
  ASSUME TypeOK, QueuesOrdered, service_one_read
  PROVE  TypeOK' /\ AnswerRead
  <1> DEFINE pending == Head(state.reads)
             record == Head(state.records)
             a == IF pending.size >= record_size(record) THEN <<"OK", record>> ELSE <<"EMSGSIZE">>
  <1>0. state.reads \in Seq(Read) /\ state.records \in Seq(Records) /\ state \in State
    BY SequenceFacts DEF TypeOK
  <1>1. state.reads # <<>> /\ state.records # <<>>
    BY DEF service_one_read
  <1>2. /\ pending \in Read /\ record \in Records
        /\ 1 \in DOMAIN state.reads /\ pending = state.reads[1]
    BY <1>0, <1>1, TailFacts
  <1>3. Tail(state.reads) \in Seq(Read) /\ Tail(state.records) \in Seq(Records)
    BY <1>0, <1>1, TailFacts
  <1>4. a \in Answer
    BY <1>2 DEF Answer, Errno
  <1>5. answers' = Reply(pending.req, a) /\ asked' = asked /\ UNCHANGED <<broker, port>>
    BY DEF service_one_read
  <1>6. /\ state' \in State
        /\ state'.reads = Tail(state.reads) /\ state'.writes = state.writes
    BY <1>0, <1>3, Zenon DEF service_one_read, State
  <1>7. pending.req \in DOMAIN asked
    BY <1>2 DEF QueuesOrdered
  <1> HIDE DEF a, record
  <1>8. TypeOK'
    BY <1>4, <1>5, <1>6, <1>7, ReplyType DEF TypeOK
  <1> QED
    BY <1>1, <1>4, <1>5, <1>6, <1>8 DEF AnswerRead, KeepWrites, KeepSent

\* Only the place of the broker changes.
LEMMA GoEffect ==
  ASSUME TypeOK, NEW p \in Place, Go(p), UNCHANGED <<state, port, asked, answers>>
  PROVE  TypeOK' /\ Keep
  <1>1. broker' \in Broker /\ broker'.write = broker.write
    BY Zenon DEF Go, Broker, TypeOK
  <1> QED
    BY <1>1, KeepType DEF TypeOK, Keep, KeepReads, KeepWrites, KeepAnswers, KeepSent

LEMMA DecideEffect ==
  ASSUME TypeOK, BrokerHolds, decide
  PROVE  TypeOK' /\ (Keep \/ TakeWrite)
  <1>0. /\ broker.at = "decide" /\ broker.write = <<>> /\ UNCHANGED <<port, asked, answers>>
        /\ state \in State /\ broker \in Broker /\ state.writes \in Seq(Write)
    BY SequenceFacts DEF decide, pass, BrokerHolds, TypeOK
  <1>1. CASE UNCHANGED state /\ Go("exited")
    BY <1>0, <1>1, GoEffect DEF Place
  <1>2. CASE UNCHANGED state /\ Go("asleep")
    BY <1>0, <1>2, GoEffect DEF Place
  <1>3. CASE state.writes # <<>> /\ ~state.stopping
    <2>1. Head(state.writes) \in Write /\ Tail(state.writes) \in Seq(Write)
      BY <1>0, <1>3, TailFacts
    <2>2. state' = [[state EXCEPT !.writes = Tail(state.writes)] EXCEPT !.poll_handle = FALSE]
      BY <1>3 DEF decide, pass, take_poll_handle_locked, pop_write_locked
    <2>3. /\ state' \in State /\ state'.reads = state.reads
          /\ state'.writes = Tail(state.writes)
      BY <1>0, <2>1, <2>2, Zenon DEF State
    <2>4. \E b \in BOOLEAN : broker' = [broker EXCEPT !.at = "notify", !.then = "write",
                                         !.write = Head(state.writes), !.handle = b]
      BY <1>3, Zenon DEF decide, pass
    <2>5. broker' \in Broker /\ broker'.write = Head(state.writes)
      BY <1>0, <2>1, <2>4, Zenon DEF Broker, Place
    <2>6. TypeOK'
      BY <1>0, <2>3, <2>5, KeepType DEF TypeOK
    <2> QED
      BY <1>0, <1>3, <2>3, <2>5, <2>6 DEF TakeWrite, KeepReads, KeepAnswers, KeepSent
  <1>4. CASE UNCHANGED state /\ \E b \in BOOLEAN :
               broker' = [broker EXCEPT !.at = "notify", !.then = "wait", !.immediate = b]
    <2>1. broker' \in Broker /\ broker'.write = broker.write
      BY <1>0, <1>4, Zenon DEF Broker, Place
    <2> QED
      BY <1>0, <1>4, <2>1, KeepType
        DEF TypeOK, Keep, KeepReads, KeepWrites, KeepAnswers, KeepSent
  <1> QED
    BY <1>1, <1>2, <1>3, <1>4, Zenon DEF decide, pass

LEMMA NotifyEffect ==
  ASSUME TypeOK, notify_poll_handle
  PROVE  TypeOK' /\ Keep
  <1>1. broker' \in Broker /\ broker'.write = broker.write
    BY Zenon DEF notify_poll_handle, Broker, TypeOK
  <1> QED
    BY <1>1, KeepType
      DEF notify_poll_handle, TypeOK, Keep, KeepReads, KeepWrites, KeepAnswers, KeepSent

LEMMA ErrnoType ==
  ASSUME NEW result \in {"OK", "TIMEOUT", "RESOURCE_EXHAUSTED", "LINK_UNAVAILABLE"}
  PROVE  /\ result_to_errno(result) \in Errno
         /\ result_to_errno(result) = "OK" <=> result = "OK"
  BY DEF result_to_errno, Errno

LEMMA WriteEffect ==
  ASSUME TypeOK, BrokerHolds, QueuesOrdered, process_write
  PROVE  TypeOK' /\ FinishWrite
  <1>0. /\ broker.at = "write" /\ broker.write # <<>> /\ broker.write \in Write
        /\ broker.write.req \in DOMAIN asked /\ broker.write.req \in Nat
        /\ broker.write.record \in Records
    BY DEF process_write, BrokerHolds, QueuesOrdered, Legal, TypeOK, Broker, Write
  <1> DEFINE item == [req |-> broker.write.req, type |-> broker.write.record.type,
                      terminator |-> IF broker.write.record.eep THEN "EEP" ELSE "EOP"]
  <1>1. item \in Sent
    BY <1>0 DEF Records, Sent
  <1>2. PICK result \in SendResults, late \in BOOLEAN :
          /\ late => result = "TIMEOUT"
          /\ port' = [port EXCEPT !.sent = IF result = "OK" \/ late THEN Append(@, item) ELSE @]
          /\ answers' = Reply(broker.write.req, <<result_to_errno(result)>>)
    BY Zenon DEF process_write
  <1> HIDE DEF item
  <1>3. /\ result_to_errno(result) \in Errno
        /\ result_to_errno(result) = "OK" <=> result = "OK"
    BY ErrnoType DEF SendResults
  <1>4. <<result_to_errno(result)>> \in Answer
    BY <1>3 DEF Answer
  <1>5. /\ port' \in Port
        /\ \/ port'.sent = port.sent /\ result # "OK"
           \/ port'.sent = Append(port.sent, item)
    <2>1. port \in Port /\ port.sent \in Seq(Sent) /\ Append(port.sent, item) \in Seq(Sent)
      BY <1>1, AppendFacts DEF TypeOK, Port
    <2> QED
      BY <1>2, <2>1, Zenon DEF Port
  <1>6. /\ broker' \in Broker /\ broker'.write = <<>> /\ state' = state /\ asked' = asked
    BY Zenon DEF process_write, TypeOK, Broker, Place
  <1>7. TypeOK'
    BY <1>0, <1>2, <1>4, <1>5, <1>6, ReplyType, Zenon DEF TypeOK
  <1>8. FinishWrite
    BY <1>0, <1>2, <1>3, <1>5, <1>6 DEF item, FinishWrite, KeepSent, KeepReads
  <1> QED
    BY <1>7, <1>8

LEMMA RefuseEffect ==
  ASSUME TypeOK, QueuesOrdered, refuse_nonblocking_read
  PROVE  TypeOK' /\ (Keep \/ AnswerRead)
  <1>0. /\ state.reads \in Seq(Read) /\ state \in State /\ UNCHANGED <<port, asked>>
        /\ Go("service")
    BY SequenceFacts DEF TypeOK, refuse_nonblocking_read
  <1>1. broker' \in Broker /\ broker'.write = broker.write
    BY <1>0, Zenon DEF Go, Broker, TypeOK, Place
  <1>2. CASE UNCHANGED <<answers, state>>
    BY <1>0, <1>2, GoEffect DEF Place
  <1>3. CASE /\ state.reads # <<>> /\ answers' = Reply(Head(state.reads).req, <<"EAGAIN">>)
             /\ state' = [state EXCEPT !.reads = Tail(@)]
    <2>1. /\ 1 \in DOMAIN state.reads /\ Head(state.reads) = state.reads[1]
          /\ Tail(state.reads) \in Seq(Read)
      BY <1>0, <1>3, TailFacts
    <2>2. state' \in State /\ state'.reads = Tail(state.reads) /\ state'.writes = state.writes
      BY <1>0, <1>3, <2>1, Zenon DEF State
    <2>3. Head(state.reads).req \in DOMAIN asked
      BY <2>1 DEF QueuesOrdered
    <2>4. <<"EAGAIN">> \in Answer
      BY DEF Answer, Errno
    <2>5. TypeOK'
      BY <1>0, <1>1, <1>3, <2>2, <2>3, <2>4, ReplyType, Zenon DEF TypeOK
    <2> QED
      BY <1>0, <1>1, <1>3, <2>2, <2>4, <2>5 DEF AnswerRead, KeepWrites, KeepSent
  <1> QED
    BY <1>2, <1>3 DEF refuse_nonblocking_read

LEMMA ReceiveEffect ==
  ASSUME TypeOK, receive_one_ready_record
  PROVE  TypeOK' /\ Keep
  <1> DEFINE queue == IF port.packets # <<>> THEN "packets" ELSE "time_codes"
             queued == enqueue_record_locked(state, Head(port[queue]))
  <1>0. state \in State /\ broker \in Broker /\ port \in Port /\ UNCHANGED <<asked, answers>>
    BY DEF TypeOK, receive_one_ready_record
  <1>1. CASE Go("service") /\ UNCHANGED <<state, port>>
    BY <1>0, <1>1, GoEffect DEF Place
  <1>2. CASE /\ ~(~port.up \/ Ready = {}) /\ port' = [port EXCEPT ![queue] = Tail(@)]
             /\ \/ \E s \in queued :
                      /\ state' = take_poll_handle_locked(s)
                      /\ broker' = [broker EXCEPT !.at = "notify", !.then = "more",
                                                  !.handle = state.poll_handle]
                \/ Go("service") /\ UNCHANGED state
    <2>1. port[queue] \in Seq(Records) /\ port[queue] # <<>>
      BY <1>0, <1>2 DEF Ready, Port
    <2>2. Head(port[queue]) \in Records /\ Tail(port[queue]) \in Seq(Records)
      BY <2>1, TailFacts
    <2>3. port' \in Port /\ port'.sent = port.sent
      <3>1. CASE queue = "packets"
        BY <1>0, <1>2, <2>2, <3>1, Zenon DEF Port
      <3>2. CASE queue = "time_codes"
        BY <1>0, <1>2, <2>2, <3>2, Zenon DEF Port
      <3> QED
        BY <3>1, <3>2
    <2>4. /\ state' \in State /\ state'.reads = state.reads /\ state'.writes = state.writes
          /\ broker' \in Broker /\ broker'.write = broker.write
      <3>1. CASE Go("service") /\ UNCHANGED state
        BY <1>0, <3>1 DEF Go, Broker, Place
      <3>2. CASE \E s \in queued :
                      /\ state' = take_poll_handle_locked(s)
                      /\ broker' = [broker EXCEPT !.at = "notify", !.then = "more",
                                                  !.handle = state.poll_handle]
        <4>1. state.records \in Seq(Records)
          BY SequenceFacts DEF TypeOK
        <4>2. Append(state.records, Head(port[queue])) \in Seq(Records)
          BY <2>2, <4>1, AppendFacts
        <4>3. state' = [[state EXCEPT !.records = Append(@, Head(port[queue]))]
                          EXCEPT !.poll_handle = FALSE]
          BY <3>2, Zenon DEF enqueue_record_locked, take_poll_handle_locked
        <4>4. state' \in State /\ state'.reads = state.reads /\ state'.writes = state.writes
          BY <1>0, <4>2, <4>3, Zenon DEF State
        <4>5. broker' \in Broker /\ broker'.write = broker.write
          BY <1>0, <3>2, Zenon DEF Broker, Place, State
        <4> QED
          BY <4>4, <4>5
      <3> QED
        BY <1>2, <3>1, <3>2
    <2> QED
      BY <1>0, <2>3, <2>4, KeepType DEF Keep, KeepReads, KeepWrites, KeepAnswers, KeepSent
  <1> QED
    BY <1>1, <1>2 DEF receive_one_ready_record

\* A signal moves the broker and leaves what it holds.
LEMMA SignalFacts ==
  ASSUME broker \in Broker, Signal
  PROVE  /\ broker' \in Broker /\ broker'.write = broker.write
         /\ broker'.handle = broker.handle /\ broker'.then = broker.then
         /\ \/ broker' = broker
            \/ broker.at = "asleep" /\ broker'.at = "service"
  BY DEF Signal, Broker, Place

\* A request more keeps the types.
LEMMA AskType ==
  ASSUME TypeOK, NEW op \in Operation, NEW a \in Seq(Answer),
         asked' = Append(asked, op), answers' = Append(answers, a),
         state' \in State, broker' \in Broker, port' \in Port
  PROVE  TypeOK'
  BY AppendFacts DEF TypeOK

LEMMA RefusedEffect ==
  ASSUME TypeOK, NEW op \in Operation, NEW e \in Errno \ {"OK"},
         asked' = Append(asked, op), answers' = Append(answers, << <<e>> >>),
         UNCHANGED <<state, broker, port>>
  PROVE  TypeOK' /\ NewRefused
  <1>1. << <<e>> >> \in Seq(Answer)
    BY DEF Answer
  <1>2. TypeOK'
    BY <1>1, AskType DEF TypeOK
  <1> QED
    BY <1>2 DEF NewRefused, KeepReads, KeepWrites, KeepSent

LEMMA ReadEffect ==
  ASSUME TypeOK, cuse_read
  PROVE  TypeOK' /\ (NewRead \/ NewRefused)
  <1>0. /\ state \in State /\ broker \in Broker /\ port' = port /\ port \in Port
        /\ state.reads \in Seq(Read) /\ req \in Nat /\ state.nonblocking \in BOOLEAN
    BY SequenceFacts DEF cuse_read, TypeOK, State, req
  <1>1. PICK size \in BufferSizes :
          Queue([op |-> "read"],
                enqueue_read_locked(state, [req |-> req, size |-> size,
                                            nonblocking |-> state.nonblocking]))
    BY DEF cuse_read
  <1>2. PICK r : r = [req |-> req, size |-> size, nonblocking |-> state.nonblocking]
    BY Zenon
  <1>3. r \in Read /\ r.req = req
    BY <1>0, <1>2, CuseAssumption DEF Read
  <1>4. PICK op : op = [op |-> "read"]
    BY Zenon
  <1>5. op \in Operation
    BY <1>4 DEF Operation
  <1>6. Queue(op, enqueue_read_locked(state, r))
    BY <1>1, <1>2, <1>4
  <1>7. CASE enqueue_read_locked(state, r) = {}
    <2>1. PICK e \in Errno \ {"OK"} : answers' = Append(answers, << <<e>> >>)
      BY <1>6, <1>7 DEF Queue, Errno
    <2> QED
      BY <1>0, <1>5, <1>6, <1>7, <2>1, RefusedEffect DEF Queue
  <1>8. CASE enqueue_read_locked(state, r) # {}
    <2>1. Append(state.reads, r) \in Seq(Read)
      BY <1>0, <1>3, AppendFacts
    <2>2. state' = [state EXCEPT !.reads = Append(@, r)] /\ Ask(op) /\ Signal
      BY <1>6, <1>8 DEF Queue, enqueue_read_locked
    <2>3. /\ state' \in State /\ state'.reads = Append(state.reads, r)
          /\ state'.writes = state.writes
      BY <1>0, <2>1, <2>2, Zenon DEF State
    <2>4. broker' \in Broker /\ broker'.write = broker.write
      BY <1>0, <2>2, SignalFacts
    <2>5. <<>> \in Seq(Answer)
      OBVIOUS
    <2>6. TypeOK'
      BY <1>0, <1>5, <2>2, <2>3, <2>4, <2>5, AskType, Zenon DEF Ask
    <2> QED
      BY <1>0, <1>3, <1>4, <2>2, <2>3, <2>4, <2>6 DEF NewRead, KeepWrites, KeepSent
  <1> QED
    BY <1>7, <1>8

LEMMA VerdictType ==
  ASSUME NEW r
  PROVE  validate_user_record(r) \in Errno
  BY DEF validate_user_record, Errno

LEMMA CallWriteEffect ==
  ASSUME TypeOK, cuse_write
  PROVE  TypeOK' /\ (NewWrite \/ NewRefused)
  <1>0. /\ state \in State /\ broker \in Broker /\ port' = port /\ port \in Port
        /\ state.writes \in Seq(Write) /\ req \in Nat
    BY SequenceFacts DEF cuse_write, TypeOK, State, req
  <1>1. PICK record \in UserRecords :
          LET verdict == validate_user_record(record)
              op == [op |-> "write", record |-> record]
          IN  \/ /\ verdict = "OK"
                 /\ Queue(op, enqueue_write_locked(state, [req |-> req, record |-> record]))
              \/ \E error \in {verdict, "ENOMEM"} :
                   /\ error # "OK"
                   /\ asked' = Append(asked, op)
                   /\ answers' = Append(answers, << <<error>> >>)
                   /\ UNCHANGED <<state, broker>>
    BY DEF cuse_write
  <1>2. PICK w : w = [req |-> req, record |-> record]
    BY Zenon
  <1>3. w \in Write /\ w.req = req /\ w.record = record /\ record \in Records
    BY <1>0, <1>2, CuseAssumption DEF Write
  <1>4. PICK op : op = [op |-> "write", record |-> record]
    BY Zenon
  <1>5. op \in Operation
    BY <1>3, <1>4 DEF Operation
  <1>6. \/ /\ validate_user_record(record) = "OK" /\ Queue(op, enqueue_write_locked(state, w))
        \/ \E error \in Errno \ {"OK"} :
             /\ asked' = Append(asked, op)
             /\ answers' = Append(answers, << <<error>> >>)
             /\ UNCHANGED <<state, broker>>
    <2>1. validate_user_record(record) \in Errno /\ "ENOMEM" \in Errno
      BY VerdictType DEF Errno
    <2> QED
      BY <1>1, <1>2, <1>4, <2>1
  <1>7. CASE \E error \in Errno \ {"OK"} :
               /\ asked' = Append(asked, op)
               /\ answers' = Append(answers, << <<error>> >>)
               /\ UNCHANGED <<state, broker>>
    BY <1>0, <1>5, <1>7, RefusedEffect
  <1>8. CASE /\ validate_user_record(record) = "OK"
             /\ Queue(op, enqueue_write_locked(state, w))
    <2>1. CASE enqueue_write_locked(state, w) = {}
      <3>1. PICK e \in Errno \ {"OK"} : answers' = Append(answers, << <<e>> >>)
        BY <1>8, <2>1 DEF Queue, Errno
      <3> QED
        BY <1>0, <1>5, <1>8, <2>1, <3>1, RefusedEffect DEF Queue
    <2>2. CASE enqueue_write_locked(state, w) # {}
      <3>1. Append(state.writes, w) \in Seq(Write)
        BY <1>0, <1>3, AppendFacts
      <3>2. state' = [state EXCEPT !.writes = Append(@, w)] /\ Ask(op) /\ Signal
        BY <1>8, <2>2 DEF Queue, enqueue_write_locked
      <3>3. /\ state' \in State /\ state'.writes = Append(state.writes, w)
            /\ state'.reads = state.reads
        BY <1>0, <3>1, <3>2, Zenon DEF State
      <3>4. broker' \in Broker /\ broker'.write = broker.write
        BY <1>0, <3>2, SignalFacts
      <3>5. <<>> \in Seq(Answer)
        OBVIOUS
      <3>6. TypeOK'
        BY <1>0, <1>5, <3>2, <3>3, <3>4, <3>5, AskType, Zenon DEF Ask
      <3> QED
        BY <1>0, <1>3, <1>4, <1>8, <3>2, <3>3, <3>4, <3>6 DEF NewWrite, KeepReads, KeepSent
    <2> QED
      BY <2>1, <2>2
  <1> QED
    BY <1>6, <1>7, <1>8

LEMMA ReleaseEffect ==
  ASSUME TypeOK, cuse_release
  PROVE  TypeOK' /\ EndReads
  <1>0. state \in State /\ UNCHANGED <<broker, port, asked>>
    BY DEF TypeOK, cuse_release
  <1>1. state' \in State /\ state'.reads = <<>> /\ state'.writes = state.writes
    <2>1. state' = [[state EXCEPT !.opened = FALSE, !.reads = <<>>] EXCEPT !.poll_handle = FALSE]
      BY DEF cuse_release, take_poll_handle_locked
    <2>2. <<>> \in Seq(Read)
      OBVIOUS
    <2> QED
      BY <1>0, <2>1, <2>2, Zenon DEF State
  <1>2. answers' \in Seq(Seq(Answer)) /\ Len(answers') = Len(answers)
    <2>1. answers \in Seq(Seq(Answer)) /\ <<"EINTR">> \in Answer
      BY DEF TypeOK, Answer, Errno
    <2>2. \A r \in DOMAIN answers : answers[r] \in Seq(Answer)
      BY <2>1
    <2>3. \A r \in DOMAIN answers : Append(answers[r], <<"EINTR">>) \in Seq(Answer)
      BY <2>1, <2>2, AppendFacts
    <2>4. DOMAIN answers = 1 .. Len(answers) /\ Len(answers) \in Nat
      BY <2>1
    <2> QED
      BY <2>2, <2>3, <2>4 DEF cuse_release
  <1>3. TypeOK'
    BY <1>0, <1>1, <1>2 DEF TypeOK
  <1> QED
    BY <1>0, <1>1, <1>3 DEF cuse_release, EndReads, KeepWrites, KeepSent

LEMMA CleanupEffect ==
  ASSUME TypeOK, cleanup_state
  PROVE  TypeOK' /\ DropWrites
  <1>0. state \in State /\ broker \in Broker /\ UNCHANGED <<port, asked, answers>>
    BY DEF TypeOK, cleanup_state
  <1>1. <<>> \in Seq(Write) /\ <<>> \in Seq(Records)
    OBVIOUS
  <1>2. state' \in State /\ state'.writes = <<>> /\ state'.reads = state.reads
    BY <1>0, <1>1, Zenon DEF cleanup_state, State
  <1>3. broker' \in Broker /\ broker'.at = "joined" /\ broker'.write = broker.write
    BY <1>0 DEF cleanup_state, Broker, Place
  <1>4. TypeOK'
    BY <1>0, <1>2, <1>3, KeepType DEF TypeOK
  <1> QED
    BY <1>0, <1>2, <1>3, <1>4 DEF cleanup_state, DropWrites, KeepReads, KeepAnswers, KeepSent

\* Opening, polling and stopping leave the requests alone, and so does the port.
LEMMA DeviceEffect ==
  ASSUME TypeOK, cuse_open \/ cuse_poll \/ stop
  PROVE  TypeOK' /\ Keep
  <1>0. state \in State /\ broker \in Broker /\ UNCHANGED <<port, asked, answers>>
    BY Zenon DEF TypeOK, cuse_open, cuse_poll, stop
  <1>1. state' \in State /\ state'.reads = state.reads /\ state'.writes = state.writes
    <2>1. CASE cuse_open
      BY <1>0, <2>1, CuseAssumption, Zenon DEF cuse_open, State
    <2>2. CASE cuse_poll \/ stop
      BY <1>0, <2>2, Zenon DEF cuse_poll, stop, State
    <2> QED
      BY <2>1, <2>2
  <1>2. broker' \in Broker /\ broker'.write = broker.write
    BY <1>0, SignalFacts, Zenon DEF cuse_open, cuse_poll, stop
  <1> QED
    BY <1>0, <1>1, <1>2, KeepType DEF TypeOK, Keep, KeepReads, KeepWrites, KeepAnswers, KeepSent

LEMMA PortEffect ==
  ASSUME TypeOK, Arrive \/ Outage
  PROVE  TypeOK' /\ Keep
  <1>0. port \in Port /\ UNCHANGED <<state, broker, asked, answers>>
    BY DEF TypeOK, Arrive, Outage
  <1>1. port' \in Port /\ port'.sent = port.sent
    <2>1. CASE Arrive
      <3>1. port.coming \in Seq(Records) /\ port.coming # <<>>
        BY <1>0, <2>1 DEF Port, Arrive
      <3>2. PICK r : r = Head(port.coming)
        OBVIOUS
      <3>3. r \in Records /\ Tail(port.coming) \in Seq(Records)
        BY <3>1, <3>2, TailFacts
      <3>4. /\ Append(port.packets, r) \in Seq(Records)
            /\ Append(port.time_codes, r) \in Seq(Records)
        BY <1>0, <3>3, AppendFacts DEF Port
      <3>5. \/ port' = [port EXCEPT !.coming = Tail(@), !.packets = Append(@, r)]
            \/ port' = [port EXCEPT !.coming = Tail(@), !.time_codes = Append(@, r)]
        BY <2>1, <3>2, Zenon DEF Arrive
      <3> QED
        BY <1>0, <3>3, <3>4, <3>5, Zenon DEF Port
    <2>2. CASE Outage
      <3>1. <<>> \in Seq(Records)
        OBVIOUS
      <3> QED
        BY <1>0, <2>2, <3>1, Zenon DEF Outage, Port
    <2> QED
      BY <2>1, <2>2
  <1> QED
    BY <1>0, <1>1, KeepType DEF TypeOK, Keep, KeepReads, KeepWrites, KeepAnswers, KeepSent

LEMMA StepEffect ==
  ASSUME TypeOK, BrokerHolds, QueuesOrdered, Next
  PROVE  TypeOK' /\ RequestStep
  <1>1. CASE no_read_to_service \/ spurious_wakeup \/ wait_backend \/ receive_more
    <2>1. PICK p \in Place : Go(p) /\ UNCHANGED <<state, port, asked, answers>>
      BY <1>1 DEF no_read_to_service, spurious_wakeup, wait_backend, receive_more, Place
    <2> QED
      BY <2>1, GoEffect DEF RequestStep
  <1>2. CASE service_one_read \/ decide \/ notify_poll_handle \/ process_write
             \/ refuse_nonblocking_read \/ receive_one_ready_record
    BY <1>2, ServiceEffect, DecideEffect, NotifyEffect, WriteEffect, RefuseEffect, ReceiveEffect
      DEF RequestStep
  <1>3. CASE cuse_open \/ cuse_read \/ cuse_write \/ cuse_poll \/ cuse_release
             \/ stop \/ cleanup_state \/ Arrive \/ Outage
    BY <1>3, DeviceEffect, ReadEffect, CallWriteEffect, ReleaseEffect, CleanupEffect, PortEffect
      DEF RequestStep
  <1> QED
    BY <1>1, <1>2, <1>3 DEF Next

-----------------------------------------------------------------------------
(* What the broker holds, and the polls. *)

\* The broker's hands: process_write and notify_poll_handle empty them, and
\* nothing wakes a broker that has been joined.
LEMMA HoldsStep ==
  ASSUME TypeOK, BrokerHolds, Next
  PROVE  BrokerHolds' /\ (broker.at = "joined" => broker'.at = "joined")
  <1>0. broker \in Broker /\ broker.write \in Write \cup {<<>>}
    BY SequenceFacts DEF TypeOK
  <1>1. CASE UNCHANGED broker
    BY <1>1 DEF BrokerHolds
  <1>2. CASE Signal
    BY <1>0, <1>2, SignalFacts DEF BrokerHolds
  <1>3. ASSUME NEW p \in Place \ {"notify", "write"}, Go(p),
               broker.at \notin {"notify", "write", "joined"}
        PROVE  BrokerHolds' /\ broker.at # "joined"
    BY <1>0, <1>3 DEF BrokerHolds, Go, Broker
  <1>4. CASE decide
    <2>1. broker.at = "decide" /\ broker.write = <<>> /\ ~broker.handle
      BY <1>4 DEF decide, pass, BrokerHolds
    <2>2. CASE Go("exited") \/ Go("asleep")
      BY <2>1, <2>2, <1>3 DEF Place
    <2>3. CASE \E b \in BOOLEAN :
                 broker' = [broker EXCEPT !.at = "notify", !.then = "wait", !.immediate = b]
      BY <1>0, <2>1, <2>3 DEF BrokerHolds, Broker
    <2>4. CASE /\ state.writes # <<>>
               /\ \E b \in BOOLEAN : broker' = [broker EXCEPT !.at = "notify", !.then = "write",
                                                  !.write = Head(state.writes), !.handle = b]
      <3>1. Head(state.writes) # <<>>
        BY <2>4, SequenceFacts, TailFacts, WriteFacts
      <3> QED
        BY <1>0, <2>1, <2>4, <3>1 DEF BrokerHolds, Broker
    <2> QED
      BY <1>4, <2>2, <2>3, <2>4, Zenon DEF decide, pass
  <1>5. CASE notify_poll_handle
    BY <1>0, <1>5 DEF notify_poll_handle, BrokerHolds, Broker
  <1>6. CASE process_write
    BY <1>0, <1>6 DEF process_write, BrokerHolds, Broker
  <1>7. CASE receive_one_ready_record
    <2>1. CASE Go("service")
      BY <1>7, <2>1, <1>3 DEF Place, receive_one_ready_record
    <2>2. CASE broker' = [broker EXCEPT !.at = "notify", !.then = "more",
                                       !.handle = state.poll_handle]
      BY <1>0, <1>7, <2>2 DEF BrokerHolds, Broker, receive_one_ready_record
    <2> QED
      BY <1>7, <2>1, <2>2 DEF receive_one_ready_record
  <1>8. CASE cleanup_state
    BY <1>0, <1>8 DEF cleanup_state, BrokerHolds, Broker
  <1>9. CASE no_read_to_service \/ spurious_wakeup \/ wait_backend \/ receive_more
             \/ refuse_nonblocking_read
    <2>1. PICK p \in Place \ {"notify", "write"} : Go(p)
      BY <1>9 DEF no_read_to_service, spurious_wakeup, wait_backend, receive_more,
                  refuse_nonblocking_read, Place
    <2>2. broker.at \notin {"notify", "write", "joined"}
      BY <1>9 DEF no_read_to_service, spurious_wakeup, wait_backend, receive_more,
                  refuse_nonblocking_read
    <2> QED
      BY <2>1, <2>2, <1>3
  <1>10. CASE service_one_read \/ cuse_open \/ cuse_release \/ Arrive \/ Outage
    BY <1>1, <1>10, Zenon DEF service_one_read, cuse_open, cuse_release, Arrive, Outage
  <1>11. CASE cuse_read \/ cuse_write \/ cuse_poll \/ stop
    <2>1. UNCHANGED broker \/ Signal
      BY <1>11, Zenon DEF cuse_read, cuse_write, cuse_poll, stop, Queue
    <2> QED
      BY <1>1, <1>2, <2>1
  <1> QED
    BY <1>4, <1>5, <1>6, <1>7, <1>8, <1>9, <1>10, <1>11 DEF Next

\* A step that makes no event happen, and keeps the handles, forgets no poll.
LEMMA NoNewEvent ==
  ASSUME TypeOK, PollersWoken, polled' = polled, broker'.handle = broker.handle,
         state'.poll_handle = state.poll_handle,
         state'.records # <<>> => state.records # <<>>,
         state'.writes \in Seq(Write), Len(state'.writes) >= Len(state.writes)
  PROVE  PollersWoken'
  <1>1. Len(state'.writes) \in Nat /\ Len(state.writes) \in Nat
    BY SequenceFacts
  <1>2. current_poll_events_locked(state') \subseteq current_poll_events_locked(state)
    BY <1>1, CuseAssumption DEF current_poll_events_locked
  <1> QED
    BY <1>2 DEF PollersWoken

\* A step that takes the poll handle to the broker, which has none, wakes all.
LEMMA HandleTaken ==
  ASSUME PollersWoken, ~broker.handle, polled' = polled, broker'.handle = state.poll_handle
  PROVE  PollersWoken'
  BY DEF PollersWoken

\* Every poll told that there is nothing yet is still known to somebody.
LEMMA PollersStep ==
  ASSUME TypeOK, BrokerHolds, PollersWoken, Next
  PROVE  PollersWoken'
  <1>0. /\ state \in State /\ broker \in Broker /\ state.writes \in Seq(Write)
        /\ state.records \in Seq(Records) /\ Len(state.writes) \in Nat
    BY SequenceFacts DEF TypeOK
  <1>1. ASSUME polled' = polled, broker'.handle = broker.handle, state' = state
        PROVE  PollersWoken'
    BY <1>0, <1>1, NoNewEvent
  <1>2. ASSUME NEW p, Go(p)
        PROVE  broker'.handle = broker.handle
    BY <1>0, <1>2 DEF Go, Broker
  <1>3. CASE service_one_read
    <2>1. /\ polled' = polled /\ broker' = broker /\ state'.poll_handle = state.poll_handle
          /\ state'.writes = state.writes /\ state'.records \in {state.records, Tail(state.records)}
          /\ state.records # <<>>
      BY <1>0, <1>3 DEF service_one_read, State
    <2> QED
      BY <1>0, <2>1, NoNewEvent
  <1>4. CASE decide
    <2>1. ~broker.handle /\ polled' = polled
      BY <1>4 DEF decide, pass, BrokerHolds
    <2>2. CASE UNCHANGED state /\ (Go("exited") \/ Go("asleep"))
      BY <1>1, <1>2, <2>1, <2>2
    <2>3. CASE UNCHANGED state /\ \E b \in BOOLEAN :
                 broker' = [broker EXCEPT !.at = "notify", !.then = "wait", !.immediate = b]
      <3>1. broker'.handle = broker.handle
        BY <1>0, <2>3 DEF Broker
      <3> QED
        BY <1>1, <2>1, <2>3, <3>1
    <2>4. CASE broker' = [broker EXCEPT !.at = "notify", !.then = "write",
                                       !.write = Head(state.writes), !.handle = state.poll_handle]
      <3>1. broker'.handle = state.poll_handle
        BY <1>0, <2>4 DEF Broker
      <3> QED
        BY <2>1, <3>1, HandleTaken
    <2>5. take_poll_handle_locked(pop_write_locked(state)).poll_handle = FALSE
      BY <1>0 DEF take_poll_handle_locked, pop_write_locked, State
    <2>6. state.poll_handle = (state.poll_handle
                                 /\ ~take_poll_handle_locked(pop_write_locked(state)).poll_handle)
      BY <1>0, <2>5, Zenon DEF State
    <2> QED
      BY <1>4, <2>2, <2>3, <2>4, <2>6, Zenon DEF decide, pass
  <1>5. CASE notify_poll_handle
    <2>1. state' = state /\ ~broker'.handle /\ (broker.handle \/ polled' = polled)
          /\ (broker.handle => polled' = {})
      BY <1>0, <1>5 DEF notify_poll_handle, Broker
    <2> QED
      BY <2>1 DEF PollersWoken
  <1>6. CASE process_write
    <2>1. state' = state /\ polled' = polled /\ broker'.handle = broker.handle
      BY <1>0, <1>6 DEF process_write, Broker
    <2> QED
      BY <1>1, <2>1
  <1>7. CASE receive_one_ready_record
    <2>1. ~broker.handle /\ polled' = polled
      BY <1>7 DEF receive_one_ready_record, BrokerHolds
    <2>2. CASE Go("service") /\ UNCHANGED state
      BY <1>1, <1>2, <2>1, <2>2
    <2>3. CASE broker' = [broker EXCEPT !.at = "notify", !.then = "more",
                                       !.handle = state.poll_handle]
      <3>1. broker'.handle = state.poll_handle
        BY <1>0, <2>3 DEF Broker
      <3> QED
        BY <2>1, <3>1, HandleTaken
    <2> QED
      BY <1>7, <2>2, <2>3 DEF receive_one_ready_record
  <1>8. CASE no_read_to_service \/ spurious_wakeup \/ wait_backend \/ receive_more
    <2>1. polled' = polled /\ state' = state /\ \E p \in Place : Go(p)
      BY <1>8 DEF no_read_to_service, spurious_wakeup, wait_backend, receive_more, Place
    <2> QED
      BY <1>1, <1>2, <2>1
  <1>9. CASE refuse_nonblocking_read
    <2>1. /\ polled' = polled /\ Go("service") /\ state'.poll_handle = state.poll_handle
          /\ state'.writes = state.writes /\ state'.records = state.records
      BY <1>0, <1>9 DEF refuse_nonblocking_read, State
    <2> QED
      BY <1>0, <1>2, <2>1, NoNewEvent
  <1>10. CASE cuse_open \/ stop \/ Arrive \/ Outage
    <2>1. /\ polled' = polled /\ (broker' = broker \/ Signal)
          /\ state'.poll_handle = state.poll_handle
          /\ state'.writes = state.writes /\ state'.records = state.records
      BY <1>0, <1>10, Zenon DEF cuse_open, stop, Arrive, Outage, State
    <2> QED
      BY <1>0, <2>1, SignalFacts, NoNewEvent
  <1>11. CASE cuse_read
    <2>1. /\ polled' = polled /\ (broker' = broker \/ Signal)
          /\ \/ state' = state
             \/ \E r : state' = [state EXCEPT !.reads = Append(@, r)]
      BY <1>11, Zenon DEF cuse_read, Queue, enqueue_read_locked
    <2>2. /\ state'.poll_handle = state.poll_handle
          /\ state'.writes = state.writes /\ state'.records = state.records
      BY <1>0, <2>1 DEF State
    <2> QED
      BY <1>0, <2>1, <2>2, SignalFacts, NoNewEvent
  <1>12. CASE cuse_write
    <2>1. /\ polled' = polled /\ (broker' = broker \/ Signal)
          /\ \/ state' = state
             \/ \E record \in UserRecords :
                  state' = [state EXCEPT !.writes = Append(@, [req |-> req, record |-> record])]
      BY <1>12 DEF cuse_write, Queue, enqueue_write_locked
    <2>2. CASE state' = state
      BY <1>1, <1>0, <2>1, <2>2, SignalFacts
    <2>3. CASE \E record \in UserRecords :
                  state' = [state EXCEPT !.writes = Append(@, [req |-> req, record |-> record])]
      <3>1. PICK record \in UserRecords :
                  state' = [state EXCEPT !.writes = Append(@, [req |-> req, record |-> record])]
        BY <2>3
      <3>2. [req |-> req, record |-> record] \in Write
        BY SequenceFacts, CuseAssumption DEF Write, req
      <3>3. /\ state'.poll_handle = state.poll_handle /\ state'.records = state.records
            /\ state'.writes = Append(state.writes, [req |-> req, record |-> record])
        BY <1>0, <3>1 DEF State
      <3>4. state'.writes \in Seq(Write) /\ Len(state'.writes) >= Len(state.writes)
        BY <1>0, <3>2, <3>3, AppendFacts
      <3> QED
        BY <1>0, <2>1, <3>3, <3>4, SignalFacts, NoNewEvent
    <2> QED
      BY <2>1, <2>2, <2>3, Zenon
  <1>13. CASE cuse_poll
    <2>1. /\ polled' = polled \cup {current_poll_events_locked(state)} /\ Signal
          /\ state'.poll_handle /\ state'.writes = state.writes /\ state'.records = state.records
      BY <1>0, <1>13 DEF cuse_poll, State
    <2>2. current_poll_events_locked(state') = current_poll_events_locked(state)
      BY <2>1 DEF current_poll_events_locked
    <2>3. broker'.handle = broker.handle
      BY <1>0, <2>1, SignalFacts
    <2> QED
      BY <2>1, <2>2, <2>3 DEF PollersWoken
  <1>14. CASE cuse_release \/ cleanup_state
    BY <1>14 DEF cuse_release, cleanup_state, PollersWoken
  <1> QED
    BY <1>3, <1>4, <1>5, <1>6, <1>7, <1>8, <1>9, <1>10, <1>11, <1>12, <1>13, <1>14 DEF Next

-----------------------------------------------------------------------------

LEMMA InitInv == Init => IInv
  <1> SUFFICES ASSUME Init PROVE IInv
    OBVIOUS
  <1>0. /\ <<>> \in Seq(Read) /\ <<>> \in Seq(Write) /\ <<>> \in Seq(Records)
        /\ <<>> \in Seq(Sent) /\ <<>> \in Seq(Operation) /\ <<>> \in Seq(Seq(Answer))
        /\ Len(<<>>) = 0 /\ DOMAIN <<>> = {}
    OBVIOUS
  <1>1. TypeOK
    BY <1>0, CuseAssumption DEF Init, TypeOK, State, Broker, Port, Place
  <1>2. /\ state.reads = <<>> /\ state.writes = <<>> /\ broker.write = <<>>
        /\ broker.at = "service" /\ ~broker.handle /\ port.sent = <<>>
        /\ asked = <<>> /\ polled = {}
    BY DEF Init
  <1> QED
    BY <1>0, <1>1, <1>2, EmptyOrdered
      DEF IInv, BrokerHolds, QueuesOrdered, SentBefore, AnsweredOnce, WritesInOrder, PollersWoken

LEMMA InvStep == IInv /\ [Next]_vars => IInv'
  <1> SUFFICES ASSUME IInv, [Next]_vars PROVE IInv'
    OBVIOUS
  <1>1. CASE Next
    <2>1. TypeOK' /\ RequestStep
      BY <1>1, StepEffect DEF IInv
    <2>2. BrokerHolds' /\ (broker.at = "joined" => broker'.at = "joined")
      BY <1>1, HoldsStep DEF IInv
    <2>3. QueuesOrdered' /\ SentBefore'
      BY <2>1, QueuesStep, SentBeforeStep DEF IInv
    <2>4. AnsweredOnce'
      BY <2>1, <2>2, AnsweredStep DEF IInv
    <2>5. WritesInOrder'
      BY <2>1, WritesStep DEF IInv
    <2>6. PollersWoken'
      BY <1>1, PollersStep DEF IInv
    <2> QED
      BY <2>1, <2>2, <2>3, <2>4, <2>5, <2>6 DEF IInv
  <1>2. CASE UNCHANGED vars
    BY <1>2, Zenon DEF vars, IInv, TypeOK, BrokerHolds, QueuesOrdered, Legal, SentBefore, AnsweredOnce,
                InQueue, WritesInOrder, PollersWoken
  <1> QED
    BY <1>1, <1>2

\* The queues stay within their types and in the order of the calls, and the
\* broker holds a write only between the pass that takes it and its reply.
THEOREM QueuesKeepTheirOrder == Spec => []IInv
  BY InitInv, InvStep, PTL DEF Spec

\* Every read and write of the device has one answer, or waits in one place,
\* whatever the broker, the refusals, a release and full queues do.
THEOREM EveryRequestAnsweredOnce == Spec => []AnsweredOnce
  <1>1. IInv => AnsweredOnce
    BY DEF IInv
  <1> QED
    BY <1>1, QueuesKeepTheirOrder, PTL

\* What spwcuse sends is what was written, legal, once and in the order of the
\* calls, and a write that returns OK was sent.
THEOREM WritesSentInOrder == Spec => []WritesInOrder
  <1>1. IInv => WritesInOrder
    BY DEF IInv
  <1> QED
    BY <1>1, QueuesKeepTheirOrder, PTL

\* No poll sleeps through an event: the pass that takes a write and the one that
\* queues a record take the handle in the same critical section that makes the event happen.
THEOREM NoPollForgotten == Spec => []PollersWoken
  <1>1. IInv => PollersWoken
    BY DEF IInv
  <1> QED
    BY <1>1, QueuesKeepTheirOrder, PTL
=============================================================================
