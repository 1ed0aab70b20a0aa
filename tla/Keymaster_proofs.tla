-------------------------- MODULE Keymaster_proofs --------------------------
(***************************************************************************)
(* Proofs about the Keymaster client for any frame size, any part size,    *)
(* any buffer of the caller and CA responses of any size: a call reads its *)
(* whole answer and nothing else (NothingLeft, ReadsComplete), the CA      *)
(* response that is parsed is the caller's (UploadExact, UploadWhole), and *)
(* the service reads the requests that were serialized (ServiceReads).     *)
(*                                                                         *)
(* The invariant follows the words of the running answer: those read, those *)
(* in queued frames and those the service has yet to send make up the      *)
(* answer, and only a frame that ends the answer is smaller than MaxFrame. *)
(***************************************************************************)
EXTENDS KmSerialize, SequenceTheorems, TLAPS

\* The words the running read has yet to receive.
Outstanding ==
    IF pc = "first" THEN (IF answer.err THEN 1 ELSE 2 + answer.data) ELSE max - len

\* The frames fs are the next ones of an answer of which n words are outstanding and l are
\* not yet sent: rem[i] is what is outstanding after frame i.
FramesOf(fs, n, l) ==
    \E rem \in [0 .. Len(fs) -> Nat] :
        /\ rem[0] = n /\ rem[Len(fs)] = l
        /\ \A i \in 1 .. Len(fs) :
              /\ rem[i - 1] > 0
              /\ fs[i].n = Least(rem[i - 1], MaxFrame)
              /\ fs[i].stop = (fs[i].n = rem[i - 1])
              /\ rem[i] = rem[i - 1] - fs[i].n

\* While a call reads, the connection holds the rest of its answer; between
\* calls, nothing, unless a receive failed.
FrameInv ==
    /\ pc # "user" => FramesOf(frames, Outstanding, answer.left)
    /\ pc = "user" /\ ~broken => frames = <<>> /\ answer.left = 0
    /\ pc # "user" => \A i \in 1 .. Len(frames) :
          frames[i].err = answer.err /\ frames[i].data = answer.data

\* Where the read is in the answer.
ReadInv ==
    /\ broken => pc = "user"
    /\ call # "get" \/ answer.err => answer.data = 0
    /\ pc = "first" => call = "get" /\ declared = Cap /\ got = 0 /\ len = 0 /\ max = 0
    /\ pc = "raw" => len < max
    /\ pc = "raw" /\ call # "get" => max = 1 /\ len = 0 /\ got = 0 /\ declared = 0
    /\ pc = "raw" /\ call = "get" =>
          ~err /\ ~answer.err /\ declared = answer.data /\ max + got = declared

\* What the last call returned.
ResultInv ==
    /\ pc # "user" => result = "none"
    /\ result \notin {"too_big", "short"}
    /\ result = "ok" => ~answer.err
    /\ result = "ok" /\ call = "get" => got + len = answer.data /\ declared = answer.data

\* The service has the parts that were sent.
UploadInv ==
    /\ call \in {"begin", "update"} /\ ~answer.err => announced = size /\ stored = sent
    /\ UploadExact

KmInv == TypeOK /\ FrameInv /\ ReadInv /\ ResultInv /\ UploadInv

-----------------------------------------------------------------------------

\* The smaller of two numbers, as the code's comparisons compute it.
LEMMA LeastIs ==
  ASSUME NEW a \in Int, NEW b \in Int
  PROVE  Least(a, b) = IF a <= b THEN a ELSE b
<1> DEFINE m == IF a <= b THEN a ELSE b
<1>1. m \in {a, b} /\ \A y \in {a, b} : m <= y
  OBVIOUS
<1>2. \A x \in {a, b} : (\A y \in {a, b} : x <= y) => x = m
  OBVIOUS
<1> QED
  BY <1>1, <1>2 DEF Least, Min

\* Before its first frame, a whole answer is outstanding and unsent.
LEMMA FramesNew ==
  ASSUME NEW n \in Nat
  PROVE  FramesOf(<<>>, n, n)
<1> DEFINE rem == [i \in 0 .. 0 |-> n]
<1>1. rem \in [0 .. Len(<<>>) -> Nat] /\ rem[0] = n /\ Len(<<>>) = 0
  OBVIOUS
<1> HIDE DEF rem
<1> QED
  BY <1>1 DEF FramesOf

\* The service queues the next frame of the answer.
LEMMA FramesSend ==
  ASSUME NEW fs \in Seq(Frames), NEW n \in Nat, NEW l \in Nat, FramesOf(fs, n, l), l > 0,
         NEW f \in Frames, f.n = Least(l, MaxFrame), f.stop = (f.n = l)
  PROVE  FramesOf(Append(fs, f), n, l - f.n)
<1> USE KeymasterAssumption
<1>1. PICK rem \in [0 .. Len(fs) -> Nat] :
        /\ rem[0] = n /\ rem[Len(fs)] = l
        /\ \A i \in 1 .. Len(fs) :
              /\ rem[i - 1] > 0
              /\ fs[i].n = Least(rem[i - 1], MaxFrame)
              /\ fs[i].stop = (fs[i].n = rem[i - 1])
              /\ rem[i] = rem[i - 1] - fs[i].n
  BY DEF FramesOf
<1>2. f.n \in Nat /\ f.n <= l
  BY LeastIs
<1> DEFINE new == [i \in 0 .. Len(fs) + 1 |-> IF i <= Len(fs) THEN rem[i] ELSE l - f.n]
           gs == Append(fs, f)
<1>3. /\ Len(fs) \in Nat /\ Len(gs) = Len(fs) + 1
      /\ gs[Len(fs) + 1] = f
      /\ \A i \in 1 .. Len(fs) : gs[i] = fs[i]
  BY AppendProperties
<1>4. new \in [0 .. Len(gs) -> Nat]
  BY <1>1, <1>2, <1>3
<1>5. new[0] = n /\ new[Len(gs)] = l - f.n /\ new[Len(fs)] = l
  BY <1>1, <1>3
<1>6. \A i \in 0 .. Len(fs) : new[i] = rem[i]
  BY <1>3
<1> HIDE DEF new, gs
<1>7. ASSUME NEW i \in 1 .. Len(gs)
      PROVE  /\ new[i - 1] > 0
             /\ gs[i].n = Least(new[i - 1], MaxFrame)
             /\ gs[i].stop = (gs[i].n = new[i - 1])
             /\ new[i] = new[i - 1] - gs[i].n
  <2>1. CASE i \in 1 .. Len(fs)
    <3>1. i \in 0 .. Len(fs) /\ i - 1 \in 0 .. Len(fs)
      BY <1>3, <2>1
    <3>2. new[i] = rem[i] /\ new[i - 1] = rem[i - 1] /\ gs[i] = fs[i]
      BY ONLY <1>3, <1>6, <2>1, <3>1
    <3>3. /\ rem[i - 1] > 0
          /\ fs[i].n = Least(rem[i - 1], MaxFrame)
          /\ fs[i].stop = (fs[i].n = rem[i - 1])
          /\ rem[i] = rem[i - 1] - fs[i].n
      BY ONLY <1>1, <2>1
    <3> QED
      BY ONLY <3>2, <3>3
  <2>2. CASE i = Len(fs) + 1
    BY <1>3, <1>5, <2>2
  <2> QED
    BY <1>3, <2>1, <2>2
<1> QED
  BY <1>4, <1>5, <1>7 DEF FramesOf, gs

\* The library takes the oldest frame: it is as large as a frame may be, or it
\* is the last of the answer and says so.
LEMMA FramesRead ==
  ASSUME NEW fs \in Seq(Frames), NEW n \in Nat, NEW l \in Nat, FramesOf(fs, n, l), fs # <<>>
  PROVE  /\ n > 0
         /\ Head(fs).n = Least(n, MaxFrame)
         /\ Head(fs).stop = (Head(fs).n = n)
         /\ FramesOf(Tail(fs), n - Head(fs).n, l)
<1>1. PICK rem \in [0 .. Len(fs) -> Nat] :
        /\ rem[0] = n /\ rem[Len(fs)] = l
        /\ \A i \in 1 .. Len(fs) :
              /\ rem[i - 1] > 0
              /\ fs[i].n = Least(rem[i - 1], MaxFrame)
              /\ fs[i].stop = (fs[i].n = rem[i - 1])
              /\ rem[i] = rem[i - 1] - fs[i].n
  BY DEF FramesOf
<1> DEFINE gs == Tail(fs)
           new == [i \in 0 .. Len(fs) - 1 |-> rem[i + 1]]
<1>2. /\ Len(fs) \in Nat \ {0} /\ Len(gs) = Len(fs) - 1 /\ Head(fs) = fs[1]
      /\ \A i \in 1 .. Len(gs) : gs[i] = fs[i + 1]
  BY HeadTailProperties, EmptySeq
<1>3. 1 \in 1 .. Len(fs) /\ rem[1 - 1] = n
  BY <1>1, <1>2
<1>4. n > 0 /\ Head(fs).n = Least(n, MaxFrame) /\ Head(fs).stop = (Head(fs).n = n)
      /\ rem[1] = n - Head(fs).n
  BY <1>1, <1>2, <1>3
<1>5. /\ new \in [0 .. Len(gs) -> Nat]
      /\ new[0] = n - Head(fs).n /\ new[Len(gs)] = l
      /\ \A i \in 0 .. Len(gs) : new[i] = rem[i + 1]
  BY <1>1, <1>2, <1>4
<1> HIDE DEF new, gs
<1>6. ASSUME NEW i \in 1 .. Len(gs)
      PROVE  /\ new[i - 1] > 0
             /\ gs[i].n = Least(new[i - 1], MaxFrame)
             /\ gs[i].stop = (gs[i].n = new[i - 1])
             /\ new[i] = new[i - 1] - gs[i].n
  <2>1. i + 1 \in 1 .. Len(fs) /\ gs[i] = fs[i + 1] /\ new[i] = rem[i + 1] /\ new[i - 1] = rem[i]
    BY <1>2, <1>5
  <2> DEFINE j == i + 1
  <2>2. rem[j - 1] = rem[i]
    BY <1>2
  <2>3. /\ rem[j - 1] > 0
        /\ fs[j].n = Least(rem[j - 1], MaxFrame)
        /\ fs[j].stop = (fs[j].n = rem[j - 1])
        /\ rem[j] = rem[j - 1] - fs[j].n
    BY <1>1, <2>1
  <2> QED
    BY <2>1, <2>2, <2>3
<1> QED
  BY <1>4, <1>5, <1>6 DEF FramesOf, gs

\* When nothing is outstanding, no frame is queued and none will come.
LEMMA FramesOver ==
  ASSUME NEW fs \in Seq(Frames), NEW l \in Nat, FramesOf(fs, 0, l)
  PROVE  fs = <<>> /\ l = 0
<1>1. PICK rem \in [0 .. Len(fs) -> Nat] :
        /\ rem[0] = 0 /\ rem[Len(fs)] = l
        /\ \A i \in 1 .. Len(fs) : rem[i - 1] > 0
  BY DEF FramesOf
<1>2. CASE fs # <<>>
  <2>1. Len(fs) \in Nat /\ 1 \in 1 .. Len(fs) /\ rem[1 - 1] = rem[0]
    BY <1>2, EmptySeq
  <2> QED
    BY <1>1, <2>1
<1> QED
  BY <1>1, <1>2

-----------------------------------------------------------------------------

\* No call has been made at first.
LEMMA KmInit == Init => KmInv
<1> SUFFICES ASSUME Init PROVE KmInv
  OBVIOUS
<1> USE KeymasterAssumption DEF Init, NoAnswer
<1>1. TypeOK
  <2>1. frames \in Seq(Frames)
    BY EmptySeq
  <2>2. answer \in [left : 0 .. Cap + 2, first : BOOLEAN, err : BOOLEAN, data : 0 .. Cap]
    OBVIOUS
  <2>3. /\ got \in 0 .. Cap /\ len \in 0 .. Cap + 1 /\ max \in 0 .. Cap + 1 /\ declared \in 0 .. Cap
        /\ size \in Sizes \cup {0} /\ sent \in 0 .. size /\ announced \in Sizes \cup {0}
        /\ stored \in Nat /\ faults \in 0 .. MaxFaults
    OBVIOUS
  <2>4. /\ pc \in {"user", "first", "raw"} /\ call \in Calls /\ err \in BOOLEAN /\ broken \in BOOLEAN
        /\ result \in {"none", "error", "ok", "too_big", "short", "failed"}
    BY DEF Calls
  <2> HIDE DEF Init, NoAnswer
  <2> QED
    BY <2>1, <2>2, <2>3, <2>4 DEF TypeOK
<1>2. FrameInv
  BY DEF FrameInv
<1>3. ReadInv /\ ResultInv /\ UploadInv
  BY DEF ReadInv, ResultInv, UploadInv, UploadExact
<1> QED
  BY <1>1, <1>2, <1>3 DEF KmInv

\* The service's next frame is the next part of the answer the call waits for.
LEMMA SendFrameKeeps ==
  ASSUME KmInv, SendFrame
  PROVE  KmInv'
<1> USE KeymasterAssumption DEF KmInv
<1> DEFINE l == answer.left
           f == [n |-> Least(l, MaxFrame), stop |-> Least(l, MaxFrame) = l, first |-> answer.first,
                 err |-> answer.err, data |-> answer.data]
<1>1. /\ l \in 0 .. Cap + 2 /\ l > 0 /\ frames \in Seq(Frames)
      /\ answer \in [left : 0 .. Cap + 2, first : BOOLEAN, err : BOOLEAN, data : 0 .. Cap]
  BY DEF TypeOK, SendFrame
<1>2. Least(l, MaxFrame) \in 1 .. MaxFrame /\ Least(l, MaxFrame) <= l
  BY <1>1, LeastIs
<1>3. /\ f \in Frames /\ f.n = Least(l, MaxFrame) /\ f.stop = (f.n = l)
      /\ f.err = answer.err /\ f.data = answer.data
  BY <1>1, <1>2 DEF Frames
<1>4. frames' = Append(frames, f)
  BY DEF SendFrame
<1>5. /\ answer' = [answer EXCEPT !.left = @ - Least(l, MaxFrame), !.first = FALSE]
      /\ UNCHANGED <<pc, call, readVars, err, size, sent, announced, stored, broken, result, faults>>
  BY DEF SendFrame
<1> HIDE DEF f
<1>6. /\ answer'.left = l - f.n /\ answer'.err = answer.err /\ answer'.data = answer.data
      /\ answer' \in [left : 0 .. Cap + 2, first : BOOLEAN, err : BOOLEAN, data : 0 .. Cap]
  <2>1. l - f.n \in 0 .. Cap + 2
    BY <1>1, <1>2, <1>3
  <2>2. answer' = [left |-> l - f.n, first |-> FALSE, err |-> answer.err, data |-> answer.data]
    BY <1>1, <1>3, <1>5
  <2> QED
    BY <1>1, <2>1, <2>2
<1>7. /\ frames' \in Seq(Frames) /\ Len(frames) \in Nat /\ Len(frames') = Len(frames) + 1
      /\ frames'[Len(frames) + 1] = f
      /\ \A i \in 1 .. Len(frames) : frames'[i] = frames[i]
  BY <1>1, <1>3, <1>4, AppendProperties
<1>8. TypeOK'
  BY <1>5, <1>6, <1>7 DEF TypeOK, readVars
<1>9. FrameInv'
  <2>1. CASE pc # "user"
    <3>1. Outstanding \in Nat
      BY <2>1, <1>1 DEF Outstanding, ReadInv, TypeOK
    <3>2. FramesOf(frames, Outstanding, l)
      BY <2>1 DEF FrameInv
    <3>3. FramesOf(frames', Outstanding, answer'.left)
      BY SMTT(30), <1>1, <1>3, <1>4, <1>6, <3>1, <3>2, FramesSend
    <3>4. Outstanding' = Outstanding
      BY <1>5, <1>6 DEF Outstanding, readVars
    <3>5. \A i \in 1 .. Len(frames') : frames'[i].err = answer'.err /\ frames'[i].data = answer'.data
      BY SMTT(30), <2>1, <1>3, <1>6, <1>7 DEF FrameInv
    <3> QED
      BY <2>1, <1>5, <3>3, <3>4, <3>5 DEF FrameInv
  <2>2. CASE pc = "user"
    BY <2>2, <1>1, <1>5 DEF FrameInv
  <2> QED
    BY <2>1, <2>2
<1>10. ReadInv' /\ ResultInv' /\ UploadInv'
  BY <1>5, <1>6 DEF ReadInv, ResultInv, UploadInv, UploadExact, readVars
<1> QED
  BY <1>8, <1>9, <1>10

\* The frame that a read takes.
LEMMA ReceiveFacts ==
  ASSUME KmInv, pc # "user", Receive
  PROVE  /\ Head(frames).n = Least(Outstanding, MaxFrame)
         /\ Head(frames).stop = (Head(frames).n = Outstanding)
         /\ Head(frames).err = answer.err /\ Head(frames).data = answer.data
         /\ Outstanding \in Nat \ {0}
         /\ Head(frames) \in Frames
         /\ frames' \in Seq(Frames)
         /\ FramesOf(frames', Outstanding - Head(frames).n, answer.left)
         /\ \A i \in 1 .. Len(frames') : frames'[i].err = answer.err /\ frames'[i].data = answer.data
<1> USE KeymasterAssumption DEF KmInv
<1>1. /\ frames \in Seq(Frames) /\ frames # <<>> /\ frames' = Tail(frames)
      /\ answer.left \in Nat
  BY DEF TypeOK, Receive
<1>2. Outstanding \in Nat
  BY DEF Outstanding, ReadInv, TypeOK
<1>3. FramesOf(frames, Outstanding, answer.left)
  BY DEF FrameInv
<1>4. /\ Outstanding > 0
      /\ Head(frames).n = Least(Outstanding, MaxFrame)
      /\ Head(frames).stop = (Head(frames).n = Outstanding)
      /\ FramesOf(frames', Outstanding - Head(frames).n, answer.left)
  BY <1>1, <1>2, <1>3, FramesRead
<1>5. /\ Head(frames) \in Frames /\ Head(frames) = frames[1] /\ frames' \in Seq(Frames)
      /\ Len(frames) \in Nat \ {0} /\ Len(frames') = Len(frames) - 1
      /\ \A i \in 1 .. Len(frames') : frames'[i] = frames[i + 1]
  BY <1>1, HeadTailProperties, EmptySeq
<1>6. \A i \in 1 .. Len(frames) : frames[i].err = answer.err /\ frames[i].data = answer.data
  BY DEF FrameInv
<1>7. \A i \in 1 .. Len(frames') : i + 1 \in 1 .. Len(frames)
  BY <1>5
<1>8. \A i \in 1 .. Len(frames') : frames'[i].err = answer.err /\ frames'[i].data = answer.data
  BY ONLY <1>5, <1>6, <1>7, Zenon
<1>9. Outstanding \in Nat \ {0} /\ 1 \in 1 .. Len(frames)
  BY <1>2, <1>4, <1>5
<1> QED
  BY ONLY <1>4, <1>5, <1>6, <1>8, <1>9, Zenon

\* What a read changes keeps its type.
LEMMA KeepsTypes ==
  ASSUME TypeOK, UNCHANGED <<call, size, sent, answer, announced, stored, faults, broken>>,
         pc' \in {"user", "raw"}, result' \in {"none", "error", "ok"},
         got' \in 0 .. Cap, declared' \in 0 .. Cap, max' \in 0 .. Cap + 1, len' = 0,
         err' \in BOOLEAN, frames' \in Seq(Frames)
  PROVE  TypeOK'
<1>1. 0 \in 0 .. Cap + 1
  BY KeymasterAssumption
<1> QED
  BY <1>1 DEF TypeOK

\* km_read_data_response takes the head of the answer, and the data that came
\* with it is what the rest of the read does not wait for.
LEMMA ReadFirstKeeps ==
  ASSUME KmInv, ReadFirst
  PROVE  KmInv'
<1> USE KeymasterAssumption
<1> DEFINE f == Head(frames)
<1>1. pc = "first" /\ Receive
  BY DEF ReadFirst
<1>2. /\ f.n = Least(Outstanding, MaxFrame)
      /\ f.stop = (f.n = Outstanding)
      /\ f.err = answer.err /\ f.data = answer.data
      /\ Outstanding \in Nat \ {0}
      /\ f \in Frames
      /\ frames' \in Seq(Frames)
      /\ FramesOf(frames', Outstanding - f.n, answer.left)
      /\ \A i \in 1 .. Len(frames') : frames'[i].err = answer.err /\ frames'[i].data = answer.data
  BY <1>1, ReceiveFacts
<1>3. /\ Outstanding = IF answer.err THEN 1 ELSE 2 + answer.data
      /\ answer.data \in 0 .. Cap /\ answer.err \in BOOLEAN /\ answer.left \in Nat
      /\ call = "get" /\ declared = Cap /\ result = "none" /\ ~broken
      /\ (answer.err => answer.data = 0)
  BY <1>1 DEF KmInv, TypeOK, ReadInv, ResultInv, Outstanding
<1>4. f.n \in 1 .. MaxFrame /\ f.n <= Outstanding /\ (f.n # Outstanding => f.n = MaxFrame)
  BY <1>2, LeastIs
<1>5. f.n <= 2 + Least(MaxFrame, Cap)
  BY <1>3, <1>4, LeastIs
<1>6. /\ err' = f.err
      /\ declared' = IF f.n >= 2 THEN f.data ELSE declared
      /\ got' = IF f.n >= 2 THEN f.n - 2 ELSE 0
      /\ len' = 0 /\ max' = declared' - got'
      /\ (IF f.stop THEN Done("ok") ELSE pc' = "raw" /\ UNCHANGED result)
      /\ UNCHANGED broken
  BY <1>4, <1>5, LeastIs DEF ReadFirst
<1>7. UNCHANGED <<call, size, sent, answer, announced, stored, faults>>
  BY <1>1 DEF Receive
<1> HIDE DEF f
<1> DEFINE k == f.n
<1>k. /\ f.stop <=> k = Outstanding
      /\ f.n = k /\ k \in Nat /\ Outstanding \in Nat
  BY <1>2, <1>4
<1> HIDE DEF k
<1>8. CASE f.stop
  <2>1. pc' = "user" /\ result' = IF answer.err THEN "error" ELSE "ok"
    BY <1>2, <1>3, <1>6, <1>8 DEF Done
  <2>2. FramesOf(frames', 0, answer.left)
    <3>1. Outstanding - f.n = 0
      BY <1>k, <1>8
    <3> QED
      BY <1>2, <3>1
  <2>3. frames' = <<>> /\ answer.left = 0
    BY <1>2, <1>3, <2>2, FramesOver
  <2>4. /\ answer.err => f.n = 1
        /\ ~answer.err => f.n = 2 + answer.data
    BY <1>2, <1>3, <1>8
  <2>5. /\ got' \in 0 .. Cap /\ declared' \in 0 .. Cap /\ max' \in 0 .. Cap + 1 /\ len' = 0
        /\ ~answer.err => got' = answer.data /\ declared' = answer.data
    <3>1. CASE answer.err
      <4>1. f.n = 1 /\ declared = Cap /\ Cap \in Nat
        BY <1>3, <2>4, <3>1
      <4>2. got' = 0 /\ declared' = Cap /\ len' = 0 /\ max' = Cap - 0
        BY ONLY <1>6, <4>1
      <4> QED
        BY <3>1, <4>1, <4>2
    <3>2. CASE ~answer.err
      <4>1. f.n = 2 + answer.data /\ answer.data \in 0 .. Cap /\ Cap \in Nat /\ f.data = answer.data
        BY <1>2, <1>3, <2>4, <3>2
      <4>2. f.n >= 2 /\ f.n - 2 = answer.data
        BY ONLY <4>1
      <4>3. got' = answer.data /\ declared' = answer.data /\ len' = 0 /\ max' = answer.data - answer.data
        BY ONLY <1>6, <4>1, <4>2
      <4> QED
        BY ONLY <4>1, <4>3
    <3> QED
      BY <3>1, <3>2
  <2>6. TypeOK'
    BY <1>2, <1>3, <1>6, <1>7, <2>1, <2>5, KeepsTypes DEF KmInv
  <2>7. FrameInv'
    BY <1>7, <2>1, <2>3 DEF FrameInv
  <2>8. ReadInv' /\ ResultInv' /\ UploadInv'
    BY <1>3, <1>6, <1>7, <2>1, <2>5 DEF KmInv, ReadInv, ResultInv, UploadInv, UploadExact
  <2> QED
    BY <2>6, <2>7, <2>8 DEF KmInv
<1>9. CASE ~f.stop
  <2>1. pc' = "raw" /\ result' = "none"
    BY <1>3, <1>6, <1>9
  <2>2. f.n = MaxFrame /\ f.n < Outstanding /\ ~answer.err
    BY <1>3, <1>4, <1>k, <1>9
  <2>3. /\ got' = f.n - 2 /\ declared' = answer.data /\ max' = Outstanding - f.n /\ len' = 0
        /\ got' \in 0 .. Cap /\ max' \in 1 .. Cap /\ max' + got' = declared'
    <3>1. got' = k - 2 /\ declared' = answer.data /\ max' = declared' - got' /\ len' = 0
      BY <1>2, <1>6, <1>k, <2>2
    <3>2. Outstanding = 2 + answer.data /\ k < Outstanding /\ k >= 2 /\ f.n = k
      BY <1>3, <1>k, <2>2
    <3> QED
      BY <1>3, <1>k, <3>1, <3>2
  <2>4. Outstanding' = Outstanding - f.n
    BY <1>2, <1>4, <2>1, <2>3 DEF Outstanding
  <2>5. TypeOK'
    <3>1. declared' \in 0 .. Cap /\ max' \in 0 .. Cap + 1
      BY <1>3, <2>3
    <3> QED
      BY <1>2, <1>3, <1>6, <1>7, <2>1, <2>3, <3>1, KeepsTypes DEF KmInv
  <2>6. FrameInv'
    BY <1>2, <1>7, <2>1, <2>4 DEF FrameInv
  <2>7. ReadInv' /\ ResultInv' /\ UploadInv'
    BY <1>2, <1>3, <1>6, <1>7, <2>1, <2>2, <2>3 DEF KmInv, ReadInv, ResultInv, UploadInv, UploadExact
  <2> QED
    BY <2>5, <2>6, <2>7 DEF KmInv
<1> QED
  BY <1>8, <1>9

\* km_read_raw_response takes the next frame; it ends with the answer and not
\* before.
LEMMA ReadRawKeeps ==
  ASSUME KmInv, ReadRaw
  PROVE  KmInv'
<1> USE KeymasterAssumption
<1> DEFINE f == Head(frames)
<1>1. pc = "raw" /\ Receive
  BY DEF ReadRaw
<1>2. /\ f.n = Least(Outstanding, MaxFrame)
      /\ f.stop = (f.n = Outstanding)
      /\ f.err = answer.err /\ f.data = answer.data
      /\ Outstanding \in Nat \ {0}
      /\ f \in Frames
      /\ frames' \in Seq(Frames)
      /\ FramesOf(frames', Outstanding - f.n, answer.left)
      /\ \A i \in 1 .. Len(frames') : frames'[i].err = answer.err /\ frames'[i].data = answer.data
  BY <1>1, ReceiveFacts
<1>3. /\ Outstanding = max - len /\ max \in 1 .. Cap + 1 /\ len \in 0 .. Cap + 1 /\ len < max
      /\ answer.data \in 0 .. Cap /\ answer.err \in BOOLEAN /\ answer.left \in Nat
      /\ got \in 0 .. Cap /\ declared \in 0 .. Cap
      /\ result = "none" /\ ~broken
      /\ (call # "get" => max = 1 /\ len = 0 /\ got = 0 /\ declared = 0)
      /\ (call = "get" => ~err /\ ~answer.err /\ declared = answer.data /\ max + got = declared)
  BY <1>1 DEF KmInv, TypeOK, ReadInv, ResultInv, Outstanding
<1>4. f.n \in 1 .. MaxFrame /\ f.n <= Outstanding /\ (f.n # Outstanding => f.n = MaxFrame)
  BY <1>2, LeastIs
<1>5. f.n <= Least(MaxFrame, max - len)
  BY <1>3, <1>4, LeastIs
<1>6. /\ len' = len + f.n
      /\ err' = IF call = "get" THEN err ELSE f.err
      /\ IF RawEnds(f)
         THEN Done(IF call = "get" /\ got + len' # declared THEN "short" ELSE "ok")
         ELSE pc' = "raw" /\ UNCHANGED result
      /\ UNCHANGED <<got, max, declared, broken>>
  BY <1>3, <1>4, <1>5, LeastIs DEF ReadRaw
<1>7. UNCHANGED <<call, size, sent, answer, announced, stored, faults>>
  BY <1>1 DEF Receive
<1> HIDE DEF f
<1>8. RawEnds(f) <=> f.n = Outstanding
  BY SMTT(30), <1>2, <1>3, <1>4 DEF RawEnds
<1>9. err' = answer.err /\ len' \in 0 .. Cap + 1
  <2>1. err' = answer.err
    <3>1. err \in BOOLEAN
      BY DEF KmInv, TypeOK
    <3>2. CASE call = "get"
      BY <1>3, <1>6, <3>1, <3>2
    <3>3. CASE call # "get"
      BY <1>2, <1>6, <3>3
    <3> QED
      BY <3>2, <3>3
  <2>2. len' = len + f.n /\ f.n \in Nat /\ f.n <= max - len
    BY <1>3, <1>4, <1>6
  <2> QED
    BY <1>3, <2>1, <2>2
<1>10. CASE f.n = Outstanding
  <2>1. len' = max
    BY <1>3, <1>4, <1>6, <1>10
  <2>2. ~(call = "get" /\ got + len' # declared)
    BY <1>3, <2>1
  <2>3. pc' = "user" /\ result' = IF answer.err THEN "error" ELSE "ok"
    BY <1>6, <1>8, <1>9, <1>10, <2>2 DEF Done
  <2>4. FramesOf(frames', 0, answer.left)
    BY <1>2, <1>10
  <2>5. frames' = <<>> /\ answer.left = 0
    BY <1>2, <1>3, <2>4, FramesOver
  <2>6. TypeOK'
    BY <1>2, <1>3, <1>6, <1>7, <1>9, <2>3 DEF KmInv, TypeOK
  <2>7. FrameInv'
    BY <1>7, <2>3, <2>5 DEF FrameInv
  <2>8. ReadInv' /\ ResultInv' /\ UploadInv'
    BY <1>3, <1>6, <1>7, <2>1, <2>2, <2>3 DEF KmInv, ReadInv, ResultInv, UploadInv, UploadExact
  <2> QED
    BY <2>6, <2>7, <2>8 DEF KmInv
<1>11. CASE f.n # Outstanding
  <2>1. pc' = "raw" /\ result' = "none"
    BY <1>3, <1>6, <1>8, <1>11
  <2>2. len' < max /\ max - len' = Outstanding - f.n
    <3>1. len' = len + f.n /\ f.n \in Nat /\ f.n < max - len /\ Outstanding = max - len
      BY <1>3, <1>4, <1>6, <1>11
    <3> QED
      BY <1>3, <3>1
  <2>3. Outstanding' = Outstanding - f.n
    BY <1>6, <2>1, <2>2 DEF Outstanding
  <2>4. call = "get"
    BY <1>3, <1>4, <1>11
  <2>5. TypeOK'
    BY <1>2, <1>3, <1>6, <1>7, <1>9, <2>1 DEF KmInv, TypeOK
  <2>6. FrameInv'
    BY <1>2, <1>7, <2>1, <2>3 DEF FrameInv
  <2>7. ReadInv' /\ ResultInv' /\ UploadInv'
    BY <1>3, <1>6, <1>7, <1>9, <2>1, <2>2, <2>4
    DEF KmInv, ReadInv, ResultInv, UploadInv, UploadExact
  <2> QED
    BY <2>5, <2>6, <2>7 DEF KmInv
<1> QED
  BY <1>10, <1>11

\* A receive that fails ends the call, and the connection is not used again.
LEMMA RecvFailsKeeps ==
  ASSUME KmInv, RecvFails
  PROVE  KmInv'
<1> USE KeymasterAssumption DEF KmInv, RecvFails, readVars, serviceVars
<1>1. TypeOK'
  BY DEF TypeOK
<1>2. FrameInv'
  BY DEF FrameInv
<1>3. ReadInv' /\ ResultInv' /\ UploadInv'
  BY DEF ReadInv, ResultInv, UploadInv, UploadExact
<1> QED
  BY <1>1, <1>2, <1>3

\* A call that finds no memory has sent nothing.
LEMMA NoMemoryKeeps ==
  ASSUME KmInv, NoMemory
  PROVE  KmInv'
<1> USE KeymasterAssumption DEF KmInv, NoMemory, readVars, serviceVars
<1>1. TypeOK'
  BY DEF TypeOK
<1>2. FrameInv'
  BY DEF FrameInv
<1>3. ReadInv' /\ ResultInv' /\ UploadInv'
  BY DEF ReadInv, ResultInv, UploadInv, UploadExact
<1> QED
  BY <1>1, <1>2, <1>3

\* km_send_request on a connection that holds no frame starts the read of a whole
\* answer.  The last conjuncts are what the calls of an upload know.
LEMMA DoTipcKeeps ==
  ASSUME KmInv, pc = "user", ~broken, NEW c \in Calls, NEW chunk \in Nat, DoTipc(c, chunk),
         size' \in Sizes \cup {0}, sent' \in 0 .. size',
         c = "begin" => sent' = 0,
         c = "update" => /\ size' = size /\ sent' = sent + chunk
                         /\ announced = size /\ stored = sent,
         c = "finish" => size' = size /\ stored = size /\ announced = size
  PROVE  KmInv'
<1> USE KeymasterAssumption
<1>1. PICK e \in BOOLEAN, d \in 0 .. Cap :
        /\ (c # "get" \/ e) => d = 0
        /\ answer' = [left |-> IF c = "get" /\ ~e THEN 2 + d ELSE 1,
                      first |-> TRUE, err |-> e, data |-> d]
        /\ announced' = IF c = "begin" /\ ~e THEN size' ELSE announced
        /\ stored' = IF e THEN stored
                     ELSE IF c = "begin" THEN 0
                     ELSE IF c = "update" THEN stored + chunk ELSE stored
  BY DEF DoTipc, Serve
<1>2. /\ call' = c /\ result' = "none" /\ got' = 0 /\ len' = 0
      /\ IF c = "get" THEN pc' = "first" /\ declared' = Cap /\ max' = 0
                      ELSE pc' = "raw" /\ declared' = 0 /\ max' = 1
      /\ UNCHANGED <<err, frames, broken, faults>>
  BY DEF DoTipc
<1>3. frames = <<>>
  BY DEF KmInv, FrameInv
<1>4. /\ answer'.left \in 1 .. Cap + 2 /\ answer'.err = e /\ answer'.data = d
      /\ answer'.left = IF c = "get" /\ ~e THEN 2 + d ELSE 1
      /\ answer' \in [left : 0 .. Cap + 2, first : BOOLEAN, err : BOOLEAN, data : 0 .. Cap]
  BY <1>1
<1>5. Outstanding' = answer'.left
  BY <1>1, <1>2, <1>4 DEF Outstanding
<1>6. stored' \in Nat /\ announced' \in Sizes \cup {0}
  BY <1>1 DEF KmInv, TypeOK
<1>7. TypeOK'
  BY SMTT(30), <1>2, <1>4, <1>6 DEF KmInv, TypeOK
<1>8. FrameInv'
  <2>1. FramesOf(frames', answer'.left, answer'.left)
    BY <1>2, <1>3, <1>4, FramesNew
  <2>2. Len(frames') = 0
    BY <1>2, <1>3
  <2> QED
    BY <1>2, <1>5, <2>1, <2>2 DEF FrameInv
<1>9. ReadInv' /\ ResultInv'
  BY <1>1, <1>2, <1>4 DEF ReadInv, ResultInv
<1>10. UploadInv'
  BY <1>1, <1>2, <1>4 DEF UploadInv, UploadExact
<1> QED
  BY <1>7, <1>8, <1>9, <1>10 DEF KmInv

\* The calls keep the invariant; in an upload, the part that is sent is the one
\* the service waits for.
LEMMA CallKeeps ==
  ASSUME KmInv, Get \/ Set \/ UploadUpdate \/ UploadFinish \/ \E n \in Sizes : UploadBegin(n)
  PROVE  KmInv'
<1> USE KeymasterAssumption
<1>1. size \in Sizes \cup {0} /\ size \in Nat /\ sent \in 0 .. size
  BY DEF KmInv, TypeOK
<1>2. CASE Get
  BY <1>1, <1>2, DoTipcKeeps DEF Get, Calls
<1>3. CASE Set
  BY <1>1, <1>3, DoTipcKeeps DEF Set, Calls
<1>4. CASE UploadUpdate
  <2>1. announced = size /\ stored = sent
    BY <1>4 DEF UploadUpdate, Uploading, KmInv, UploadInv, ResultInv
  <2>2. Chunk \in Nat /\ sent + Chunk \in 0 .. size
    BY <1>1, <1>4, LeastIs DEF UploadUpdate, Chunk
  <2> QED
    BY <1>1, <1>4, <2>1, <2>2, DoTipcKeeps DEF UploadUpdate, Calls
<1>5. CASE UploadFinish
  <2>1. announced = size /\ stored = sent
    BY <1>5 DEF UploadFinish, Uploading, KmInv, UploadInv, ResultInv
  <2>2. sent = size
    BY <1>1, <1>5 DEF UploadFinish
  <2> QED
    BY <1>1, <1>5, <2>1, <2>2, DoTipcKeeps DEF UploadFinish, Calls
<1>6. CASE \E n \in Sizes : UploadBegin(n)
  BY <1>1, <1>6, DoTipcKeeps DEF UploadBegin, Calls
<1> QED
  BY <1>2, <1>3, <1>4, <1>5, <1>6

\* Every step keeps the invariant.
LEMMA KmStep == KmInv /\ [Next]_vars => KmInv'
<1> SUFFICES ASSUME KmInv, [Next]_vars PROVE KmInv'
  OBVIOUS
<1>1. CASE SendFrame
  BY <1>1, SendFrameKeeps
<1>2. CASE ReadFirst \/ ReadRaw
  BY <1>2, ReadFirstKeeps, ReadRawKeeps
<1>3. CASE RecvFails \/ NoMemory
  BY <1>3, RecvFailsKeeps, NoMemoryKeeps
<1>4. CASE Get \/ Set \/ UploadUpdate \/ UploadFinish \/ \E n \in Sizes : UploadBegin(n)
  BY <1>4, CallKeeps
<1>5. CASE UNCHANGED vars
  BY <1>5 DEF vars, readVars, serviceVars, KmInv, TypeOK, FrameInv, ReadInv, ResultInv, UploadInv,
              UploadExact, Outstanding
<1> QED
  BY <1>1, <1>2, <1>3, <1>4, <1>5 DEF Next

\* The client and the service keep the invariant, whatever receives fail.
THEOREM KmInvariance == Spec => []KmInv
  BY KmInit, KmStep, PTL DEF Spec

-----------------------------------------------------------------------------
(***************************************************************************)
(* Serialization: a buffer that holds the words appended so far, and what  *)
(* is read from it, for data of any length.                                *)
(***************************************************************************)

\* A buffer of n words of which the first are w and the rest still zero.
Holding(n, w) ==
    [buf |-> [i \in 1 .. n |-> IF i <= Len(w) THEN w[i] ELSE 0], at |-> Len(w)]

\* append_to_buf on a buffer with room adds the words after those appended before.
LEMMA AppendHolds ==
  ASSUME NEW n \in Nat, NEW w \in Seq(Nat), NEW x \in Seq(Nat), Len(w) + Len(x) <= n
  PROVE  AppendToBuf(Holding(n, w), x) = Holding(n, w \o x)
<1> DEFINE b == Holding(n, w)
           v == w \o x
<1>1. /\ v \in Seq(Nat) /\ Len(v) = Len(w) + Len(x) /\ Len(w) \in Nat /\ Len(x) \in Nat
      /\ DOMAIN x = 1 .. Len(x)
      /\ \A i \in 1 .. Len(w) + Len(x) : v[i] = IF i <= Len(w) THEN w[i] ELSE x[i - Len(w)]
  BY ConcatProperties, LenProperties
<1>2. /\ b.at = Len(w) /\ DOMAIN b.buf = 1 .. n
      /\ \A i \in 1 .. n : b.buf[i] = IF i <= Len(w) THEN w[i] ELSE 0
  BY DEF Holding
<1> HIDE DEF b, v
<1>3. ASSUME NEW i \in 1 .. n
      PROVE  (IF i - b.at \in DOMAIN x THEN x[i - b.at] ELSE b.buf[i])
               = IF i <= Len(v) THEN v[i] ELSE 0
  BY SMTT(30), <1>1, <1>2
<1>4. [i \in DOMAIN b.buf |-> IF i - b.at \in DOMAIN x THEN x[i - b.at] ELSE b.buf[i]]
        = [i \in 1 .. n |-> IF i <= Len(v) THEN v[i] ELSE 0]
  BY <1>2, <1>3
<1> QED
  BY <1>1, <1>2, <1>4 DEF AppendToBuf, Holding, b, v

\* The words of two sequences, each at its place.
LEMMA ConcatWords ==
  ASSUME NEW s \in Seq(Nat), NEW t \in Seq(Nat)
  PROVE  /\ s \o t \in Seq(Nat) /\ Len(s \o t) = Len(s) + Len(t)
         /\ \A i \in 1 .. Len(s) : (s \o t)[i] = s[i]
         /\ \A i \in 1 .. Len(t) : (s \o t)[Len(s) + i] = t[i]
<1> DEFINE w == s \o t
<1>1. /\ w \in Seq(Nat) /\ Len(w) = Len(s) + Len(t) /\ Len(s) \in Nat /\ Len(t) \in Nat
      /\ \A i \in 1 .. Len(s) + Len(t) : w[i] = IF i <= Len(s) THEN s[i] ELSE t[i - Len(s)]
  BY ConcatProperties
<1> HIDE DEF w
<1>2. \A i \in 1 .. Len(s) : w[i] = s[i]
  BY <1>1
<1>3. ASSUME NEW i \in 1 .. Len(t) PROVE w[Len(s) + i] = t[i]
  <2>1. Len(s) + i \in 1 .. Len(s) + Len(t) /\ ~(Len(s) + i <= Len(s)) /\ (Len(s) + i) - Len(s) = i
    BY <1>1
  <2> QED
    BY <1>1, <2>1
<1> QED
  BY <1>1, <1>2, <1>3 DEF w

\* The sequence v is w with the word x after it.
Longer(v, w, x) ==
    /\ v \in Seq(Nat) /\ Len(v) = Len(w) + 1
    /\ \A i \in 1 .. Len(w) : v[i] = w[i]
    /\ v[Len(w) + 1] = x

\* The sequence v is w with the length of x and x after it.
LongerSized(v, w, x) ==
    /\ v \in Seq(Nat) /\ Len(v) = Len(w) + 1 + Len(x)
    /\ \A i \in 1 .. Len(w) : v[i] = w[i]
    /\ v[Len(w) + 1] = Len(x)
    /\ \A i \in 1 .. Len(x) : v[Len(w) + 1 + i] = x[i]

\* append_uint32_to_buf adds a word.
LEMMA AppendUint32Holds ==
  ASSUME NEW n \in Nat, NEW w \in Seq(Nat), NEW x \in Nat, Len(w) + 1 <= n
  PROVE  \E v \in Seq(Nat) : AppendUint32(Holding(n, w), x) = Holding(n, v) /\ Longer(v, w, x)
<1>1. <<x>> \in Seq(Nat) /\ Len(<<x>>) = 1 /\ <<x>>[1] = x
  OBVIOUS
<1> DEFINE t == <<x>>
           v == w \o t
<1> HIDE DEF t
<1>2. Len(w) \in Nat /\ t \in Seq(Nat) /\ Len(t) = 1 /\ t[1] = x
  BY <1>1 DEF t
<1>3. AppendUint32(Holding(n, w), x) = Holding(n, v)
  BY <1>2, AppendHolds DEF AppendUint32, t
<1>4. Longer(v, w, x)
  <2>1. /\ v \in Seq(Nat) /\ Len(v) = Len(w) + Len(t)
        /\ \A i \in 1 .. Len(w) : v[i] = w[i]
        /\ \A i \in 1 .. Len(t) : v[Len(w) + i] = t[i]
    BY <1>2, ConcatWords
  <2> HIDE DEF v
  <2>2. 1 \in 1 .. Len(t)
    BY <1>2
  <2>3. v[Len(w) + 1] = t[1]
    BY <2>1, <2>2
  <2> QED
    BY <1>2, <2>1, <2>3 DEF Longer
<1> QED
  BY <1>3, <1>4 DEF Longer

\* append_sized_buf_to_buf adds a length and the data after it.
LEMMA AppendSizedHolds ==
  ASSUME NEW n \in Nat, NEW w \in Seq(Nat), NEW x \in Seq(Nat), Len(w) + 1 + Len(x) <= n
  PROVE  \E v \in Seq(Nat) : AppendSized(Holding(n, w), x) = Holding(n, v) /\ LongerSized(v, w, x)
<1>1. Len(x) \in Nat /\ Len(w) \in Nat /\ Len(w) + 1 <= n
  OBVIOUS
<1>2. PICK u \in Seq(Nat) : AppendUint32(Holding(n, w), Len(x)) = Holding(n, u) /\ Longer(u, w, Len(x))
  BY <1>1, AppendUint32Holds
<1> DEFINE v == u \o x
<1>3. Len(u) = Len(w) + 1
  BY <1>2 DEF Longer
<1>4. AppendSized(Holding(n, w), x) = Holding(n, v)
  BY <1>1, <1>2, <1>3, AppendHolds DEF AppendSized
<1>5. /\ v \in Seq(Nat) /\ Len(v) = Len(u) + Len(x)
      /\ \A i \in 1 .. Len(u) : v[i] = u[i]
      /\ \A i \in 1 .. Len(x) : v[Len(u) + i] = x[i]
  BY ConcatWords
<1> HIDE DEF v
<1>6. LongerSized(v, w, x)
  <2>1. ASSUME NEW i \in 1 .. Len(w) + 1 PROVE v[i] = u[i]
    BY <1>3, <1>5
  <2>2. v[Len(w) + 1] = Len(x)
    BY <1>1, <1>2, <2>1 DEF Longer
  <2>3. \A i \in 1 .. Len(w) : v[i] = w[i]
    BY SMTT(30), <1>1, <1>2, <2>1 DEF Longer
  <2>4. \A i \in 1 .. Len(x) : v[Len(w) + 1 + i] = x[i]
    BY <1>3, <1>5
  <2> QED
    BY <1>3, <1>5, <2>2, <2>3, <2>4 DEF LongerSized
<1> QED
  BY <1>4, <1>6 DEF LongerSized

\* trusty_calloc's buffer is empty, and a full buffer is the words appended.
LEMMA NewAndFull ==
  /\ \A n \in Nat : NewBuf(n) = Holding(n, <<>>)
  /\ \A w \in Seq(Nat) : Holding(Len(w), w).buf = w
<1>1. ASSUME NEW n \in Nat PROVE NewBuf(n) = Holding(n, <<>>)
  <2>1. Len(<<>>) = 0
    OBVIOUS
  <2>2. [i \in 1 .. n |-> 0] = [i \in 1 .. n |-> IF i <= Len(<<>>) THEN <<>>[i] ELSE 0]
    BY <2>1
  <2> QED
    BY <2>1, <2>2 DEF NewBuf, Holding
<1>2. ASSUME NEW w \in Seq(Nat) PROVE Holding(Len(w), w).buf = w
  <2>1. Len(w) \in Nat /\ w \in [1 .. Len(w) -> Nat]
    BY LenProperties
  <2>2. w = [i \in 1 .. Len(w) |-> w[i]]
    BY <2>1
  <2> QED
    BY <2>1, <2>2 DEF Holding
<1> QED
  BY <1>1, <1>2

\* The service finds a sized buffer where its length was written, whatever is
\* before and after it.
LEMMA SizedReads ==
  ASSUME NEW w \in Seq(Nat), NEW x \in Seq(Nat), NEW k \in Nat \ {0},
         k + Len(x) <= Len(w), w[k] = Len(x), \A i \in 1 .. Len(x) : w[k + i] = x[i]
  PROVE  Sized(w, k) = x
<1> DEFINE e == k + Len(x)
           s == SubSeq(w, k + 1, e)
<1>1. Len(x) \in Nat /\ Len(w) \in Nat /\ e \in Nat /\ e <= Len(w) /\ k <= Len(w)
  OBVIOUS
<1>2. Least(k + w[k], Len(w)) = e
  BY <1>1, LeastIs
<1>3. Sized(w, k) = s
  <2>1. ~(k > Len(w))
    BY <1>1
  <2> QED
    BY <1>2, <2>1, Zenon DEF Sized
<1>4. \A i \in (k + 1) .. e : w[i] \in Nat
  <2>1. \A i \in (k + 1) .. e : i \in 1 .. Len(w)
    BY <1>1
  <2> QED
    BY <2>1, ElementOfSeq
<1>5. /\ s \in Seq(Nat)
      /\ Len(s) = IF k + 1 <= e THEN e - (k + 1) + 1 ELSE 0
      /\ \A i \in 1 .. e - (k + 1) + 1 : s[i] = w[(k + 1) + i - 1]
  <2> HIDE DEF e
  <2>1. k + 1 \in Int /\ e \in Int
    BY <1>1
  <2> QED
    BY <1>4, <2>1, SubSeqProperties
<1> HIDE DEF s
<1>6. Len(s) = Len(x)
  BY <1>1, <1>5
<1>7. ASSUME NEW i \in 1 .. Len(x) PROVE s[i] = x[i]
  <2>1. i \in 1 .. e - (k + 1) + 1 /\ (k + 1) + i - 1 = k + i
    BY <1>1
  <2> QED
    BY <1>5, <2>1
<1> QED
  BY <1>3, <1>5, <1>6, <1>7, SeqEqual

\* The words of a raw buffer's request.
LEMMA RawReads ==
  ASSUME NEW d \in Seq(Nat)
  PROVE  ReadRequest("raw", Serialize(Raw(d)).buf) = Raw(d)
<1> DEFINE n == 1 + Len(d)
<1>1. Len(d) \in Nat /\ n \in Nat /\ n = 1 + Len(d)
  OBVIOUS
<1> HIDE DEF n
<1>2. PICK e \in Seq(Nat) : Len(e) = 0 /\ NewBuf(n) = Holding(n, e)
  BY <1>1, EmptySeq, NewAndFull
<1>3. PICK w \in Seq(Nat) : AppendSized(Holding(n, e), d) = Holding(n, w) /\ LongerSized(w, e, d)
  <2>1. Len(e) + 1 + Len(d) <= n
    BY <1>1, <1>2
  <2> QED
    BY <1>1, <2>1, AppendSizedHolds
<1>4. Len(w) = n /\ w[1] = Len(d) /\ \A i \in 1 .. Len(d) : w[1 + i] = d[i]
  BY <1>1, <1>2, <1>3 DEF LongerSized
<1>5. Serialize(Raw(d)).buf = w
  <2>1. Serialize(Raw(d)) = AppendSized(NewBuf(n), d)
    BY DEF Serialize, Raw, RawBufferSerialize, n
  <2> QED
    BY <1>2, <1>3, <1>4, <2>1, NewAndFull
<1>6. Sized(w, 1) = d
  <2> DEFINE k == 1
  <2>1. /\ k \in Nat \ {0} /\ k + Len(d) <= Len(w) /\ w[k] = Len(d)
        /\ \A i \in 1 .. Len(d) : w[k + i] = d[i]
    BY <1>1, <1>4
  <2> HIDE DEF k
  <2>2. Sized(w, k) = d
    BY <2>1, SizedReads
  <2> QED
    BY <2>2 DEF k
<1> QED
  BY <1>5, <1>6 DEF ReadRequest

\* The words of a request with attestation data.
LEMMA AttestReads ==
  ASSUME NEW p \in [kind : {"attest"}, algorithm : Nat, data : Seq(Nat)]
  PROVE  ReadRequest("attest", Serialize(p).buf) = p
<1> DEFINE d == p.data
           n == 2 + Len(d)
<1>1. d \in Seq(Nat) /\ p.algorithm \in Nat /\ p = [kind |-> "attest", algorithm |-> p.algorithm, data |-> d]
  OBVIOUS
<1> HIDE DEF d
<1>2. Len(d) \in Nat /\ n \in Nat /\ n = 2 + Len(d)
  BY <1>1
<1> HIDE DEF n
<1>3. PICK e \in Seq(Nat) : Len(e) = 0 /\ NewBuf(n) = Holding(n, e)
  BY <1>2, EmptySeq, NewAndFull
<1>4. PICK a \in Seq(Nat) : /\ AppendUint32(NewBuf(n), p.algorithm) = Holding(n, a)
                            /\ Longer(a, e, p.algorithm)
  <2>1. Len(e) + 1 <= n
    BY <1>2, <1>3
  <2>2. \E a \in Seq(Nat) : /\ AppendUint32(Holding(n, e), p.algorithm) = Holding(n, a)
                             /\ Longer(a, e, p.algorithm)
    BY <1>1, <1>2, <2>1, AppendUint32Holds
  <2> QED
    BY <1>3, <2>2
<1>5. Len(a) = 1 /\ a[1] = p.algorithm
  BY <1>3, <1>4 DEF Longer
<1>6. PICK w \in Seq(Nat) : AppendSized(Holding(n, a), d) = Holding(n, w) /\ LongerSized(w, a, d)
  <2>1. Len(a) + 1 + Len(d) <= n
    BY <1>2, <1>5
  <2> QED
    BY <1>1, <1>2, <2>1, AppendSizedHolds
<1>7. /\ Len(w) = n /\ w[1] = p.algorithm /\ w[2] = Len(d)
      /\ \A i \in 1 .. Len(d) : w[2 + i] = d[i]
  BY <1>2, <1>5, <1>6 DEF LongerSized
<1>8. Serialize(p).buf = w
  <2>1. Serialize(p) = AppendSized(AppendUint32(NewBuf(n), p.algorithm), d)
    BY <1>1 DEF Serialize, AttestationDataSerialize, d, n
  <2> QED
    BY <1>4, <1>6, <1>7, <2>1, NewAndFull
<1>9. Sized(w, 2) = d
  <2> DEFINE k == 2
  <2>1. /\ k \in Nat \ {0} /\ k + Len(d) <= Len(w) /\ w[k] = Len(d)
        /\ \A i \in 1 .. Len(d) : w[k + i] = d[i]
    BY <1>2, <1>7
  <2> HIDE DEF k
  <2>2. Sized(w, k) = d
    BY <1>1, <2>1, SizedReads
  <2> QED
    BY <2>2 DEF k
<1> QED
  BY <1>1, <1>7, <1>8, <1>9 DEF ReadRequest

\* The words of a request with boot parameters.
LEMMA BootReads ==
  ASSUME NEW p \in [kind : {"boot"}, os_version : Nat, os_patchlevel : Nat, device_locked : Nat,
                    verified_boot_state : Nat, key_hash : Seq(Nat), hash : Seq(Nat)]
  PROVE  ReadRequest("boot", Serialize(p).buf) = p
<1> DEFINE x == p.key_hash
           y == p.hash
           v1 == p.os_version
           v2 == p.os_patchlevel
           v3 == p.device_locked
           v4 == p.verified_boot_state
           n == 6 + Len(x) + Len(y)
           b1 == AppendUint32(NewBuf(n), v1)
           b2 == AppendUint32(b1, v2)
           b3 == AppendUint32(b2, v3)
           b4 == AppendUint32(b3, v4)
           b5 == AppendSized(b4, x)
           b6 == AppendSized(b5, y)
<1>s. Serialize(p) = b6
  BY DEF Serialize, BootParamsSerialize, BootParamsSize
<1>1. /\ x \in Seq(Nat) /\ y \in Seq(Nat)
      /\ v1 \in Nat /\ v2 \in Nat /\ v3 \in Nat /\ v4 \in Nat
      /\ p = [kind |-> "boot", os_version |-> v1, os_patchlevel |-> v2, device_locked |-> v3,
              verified_boot_state |-> v4, key_hash |-> x, hash |-> y]
  OBVIOUS
<1> HIDE DEF x, y, v1, v2, v3, v4
<1>2. Len(x) \in Nat /\ Len(y) \in Nat /\ n \in Nat /\ n = 6 + Len(x) + Len(y)
  BY <1>1
<1> HIDE DEF n
<1>3. PICK w0 \in Seq(Nat) : Len(w0) = 0 /\ NewBuf(n) = Holding(n, w0)
  BY <1>2, EmptySeq, NewAndFull
<1>4. PICK w1 \in Seq(Nat) : b1 = Holding(n, w1) /\ Longer(w1, w0, v1) /\ Len(w1) = 1
  <2>1. Len(w0) = 0 /\ NewBuf(n) = Holding(n, w0)
    BY <1>3
  <2>2. Len(w0) + 1 <= n
    BY <1>2, <2>1
  <2>3. \E v \in Seq(Nat) : AppendUint32(Holding(n, w0), v1) = Holding(n, v) /\ Longer(v, w0, v1)
    BY <1>1, <1>2, <2>2, AppendUint32Holds
  <2>4. \A v : Longer(v, w0, v1) => Len(v) = 1
    BY <2>1 DEF Longer
  <2> QED
    BY <2>1, <2>3, <2>4
<1> HIDE DEF b1
<1>5. PICK w2 \in Seq(Nat) : b2 = Holding(n, w2) /\ Longer(w2, w1, v2) /\ Len(w2) = 2
  <2>1. Len(w1) = 1 /\ b1 = Holding(n, w1)
    BY <1>4
  <2>2. Len(w1) + 1 <= n
    BY <1>2, <2>1
  <2>3. \E v \in Seq(Nat) : AppendUint32(Holding(n, w1), v2) = Holding(n, v) /\ Longer(v, w1, v2)
    BY <1>1, <1>2, <2>2, AppendUint32Holds
  <2>4. \A v : Longer(v, w1, v2) => Len(v) = 2
    BY <2>1 DEF Longer
  <2> QED
    BY <2>1, <2>3, <2>4
<1> HIDE DEF b2
<1>6. PICK w3 \in Seq(Nat) : b3 = Holding(n, w3) /\ Longer(w3, w2, v3) /\ Len(w3) = 3
  <2>1. Len(w2) = 2 /\ b2 = Holding(n, w2)
    BY <1>5
  <2>2. Len(w2) + 1 <= n
    BY <1>2, <2>1
  <2>3. \E v \in Seq(Nat) : AppendUint32(Holding(n, w2), v3) = Holding(n, v) /\ Longer(v, w2, v3)
    BY <1>1, <1>2, <2>2, AppendUint32Holds
  <2>4. \A v : Longer(v, w2, v3) => Len(v) = 3
    BY <2>1 DEF Longer
  <2> QED
    BY <2>1, <2>3, <2>4
<1> HIDE DEF b3
<1>7. PICK w4 \in Seq(Nat) : b4 = Holding(n, w4) /\ Longer(w4, w3, v4) /\ Len(w4) = 4
  <2>1. Len(w3) = 3 /\ b3 = Holding(n, w3)
    BY <1>6
  <2>2. Len(w3) + 1 <= n
    BY <1>2, <2>1
  <2>3. \E v \in Seq(Nat) : AppendUint32(Holding(n, w3), v4) = Holding(n, v) /\ Longer(v, w3, v4)
    BY <1>1, <1>2, <2>2, AppendUint32Holds
  <2>4. \A v : Longer(v, w3, v4) => Len(v) = 4
    BY <2>1 DEF Longer
  <2> QED
    BY <2>1, <2>3, <2>4
<1> HIDE DEF b4
<1>8. PICK w5 \in Seq(Nat) : b5 = Holding(n, w5) /\ LongerSized(w5, w4, x) /\ Len(w5) = 5 + Len(x)
  <2>1. Len(w4) + 1 + Len(x) <= n
    BY <1>2, <1>7
  <2>2. \E v \in Seq(Nat) : AppendSized(Holding(n, w4), x) = Holding(n, v) /\ LongerSized(v, w4, x)
    BY <1>1, <1>2, <2>1, AppendSizedHolds
  <2>3. \A v : LongerSized(v, w4, x) => Len(v) = 5 + Len(x)
    BY <1>2, <1>7 DEF LongerSized
  <2> QED
    BY <1>7, <2>2, <2>3
<1> HIDE DEF b5
<1>9. PICK w \in Seq(Nat) : b6 = Holding(n, w) /\ LongerSized(w, w5, y) /\ Len(w) = n
  <2>1. Len(w5) + 1 + Len(y) <= n
    BY <1>2, <1>8
  <2>2. \E v \in Seq(Nat) : AppendSized(Holding(n, w5), y) = Holding(n, v) /\ LongerSized(v, w5, y)
    BY <1>1, <1>2, <2>1, AppendSizedHolds
  <2>3. \A v : LongerSized(v, w5, y) => Len(v) = n
    BY <1>2, <1>8 DEF LongerSized
  <2> QED
    BY <1>8, <2>2, <2>3
<1>10. Serialize(p).buf = w
  BY <1>s, <1>9, NewAndFull
<1> HIDE DEF b6
<1>11. w4[1] = v1 /\ w4[2] = v2 /\ w4[3] = v3 /\ w4[4] = v4
  <2>1. w1[1] = v1
    BY <1>3, <1>4 DEF Longer
  <2>2. w2[1] = v1 /\ w2[2] = v2
    <3>1. (\A i \in 1 .. Len(w1) : w2[i] = w1[i]) /\ w2[Len(w1) + 1] = v2
      BY <1>5 DEF Longer
    <3>2. 1 \in 1 .. Len(w1) /\ Len(w1) + 1 = 2
      BY <1>4
    <3> QED
      BY <2>1, <3>1, <3>2
  <2>3. w3[1] = v1 /\ w3[2] = v2 /\ w3[3] = v3
    <3>1. (\A i \in 1 .. Len(w2) : w3[i] = w2[i]) /\ w3[Len(w2) + 1] = v3
      BY <1>6 DEF Longer
    <3>2. 1 \in 1 .. Len(w2) /\ 2 \in 1 .. Len(w2) /\ Len(w2) + 1 = 3
      BY <1>5
    <3> QED
      BY <2>2, <3>1, <3>2
  <2>4. w4[1] = v1 /\ w4[2] = v2 /\ w4[3] = v3 /\ w4[4] = v4
    <3>1. (\A i \in 1 .. Len(w3) : w4[i] = w3[i]) /\ w4[Len(w3) + 1] = v4
      BY <1>7 DEF Longer
    <3>2. 1 \in 1 .. Len(w3) /\ 2 \in 1 .. Len(w3) /\ 3 \in 1 .. Len(w3) /\ Len(w3) + 1 = 4
      BY <1>6
    <3> QED
      BY <2>3, <3>1, <3>2
  <2> QED
    BY <2>4
<1>12. /\ \A i \in 1 .. 4 : w5[i] = w4[i]
       /\ w5[5] = Len(x) /\ \A i \in 1 .. Len(x) : w5[5 + i] = x[i]
  BY <1>2, <1>7, <1>8 DEF LongerSized
<1>13. /\ \A i \in 1 .. 5 + Len(x) : w[i] = w5[i]
       /\ w[6 + Len(x)] = Len(y) /\ \A i \in 1 .. Len(y) : w[6 + Len(x) + i] = y[i]
  <2>1. Len(w5) + 1 = 6 + Len(x)
    BY <1>2, <1>8
  <2>2. /\ \A i \in 1 .. Len(w5) : w[i] = w5[i]
        /\ w[Len(w5) + 1] = Len(y) /\ \A i \in 1 .. Len(y) : w[Len(w5) + 1 + i] = y[i]
    BY <1>9 DEF LongerSized
  <2> QED
    BY <1>8, <2>1, <2>2
<1>14. /\ w[1] = v1 /\ w[2] = v2 /\ w[3] = v3 /\ w[4] = v4 /\ w[5] = Len(x)
       /\ \A i \in 1 .. Len(x) : w[5 + i] = x[i]
  <2> DEFINE k == 5 + Len(x)
  <2>1. 1 \in 1 .. k /\ 2 \in 1 .. k /\ 3 \in 1 .. k /\ 4 \in 1 .. k /\ 5 \in 1 .. k
    <3>1. \A a \in Nat : 1 \in 1 .. 5 + a /\ 2 \in 1 .. 5 + a /\ 3 \in 1 .. 5 + a
                           /\ 4 \in 1 .. 5 + a /\ 5 \in 1 .. 5 + a
      OBVIOUS
    <3> QED
      BY ONLY <1>2, <3>1, Zenon
  <2>2. \A i \in 1 .. Len(x) : 5 + i \in 1 .. k
    BY <1>2
  <2>3. 1 \in 1 .. 4 /\ 2 \in 1 .. 4 /\ 3 \in 1 .. 4 /\ 4 \in 1 .. 4
    OBVIOUS
  <2>4. \A i \in 1 .. k : w[i] = w5[i]
    BY <1>13
  <2> HIDE DEF k
  <2>5. w[1] = w5[1] /\ w[2] = w5[2] /\ w[3] = w5[3] /\ w[4] = w5[4] /\ w[5] = w5[5]
    BY <2>1, <2>4
  <2>6. w5[1] = w4[1] /\ w5[2] = w4[2] /\ w5[3] = w4[3] /\ w5[4] = w4[4]
    BY <1>12, <2>3
  <2>7. \A i \in 1 .. Len(x) : w[5 + i] = x[i]
    BY <1>12, <2>2, <2>4
  <2> QED
    BY <1>11, <1>12, <2>5, <2>6, <2>7
<1>15. Sized(w, 5) = x
  <2> DEFINE k == 5
  <2>1. /\ k \in Nat \ {0} /\ k + Len(x) <= Len(w) /\ w[k] = Len(x)
        /\ \A i \in 1 .. Len(x) : w[k + i] = x[i]
    BY <1>2, <1>9, <1>14
  <2> HIDE DEF k
  <2>2. Sized(w, k) = x
    BY ZenonT(30), <1>1, <2>1, SizedReads
  <2> QED
    BY <2>2 DEF k
<1>16. Sized(w, 6 + w[5]) = y
  <2> DEFINE k == 6 + Len(x)
  <2>1. /\ k \in Nat \ {0} /\ k + Len(y) <= Len(w) /\ w[k] = Len(y)
        /\ \A i \in 1 .. Len(y) : w[k + i] = y[i]
    <3>1. k \in Nat \ {0} /\ k + Len(y) <= Len(w)
      <4>1. Len(w) = n
        BY <1>9
      <4>2. \A a, b \in Nat : 6 + a \in Nat \ {0} /\ (6 + a) + b <= 6 + a + b
        OBVIOUS
      <4> QED
        BY ONLY <1>2, <4>1, <4>2, Zenon
    <3> QED
      BY <1>13, <3>1
  <2>2. 6 + w[5] = k
    BY <1>14
  <2> HIDE DEF k
  <2>3. Sized(w, k) = y
    BY ZenonT(30), <1>1, <2>1, SizedReads
  <2> QED
    BY <2>2, <2>3
<1> QED
  BY <1>1, <1>10, <1>14, <1>15, <1>16 DEF ReadRequest

\* The service reads any request as the caller meant it.
LEMMA RequestReads ==
  ASSUME NEW p \in BootParams \cup AttestationData \cup {Raw(d) : d \in Seq(Nat)}, Request(p)
  PROVE  seen' = asked' /\ asked' = p
<1>1. CASE p \in BootParams
  <2>1. /\ p.kind = "boot"
        /\ p \in [kind : {"boot"}, os_version : Nat, os_patchlevel : Nat, device_locked : Nat,
                  verified_boot_state : Nat, key_hash : Seq(Nat), hash : Seq(Nat)]
    BY <1>1, RequestsAssumption
  <2> QED
    BY <2>1, BootReads DEF Request
<1>2. CASE p \in AttestationData
  <2>1. p.kind = "attest" /\ p \in [kind : {"attest"}, algorithm : Nat, data : Seq(Nat)]
    BY <1>2, RequestsAssumption
  <2> QED
    BY <2>1, AttestReads DEF Request
<1>3. CASE p \in {Raw(d) : d \in Seq(Nat)}
  <2>1. PICK d \in Seq(Nat) : p = Raw(d)
    BY <1>3
  <2>2. p.kind = "raw"
    BY <2>1 DEF Raw
  <2>3. ReadRequest("raw", Serialize(p).buf) = p
    BY <2>1, RawReads
  <2> QED
    BY <2>2, <2>3 DEF Request
<1> QED
  BY <1>1, <1>2, <1>3

\* What the service has of the CA response is the part that was sent.
DataInv ==
    /\ call \in {"begin", "update"} /\ ~answer.err => data = Part(0, sent)
    /\ call = "finish" => data = Part(0, size)

KInv == KmInv /\ ServiceReads /\ DataInv

\* A part after the parts before it is the longer part.
LEMMA PartsJoin ==
  ASSUME NEW m \in Nat, NEW n \in Nat
  PROVE  Part(0, m) \o Part(m, n) = Part(0, m + n) /\ Part(m, n) \in Seq(Nat)
<1> DEFINE a == Part(0, m)
           b == Part(m, n)
           c == Part(0, m + n)
           s == a \o b
<1>1. a \in Seq(Nat) /\ Len(a) = m /\ \A i \in 1 .. m : a[i] = i
  BY DEF Part
<1>2. b \in Seq(Nat) /\ Len(b) = n /\ \A i \in 1 .. n : b[i] = m + i
  BY DEF Part
<1>3. c \in Seq(Nat) /\ Len(c) = m + n /\ \A i \in 1 .. m + n : c[i] = i
  BY DEF Part
<1> HIDE DEF a, b, c
<1>4. /\ s \in Seq(Nat) /\ Len(s) = Len(a) + Len(b)
      /\ \A i \in 1 .. Len(a) + Len(b) : s[i] = IF i <= Len(a) THEN a[i] ELSE b[i - Len(a)]
  BY <1>1, <1>2, ConcatProperties
<1> HIDE DEF s
<1>5. ASSUME NEW i \in 1 .. m + n PROVE s[i] = c[i]
  <2>1. CASE i <= m
    BY <1>1, <1>2, <1>3, <1>4, <2>1
  <2>2. CASE i > m
    <3>1. i - m \in 1 .. n /\ m + (i - m) = i /\ ~(i <= m)
      BY <2>2
    <3>2. b[i - m] = m + (i - m)
      BY <1>2, <3>1
    <3> QED
      BY <1>1, <1>2, <1>3, <1>4, <3>1, <3>2
  <2> QED
    BY <2>1, <2>2
<1>6. s = c
  BY <1>1, <1>2, <1>3, <1>4, <1>5, SeqEqual
<1> QED
  BY <1>2, <1>6 DEF s, a, b, c

\* A step of the client with its request is a step of the client.
LEMMA KNextIsNext == KNext => Next
  BY DEF KNext, SetParams, GetRaw, Begin, Update, Others, Next

\* Every step keeps what the service has read and stored equal to what the caller passed.
LEMMA KStep == KInv /\ [KNext]_<<vars, requestVars>> => KInv'
<1> SUFFICES ASSUME KInv, [KNext]_<<vars, requestVars>> PROVE KInv'
  OBVIOUS
<1> USE DEF KInv
<1>1. KmInv'
  BY KNextIsNext, KmStep
<1>2. CASE SetParams
  <2>1. call' = "set"
    BY <1>2 DEF SetParams, Set, DoTipc
  <2>2. ServiceReads'
    BY <1>2, RequestReads DEF SetParams, ServiceReads
  <2> QED
    BY <1>1, <2>1, <2>2 DEF DataInv
<1>3. CASE GetRaw
  <2>1. call' = "get"
    BY <1>3 DEF GetRaw, Get, DoTipc
  <2>2. PICK d \in Buffers : Request(Raw(d))
    BY <1>3 DEF GetRaw
  <2>3. d \in Seq(Nat)
    BY RequestsAssumption
  <2>4. ServiceReads'
    BY <2>2, <2>3, RequestReads DEF ServiceReads
  <2> QED
    BY <1>1, <2>1, <2>4 DEF DataInv
<1>4. CASE Begin
  <2>1. call' = "begin" /\ sent' = 0
    BY <1>4 DEF Begin, UploadBegin, DoTipc
  <2>2. ~answer'.err => data' = Part(0, 0)
    <3>1. Part(0, 0) = <<>>
      BY DEF Part
    <3> QED
      BY <1>4, <3>1 DEF Begin
  <2>3. ServiceReads'
    BY <1>4 DEF Begin, ServiceReads
  <2> QED
    BY <1>1, <2>1, <2>2, <2>3 DEF DataInv
<1>5. CASE Update
  <2>1. /\ call' = "update" /\ sent' = sent + Chunk /\ Uploading /\ sent < size
        /\ Request(Raw(Part(sent, Chunk)))
        /\ data' = IF answer'.err THEN data ELSE data \o seen'.data
    BY <1>5 DEF Update, UploadUpdate, DoTipc
  <2>2. data = Part(0, sent)
    BY <2>1 DEF Uploading, DataInv, KmInv, ResultInv
  <2>3. sent \in Nat /\ size \in Nat /\ Chunk \in Nat
    <3>1. sent \in Nat /\ size \in Nat
      BY KeymasterAssumption DEF KmInv, TypeOK
    <3> QED
      BY <3>1, <2>1, LeastIs, KeymasterAssumption DEF Chunk
  <2>4. seen' = asked' /\ asked' = Raw(Part(sent, Chunk))
    BY <2>1, <2>3, PartsJoin, RequestReads
  <2>5. seen'.data = Part(sent, Chunk)
    BY <2>4 DEF Raw
  <2>6. ~answer'.err => data' = Part(0, sent')
    BY <2>1, <2>2, <2>3, <2>5, PartsJoin
  <2> QED
    BY <1>1, <2>1, <2>4, <2>6 DEF DataInv, ServiceReads
<1>6. CASE Others
  <2>1. CASE UploadFinish
    <3>1. call' = "finish" /\ Uploading /\ sent >= size /\ size' = size
      BY <2>1 DEF UploadFinish, DoTipc
    <3>2. data = Part(0, sent)
      BY <3>1 DEF Uploading, DataInv, KmInv, ResultInv
    <3>3. sent = size
      BY <3>1, KeymasterAssumption DEF KmInv, TypeOK
    <3> QED
      BY <1>1, <1>6, <3>1, <3>2, <3>3 DEF Others, requestVars, DataInv, ServiceReads
  <2>2. CASE SendFrame \/ ReadFirst \/ ReadRaw \/ RecvFails \/ NoMemory
    <3>1. UNCHANGED <<call, size, sent>> /\ answer'.err = answer.err
      <4>1. CASE SendFrame
        BY <4>1 DEF SendFrame, KmInv, TypeOK
      <4>2. CASE ReadFirst \/ ReadRaw
        BY <4>2 DEF ReadFirst, ReadRaw, Receive
      <4>3. CASE RecvFails \/ NoMemory
        BY <4>3 DEF RecvFails, NoMemory, serviceVars
      <4> QED
        BY <2>2, <4>1, <4>2, <4>3
    <3> QED
      BY <1>1, <1>6, <3>1 DEF Others, requestVars, DataInv, ServiceReads
  <2> QED
    BY <1>6, <2>1, <2>2 DEF Others
<1>7. CASE UNCHANGED <<vars, requestVars>>
  BY <1>1, <1>7 DEF vars, serviceVars, requestVars, DataInv, ServiceReads
<1> QED
  BY <1>2, <1>3, <1>4, <1>5, <1>6, <1>7 DEF KNext

\* The client, the service and the requests between them keep the invariant.
LEMMA KInvariance == KSpec => []KInv
<1>1. KInit => KInv
  BY KmInit DEF KInit, KInv, Init, ServiceReads, DataInv
<1> QED
  BY <1>1, KStep, PTL DEF KSpec

\* The variables of the Keymaster calls keep their types: in particular no length
\* that is read ever goes below zero or beyond the caller's buffer.
THEOREM KmTypeCorrect == KSpec => []TypeOK
<1>1. KInv => TypeOK
  BY DEF KInv, KmInv
<1> QED
  BY <1>1, KInvariance, PTL

\* A call that returns has read its whole answer, for any frame size and any data:
\* no frame is left for the next call of the connection.
THEOREM KmNothingLeft == KSpec => []NothingLeft
<1>1. KInv => NothingLeft
  BY DEF KInv, KmInv, FrameInv, NothingLeft
<1> QED
  BY <1>1, KInvariance, PTL

\* km_read_data_response and km_read_raw_response never refuse an answer that fits
\* the buffer, and return the service's data and length.
THEOREM KmReadsComplete == KSpec => []ReadsComplete
<1>1. KInv => ReadsComplete
  BY DEF KInv, KmInv, ResultInv, ReadsComplete
<1> QED
  BY <1>1, KInvariance, PTL

\* trusty_atap_set_ca_response finishes an upload only after the service has as
\* many words as were announced.
THEOREM KmUploadExact == KSpec => []UploadExact
<1>1. KInv => UploadExact
  BY DEF KInv, KmInv, UploadInv
<1> QED
  BY <1>1, KInvariance, PTL

\* The service reads from every serialized request (boot parameters, attestation data
\* and raw buffers of any contents and length) what the caller passed to keymaster.c.
THEOREM KmServiceReads == KSpec => []ServiceReads
<1>1. KInv => ServiceReads
  BY DEF KInv
<1> QED
  BY <1>1, KInvariance, PTL

\* The CA response the service parses is the caller's, word by word, for any size
\* of the response and of the parts.
THEOREM KmUploadWhole == KSpec => []UploadWhole
<1>1. KInv => UploadWhole
  <2>1. size \in Nat => Part(0, size) = [i \in 1 .. size |-> i]
    BY DEF Part
  <2>2. KInv => size \in Nat
    BY KeymasterAssumption DEF KInv, KmInv, TypeOK
  <2> QED
    BY <2>1, <2>2 DEF KInv, DataInv, UploadWhole
<1> QED
  BY <1>1, KInvariance, PTL
=============================================================================
