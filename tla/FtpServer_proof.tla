---------------------------- MODULE FtpServer_proof ---------------------------
(***************************************************************************)
(* Proofs about FtpServer, for any number of pcbs, polls and commands.     *)
(* That the client gets its replies in order, on its control connection,   *)
(* 226 after the whole listing, and a 226 for a listing only, is proved    *)
(* for one thread: it is lost when a poll comes between two statements of  *)
(* a command.                                                              *)
(***************************************************************************)
EXTENDS FtpServer, SequenceTheorems, TLAPS

-----------------------------------------------------------------------------
(* The shape of what a callback has still to execute.                       *)

Ends == {"eCtr", "eMsg"}
Answers == Messages \ {"line"}
Has(w, s) == \E i \in 1 .. Len(w) : w[i] = s

\* The lines of a listing are for the data connection, the replies are not.
Paired(text, end) ==
  text \in Messages /\ end \in Ends /\ (text = "line" <=> end = "eMsg")

\* A text is sent after it has been written to buffer.  A list command begins
\* with memset, opens its connection, sets the state and then answers; cmd_user
\* sets msgcount back before the state.
ShapeOK(w) ==
  /\ w \in Seq(Statements)
  /\ \A i \in 1 .. Len(w) : w[i] \in Messages =>
       i + 2 <= Len(w) /\ w[i + 1] \in Ends /\ w[i + 2] = "write"
  /\ \A i \in 1 .. Len(w) : w[i] = "clear" => i = 1
  /\ \A i \in 1 .. Len(w) : w[i] \in {"clear", "new"} => Has(w, "LIST")
  /\ \A i, j \in 1 .. Len(w) :
       w[i] = "LIST" /\ w[j] \in Messages \cup {"write"} => i < j
  /\ \A i, j \in 1 .. Len(w) :
       w[i] = "LIST" /\ w[j] \in {"LIST", "new"} => j <= i
  /\ \A i, j \in 1 .. Len(w) : w[i] = "new" /\ w[j] = "new" => j = i
  /\ \A i \in 1 .. Len(w) : w[i] = "restart" =>
       ~Has(w, "LIST") /\ \E j \in i + 1 .. Len(w) : w[j] = "PASS"

\* What is written is in buffer, and ctrOrMsg set, by then; b and c are what
\* they hold now.
WritesOK(w, b, c) ==
  \A i \in 1 .. Len(w) : w[i] = "write" =>
    Paired(IF i > 2 THEN w[i - 2] ELSE b, IF i > 1 THEN w[i - 1] ELSE c)

\* The same of a whole callback, whatever the globals hold.
CodeOK(w) ==
  /\ ShapeOK(w)
  /\ \A i \in 1 .. Len(w) : w[i] = "write" => i > 2 /\ Paired(w[i - 2], w[i - 1])

Greeting == <<"callbacks", "220", "eCtr", "write">>
Completion == <<"226", "eCtr", "write", "250", "eCtr", "write">>
Lines == <<"line", "eMsg", "write", "line", "eMsg", "write">>

\* The texts of M, at most two, that w writes to buffer.
Bursts == {<<>>} \cup {<<a>> : a \in Messages} \cup {<<a, b>> : a, b \in Messages}

Fills(w, M, s) ==
  \/ /\ s = <<>>
     /\ \A k \in 1 .. Len(w) : w[k] \notin M
  \/ \E i \in 1 .. Len(w) :
       /\ s = <<w[i]>>
       /\ \A k \in 1 .. Len(w) : w[k] \in M <=> k = i
  \/ \E i, j \in 1 .. Len(w) :
       /\ i < j /\ s = <<w[i], w[j]>>
       /\ \A k \in 1 .. Len(w) : w[k] \in M <=> k \in {i, j}

\* The text that is in buffer and still has to be sent.
Sending(w) ==
  \/ Len(w) > 0 /\ w[1] = "write"
  \/ Len(w) > 1 /\ w[1] \in Ends /\ w[2] = "write"

InBuffer(w, b, M) == IF Sending(w) /\ b \in M THEN <<b>> ELSE <<>>

-----------------------------------------------------------------------------
(* The inductive invariant, for one thread.                                 *)

W == work[InputThread]
Data == conn[ftpRAWDataMsg]

\* Before the client has connected.
Fresh ==
  /\ W = <<>> /\ ctrOrMsg = "eCtr"
  /\ conn = [p \in Pcbs |-> Free]
  /\ ftpRAWDataMsg = Listen
  /\ ~bConnect /\ state = "USER" /\ msgcount = 0 /\ owed = <<>>

\* The client is at the connection ftpRAWControl, the listing at ftpRAWDataMsg.
ConnOK ==
  /\ mine = ftpRAWControl
  /\ mine = Listen => Fresh
  /\ mine # Listen =>
       /\ conn[mine].use = "control" /\ conn[mine].open
       /\ ~conn[mine].recv => W = Greeting
  /\ ftpRAWDataMsg # Listen => Data.use = "data"
  /\ bConnect \/ Has(W, "connected") => ftpRAWDataMsg # Listen /\ Data.open
  /\ \A p \in Pcbs : conn[p].use = "data" /\ ~conn[p].open =>
       p = ftpRAWDataMsg /\ ~Has(W, "new")

\* The replies that the client waits for are those at its connection, the one in
\* buffer, those that the callback writes and, after a list command, the two of
\* the completion, which a poll will write.
InOrder(rest) ==
  \E s \in Bursts :
    /\ Fills(W, Answers, s)
    /\ owed = conn[mine].got \o (InBuffer(W, buffer, Answers) \o (s \o rest))

\* No listing is under way.
Quiet ==
  /\ ~Has(W, "LIST")
  /\ state = "LIST" /\ ~Has(W, "PASS") => msgcount > Rounds
  /\ \A p \in Pcbs : conn[p].use = "data" => conn[p].open

OrderOK ==
  mine # Listen => InOrder(<<"226", "250">>) \/ (InOrder(<<>>) /\ Quiet)

\* The polls of a listing so far.
Polled == IF msgcount < Rounds THEN msgcount ELSE Rounds - 1

Counts ==
  /\ state # "LIST" \/ (\E s \in {"PASS", "IDLE", "LIST"} : Has(W, s))
       => msgcount = 0 \/ msgcount > Rounds
  /\ Has(W, "LIST") => /\ state = "LIST" => msgcount > Rounds
                       /\ Has(W, "clear") \/ ~bConnect
                       /\ Has(W, "new") \/ (ftpRAWDataMsg # Listen /\ Data.got = <<>>)
                       /\ ~Has(W, "line")
  /\ Has(W, "226") => W = Completion /\ msgcount = Rounds + 1
                        /\ ftpRAWDataMsg # Listen
                        /\ Len(Data.got) = 2 * (Rounds - 1)
  /\ Has(W, "callbacks") => W = Greeting /\ ctrOrMsg = "eCtr"
  /\ Has(W, "connected") => W = <<"connected">>

\* The lines that the polls have written, and those that are on their way.
ListingOK ==
  state = "LIST" /\ ~Has(W, "PASS") /\ msgcount <= Rounds =>
    /\ ftpRAWDataMsg # Listen
    /\ bConnect \/ msgcount = 0
    /\ \E s \in Bursts :
         /\ Fills(W, {"line"}, s)
         /\ Len(Data.got) + Len(InBuffer(W, buffer, {"line"})) + Len(s) = 2 * Polled

SessionOK ==
  /\ ConnOK /\ OrderOK /\ Counts /\ ListingOK
  /\ RepliesOnControl

-----------------------------------------------------------------------------
(* Sequences.                                                               *)

LEMMA Joined ==
  ASSUME NEW S, NEW a \in Seq(S), NEW b \in Seq(S), NEW w \in Seq(S),
         Len(w) = Len(a) + Len(b),
         \A i \in 1 .. Len(a) : w[i] = a[i],
         \A i \in 1 .. Len(b) : w[Len(a) + i] = b[i]
  PROVE  a \o b = w
<1>1. a \o b \in Seq(S) /\ Len(a \o b) = Len(w)
  BY ConcatProperties
<1>2. ASSUME NEW i \in 1 .. Len(w) PROVE (a \o b)[i] = w[i]
  <2>1. CASE i <= Len(a)
    BY <2>1, ConcatProperties
  <2>2. CASE i > Len(a)
    <3>1. i - Len(a) \in 1 .. Len(b) /\ Len(a) + (i - Len(a)) = i
      BY <2>2
    <3> QED BY <2>2, <3>1, ConcatProperties
  <2> QED BY <2>1, <2>2
<1> QED BY <1>1, <1>2, SeqEqual

\* What is left after the first statement.
LEMMA Rest ==
  ASSUME NEW S, NEW w \in Seq(S), w # <<>>
  PROVE  /\ Head(w) = w[1] /\ Head(w) \in S /\ Tail(w) \in Seq(S)
         /\ Len(w) \in Nat /\ Len(w) > 0 /\ Len(Tail(w)) = Len(w) - 1
         /\ \A i \in 1 .. Len(Tail(w)) : i + 1 \in 1 .. Len(w) /\ Tail(w)[i] = w[i + 1]
OBVIOUS

LEMMA HasRest ==
  ASSUME NEW S, NEW w \in Seq(S), w # <<>>, NEW s
  PROVE  Has(w, s) <=> Head(w) = s \/ Has(Tail(w), s)
<1>1. ASSUME NEW i \in 1 .. Len(w), w[i] = s, Head(w) # s PROVE Has(Tail(w), s)
  <2>1. i # 1 /\ i - 1 \in 1 .. Len(Tail(w)) /\ Tail(w)[i - 1] = w[i]
    BY <1>1, Rest
  <2> QED BY <1>1, <2>1 DEF Has
<1>2. 1 \in 1 .. Len(w)
  BY Rest
<1> QED BY <1>1, <1>2, Rest DEF Has

LEMMA HasEmpty == \A s : ~Has(<<>>, s)
BY DEF Has

-----------------------------------------------------------------------------
(* The shape is kept as the statements are executed.                        *)

LEMMA Kinds ==
  /\ "write" \notin Messages /\ "write" \notin Ends
  /\ \A m \in Messages : m \notin Ends /\ m \in Statements
BY DEF Messages, Ends, Statements

LEMMA ShapeRest ==
  ASSUME NEW w, ShapeOK(w), w # <<>>
  PROVE  ShapeOK(Tail(w))
<1>. DEFINE t == Tail(w)
<1>0. w \in Seq(Statements)
  BY DEF ShapeOK
<1>1. /\ t \in Seq(Statements) /\ Len(t) = Len(w) - 1 /\ Len(w) \in Nat
      /\ \A i \in 1 .. Len(t) : i + 1 \in 1 .. Len(w) /\ t[i] = w[i + 1]
  BY <1>0, Rest
<1>. HIDE DEF t
<1>2. \A i \in 1 .. Len(t) : t[i] \in Messages =>
        i + 2 <= Len(t) /\ t[i + 1] \in Ends /\ t[i + 2] = "write"
  <2>. SUFFICES ASSUME NEW i \in 1 .. Len(t), t[i] \in Messages
                PROVE  i + 2 <= Len(t) /\ t[i + 1] \in Ends /\ t[i + 2] = "write"
    OBVIOUS
  <2>1. /\ (i + 1) + 2 <= Len(w) /\ w[(i + 1) + 1] \in Ends
        /\ w[(i + 1) + 2] = "write"
    BY <1>1 DEF ShapeOK
  <2>2. i + 2 <= Len(t) /\ i + 1 \in 1 .. Len(t) /\ i + 2 \in 1 .. Len(t)
    BY <1>1, <2>1
  <2>3. t[i + 1] = w[(i + 1) + 1] /\ t[i + 2] = w[(i + 2) + 1]
    BY <1>1, <2>2
  <2> QED BY <2>1, <2>2, <2>3
<1>3. \A i \in 1 .. Len(t) : t[i] # "clear"
  <2>. SUFFICES ASSUME NEW i \in 1 .. Len(t), t[i] = "clear" PROVE FALSE
    OBVIOUS
  <2>1. i + 1 = 1
    BY <1>1 DEF ShapeOK
  <2> QED BY <2>1
<1>4. \A i \in 1 .. Len(t) : t[i] \in {"clear", "new"} => Has(t, "LIST")
  <2>. SUFFICES ASSUME NEW i \in 1 .. Len(t), t[i] = "new" PROVE Has(t, "LIST")
    BY <1>3
  <2>1. PICK j \in 1 .. Len(w) : w[j] = "LIST"
    BY <1>1 DEF ShapeOK, Has
  <2>2. i + 1 <= j
    BY <1>1, <2>1 DEF ShapeOK
  <2>3. j - 1 \in 1 .. Len(t) /\ t[j - 1] = w[(j - 1) + 1]
    BY <1>1, <2>2
  <2> QED BY <2>1, <2>3 DEF Has
<1>5. \A i, j \in 1 .. Len(t) :
        t[i] = "LIST" /\ t[j] \in Messages \cup {"write"} => i < j
  <2>. SUFFICES ASSUME NEW i \in 1 .. Len(t), NEW j \in 1 .. Len(t),
                       t[i] = "LIST", t[j] \in Messages \cup {"write"}
                PROVE  i < j
    OBVIOUS
  <2>1. i + 1 < j + 1
    BY <1>1 DEF ShapeOK
  <2> QED BY <2>1
<1>6. \A i, j \in 1 .. Len(t) :
        t[i] = "LIST" /\ t[j] \in {"LIST", "new"} => j <= i
  <2>. SUFFICES ASSUME NEW i \in 1 .. Len(t), NEW j \in 1 .. Len(t),
                       t[i] = "LIST", t[j] \in {"LIST", "new"}
                PROVE  j <= i
    OBVIOUS
  <2>1. j + 1 <= i + 1
    BY <1>1 DEF ShapeOK
  <2> QED BY <2>1
<1>7. \A i, j \in 1 .. Len(t) : t[i] = "new" /\ t[j] = "new" => j = i
  <2>. SUFFICES ASSUME NEW i \in 1 .. Len(t), NEW j \in 1 .. Len(t),
                       t[i] = "new", t[j] = "new"
                PROVE  j = i
    OBVIOUS
  <2>1. j + 1 = i + 1
    BY <1>1 DEF ShapeOK
  <2> QED BY <2>1
<1>8. \A i \in 1 .. Len(t) : t[i] = "restart" =>
        ~Has(t, "LIST") /\ \E j \in i + 1 .. Len(t) : t[j] = "PASS"
  <2>. SUFFICES ASSUME NEW i \in 1 .. Len(t), t[i] = "restart"
                PROVE  ~Has(t, "LIST") /\ \E j \in i + 1 .. Len(t) : t[j] = "PASS"
    OBVIOUS
  <2>1. ~Has(w, "LIST") /\ \E j \in (i + 1) + 1 .. Len(w) : w[j] = "PASS"
    BY <1>1 DEF ShapeOK
  <2>2. PICK j \in (i + 1) + 1 .. Len(w) : w[j] = "PASS"
    BY <2>1
  <2>3. j - 1 \in i + 1 .. Len(t) /\ t[j - 1] = w[(j - 1) + 1]
    BY <1>1, <2>2
  <2>4. ~Has(t, "LIST")
    BY <1>1, <2>1 DEF Has
  <2> QED BY <2>2, <2>3, <2>4
<1>9. ShapeOK(t)
  BY <1>1, <1>2, <1>3, <1>4, <1>5, <1>6, <1>7, <1>8 DEF ShapeOK
<1> QED BY <1>9 DEF t

\* buffer and ctrOrMsg after the statement h.
Text(h, b) == IF h \in Messages THEN h ELSE b
Chosen(h, c) == IF h \in Ends THEN h ELSE c

LEMMA WritesRest ==
  ASSUME NEW w, NEW b, NEW c, ShapeOK(w), WritesOK(w, b, c), w # <<>>
  PROVE  WritesOK(Tail(w), Text(Head(w), b), Chosen(Head(w), c))
<1>. DEFINE t == Tail(w)
            h == Head(w)
            b2 == Text(h, b)
            c2 == Chosen(h, c)
<1>0. w \in Seq(Statements)
  BY DEF ShapeOK
<1>1. /\ t \in Seq(Statements) /\ Len(t) = Len(w) - 1 /\ Len(w) \in Nat /\ h = w[1]
      /\ \A i \in 1 .. Len(t) : i + 1 \in 1 .. Len(w) /\ t[i] = w[i + 1]
  BY <1>0, Rest
<1>. HIDE DEF t, h
<1>2. ASSUME NEW i \in 1 .. Len(t), t[i] = "write"
      PROVE  Paired(IF i > 2 THEN t[i - 2] ELSE b2, IF i > 1 THEN t[i - 1] ELSE c2)
  <2>0. w[i + 1] = "write" /\ i + 1 \in 1 .. Len(w)
    BY <1>1, <1>2
  <2>1. Paired(IF i + 1 > 2 THEN w[(i + 1) - 2] ELSE b,
               IF i + 1 > 1 THEN w[(i + 1) - 1] ELSE c)
    BY <2>0 DEF WritesOK
  <2>2. Paired(IF i > 1 THEN w[i - 1] ELSE b, w[i])
    <3>1. (i + 1) - 2 = i - 1 /\ (i + 1) - 1 = i /\ i + 1 > 1 /\ (i + 1 > 2 <=> i > 1)
      OBVIOUS
    <3> QED BY <2>1, <3>1
  <2>3. CASE i = 1
    <3>1. Paired(b, h)
      BY <1>1, <2>2, <2>3
    <3>2. b2 = b /\ c2 = h
      BY <3>1, Kinds DEF Paired, Text, Chosen
    <3> QED BY <2>3, <3>1, <3>2
  <2>4. CASE i = 2
    <3>1. Paired(h, w[2])
      BY <1>1, <2>2, <2>4
    <3>2. b2 = h /\ t[1] = w[2] /\ i - 1 = 1
      BY <1>1, <2>4, <3>1 DEF Paired, Text
    <3>3. Paired(b2, t[1])
      BY <3>1, <3>2
    <3> QED BY <2>4, <3>2, <3>3
  <2>5. CASE i > 2
    <3>1. Paired(w[i - 1], w[i])
      BY <2>2, <2>5
    <3>2. /\ i - 2 \in 1 .. Len(t) /\ i - 1 \in 1 .. Len(t)
          /\ t[i - 2] = w[(i - 2) + 1] /\ t[i - 1] = w[(i - 1) + 1]
      BY <1>1, <2>5, SMTT(30)
    <3>3. Paired(t[i - 2], t[i - 1])
      BY <3>1, <3>2
    <3> QED BY <2>5, <3>3
  <2> QED BY <2>3, <2>4, <2>5
<1>3. WritesOK(t, b2, c2)
  BY <1>2 DEF WritesOK
<1> QED BY <1>3 DEF t, h

\* A callback that begins is of the shape.
LEMMA CodeWrites ==
  ASSUME NEW w, NEW b, NEW c, CodeOK(w)
  PROVE  ShapeOK(w) /\ WritesOK(w, b, c)
<1>1. ASSUME NEW i \in 1 .. Len(w), w[i] = "write"
      PROVE  Paired(IF i > 2 THEN w[i - 2] ELSE b, IF i > 1 THEN w[i - 1] ELSE c)
  <2>1. i > 2 /\ Paired(w[i - 2], w[i - 1])
    BY <1>1 DEF CodeOK
  <2> QED BY <2>1
<1> QED BY <1>1 DEF CodeOK, WritesOK

LEMMA EmptyShape == \A b, c : ShapeOK(<<>>) /\ WritesOK(<<>>, b, c)
BY DEF ShapeOK, WritesOK

-----------------------------------------------------------------------------
(* The texts on their way.                                                  *)

LEMMA BurstType ==
  /\ <<>> \in Bursts
  /\ \A a \in Messages : <<a>> \in Bursts
  /\ \A a, b \in Messages : <<a, b>> \in Bursts
  /\ \A s \in Bursts : s \in Seq(Messages) /\ Len(s) \in Nat
<1>1. ASSUME NEW s \in Bursts PROVE s \in Seq(Messages)
  <2>1. CASE s = <<>>
    BY <2>1
  <2>2. CASE \E a \in Messages : s = <<a>>
    BY <2>2
  <2>3. CASE \E a, b \in Messages : s = <<a, b>>
    BY <2>3
  <2> QED BY <2>1, <2>2, <2>3 DEF Bursts
<1>2. ASSUME NEW a \in Messages PROVE <<a>> \in Bursts
  BY DEF Bursts
<1>3. ASSUME NEW a \in Messages, NEW b \in Messages PROVE <<a, b>> \in Bursts
  BY DEF Bursts
<1>4. <<>> \in Bursts
  BY DEF Bursts
<1> QED BY <1>1, <1>2, <1>3, <1>4

LEMMA NothingToFill ==
  ASSUME NEW M, NEW s, Fills(<<>>, M, s)
  PROVE  s = <<>>
BY DEF Fills

\* The first statement writes the first text, or it writes none.
LEMMA FillsRest ==
  ASSUME NEW w, ShapeOK(w), w # <<>>, NEW M \in SUBSET Messages,
         NEW s \in Bursts, Fills(w, M, s)
  PROVE  \E r \in Bursts :
           /\ Fills(Tail(w), M, r)
           /\ s = IF Head(w) \in M THEN <<Head(w)>> \o r ELSE r
<1>. DEFINE t == Tail(w)
            h == Head(w)
<1>0. w \in Seq(Statements)
  BY DEF ShapeOK
<1>1. /\ t \in Seq(Statements) /\ Len(t) = Len(w) - 1 /\ Len(w) \in Nat /\ Len(w) > 0
      /\ h = w[1]
      /\ \A i \in 1 .. Len(t) : i + 1 \in 1 .. Len(w) /\ t[i] = w[i + 1]
      /\ \A i \in 1 .. Len(w) : i # 1 => i - 1 \in 1 .. Len(t) /\ t[i - 1] = w[i]
  <2>1. ASSUME NEW i \in 1 .. Len(w), i # 1
        PROVE  i - 1 \in 1 .. Len(t) /\ t[i - 1] = w[i]
    BY <1>0, <2>1, Rest
  <2> QED BY <1>0, <2>1, Rest
<1>. HIDE DEF t, h
<1>2. CASE s = <<>> /\ \A k \in 1 .. Len(w) : w[k] \notin M
  <2>1. Fills(t, M, <<>>) /\ h \notin M
    BY <1>1, <1>2 DEF Fills
  <2> QED BY <1>2, <2>1, BurstType DEF t, h
<1>3. CASE \E i \in 1 .. Len(w) :
             /\ s = <<w[i]>>
             /\ \A k \in 1 .. Len(w) : w[k] \in M <=> k = i
  <2>1. PICK i \in 1 .. Len(w) :
          s = <<w[i]>> /\ \A k \in 1 .. Len(w) : w[k] \in M <=> k = i
    BY <1>3
  <2>2. CASE i = 1
    <3>1. Fills(t, M, <<>>)
      BY <1>1, <2>1, <2>2 DEF Fills
    <3>2. h \in M /\ s = <<h>>
      BY <1>1, <2>1, <2>2
    <3>3. <<h>> \o <<>> = <<h>>
      BY <3>2, ConcatEmptySeq
    <3> QED BY <3>1, <3>2, <3>3, BurstType DEF t, h
  <2>3. CASE i # 1
    <3>1. i - 1 \in 1 .. Len(t) /\ t[i - 1] = w[i] /\ h \notin M
      BY <1>1, <2>1, <2>3
    <3>2. \A k \in 1 .. Len(t) : t[k] \in M <=> k = i - 1
      BY <1>1, <2>1, <2>3
    <3>3. Fills(t, M, s)
      BY <2>1, <3>1, <3>2 DEF Fills
    <3> QED BY <3>1, <3>3 DEF t, h
  <2> QED BY <2>2, <2>3
<1>4. CASE \E i, j \in 1 .. Len(w) :
             /\ i < j /\ s = <<w[i], w[j]>>
             /\ \A k \in 1 .. Len(w) : w[k] \in M <=> k \in {i, j}
  <2>1. PICK i \in 1 .. Len(w), j \in 1 .. Len(w) :
          /\ i < j /\ s = <<w[i], w[j]>>
          /\ \A k \in 1 .. Len(w) : w[k] \in M <=> k \in {i, j}
    BY <1>4
  <2>2. j - 1 \in 1 .. Len(t) /\ t[j - 1] = w[j] /\ w[j] \in M
    BY <1>1, <2>1
  <2>3. CASE i = 1
    <3>1. \A k \in 1 .. Len(t) : t[k] \in M <=> k = j - 1
      BY <1>1, <2>1, <2>3
    <3>2. Fills(t, M, <<w[j]>>)
      BY <2>2, <3>1 DEF Fills
    <3>3. h \in M /\ s = <<h, w[j]>>
      BY <1>1, <2>1, <2>3
    <3>4. <<h>> \o <<w[j]>> = <<h, w[j]>>
      <4>. DEFINE a == <<h>>
                  b == <<w[j]>>
                  c == <<h, w[j]>>
      <4>1. a \in Seq(Messages) /\ b \in Seq(Messages) /\ c \in Seq(Messages)
        BY <2>2, <3>3
      <4>2. /\ Len(c) = Len(a) + Len(b)
            /\ \A k \in 1 .. Len(a) : c[k] = a[k]
            /\ \A k \in 1 .. Len(b) : c[Len(a) + k] = b[k]
        OBVIOUS
      <4>3. a \o b = c
        <5>. HIDE DEF a, b, c
        <5> QED BY <4>1, <4>2, Joined
      <4> QED BY <4>3
    <3>5. <<w[j]>> \in Bursts
      BY <2>2, BurstType
    <3> QED BY <3>2, <3>3, <3>4, <3>5 DEF t, h
  <2>4. CASE i # 1
    <3>1. i - 1 \in 1 .. Len(t) /\ t[i - 1] = w[i] /\ h \notin M
      BY <1>1, <2>1, <2>4
    <3>2. \A k \in 1 .. Len(t) : t[k] \in M <=> k \in {i - 1, j - 1}
      BY <1>1, <2>1, <2>4
    <3>3. Fills(t, M, s)
      <4>1. i - 1 < j - 1 /\ s = <<t[i - 1], t[j - 1]>>
        BY <2>1, <2>2, <3>1
      <4> QED BY <2>2, <3>1, <3>2, <4>1 DEF Fills
    <3> QED BY <3>1, <3>3 DEF t, h
  <2> QED BY <2>3, <2>4
<1> QED BY <1>2, <1>3, <1>4 DEF Fills

\* What a statement makes of the text in buffer: filling puts one there, writing
\* sends it, and no other statement touches it.
LEMMA SendingRest ==
  ASSUME NEW w, NEW b, NEW c, ShapeOK(w), WritesOK(w, b, c), w # <<>>
  PROVE  /\ Head(w) \in Messages => ~Sending(w) /\ Sending(Tail(w))
         /\ Head(w) = "write" => Sending(w) /\ ~Sending(Tail(w))
         /\ Head(w) \notin Messages \cup {"write"} => (Sending(Tail(w)) <=> Sending(w))
<1>. DEFINE t == Tail(w)
            h == Head(w)
<1>0. w \in Seq(Statements)
  BY DEF ShapeOK
<1>1. /\ t \in Seq(Statements) /\ Len(t) = Len(w) - 1 /\ Len(w) \in Nat /\ Len(w) > 0
      /\ h = w[1]
      /\ Len(t) > 0 => t[1] = w[2]
      /\ Len(t) > 1 => t[2] = w[3]
  BY <1>0, Rest
<1>. HIDE DEF t, h
<1>2. Len(w) > 1 /\ w[2] = "write" => Paired(b, h)
  <2>. SUFFICES ASSUME Len(w) > 1, w[2] = "write" PROVE Paired(b, h)
    OBVIOUS
  <2>1. Paired(IF 2 > 2 THEN w[2 - 2] ELSE b, IF 2 > 1 THEN w[2 - 1] ELSE c)
    BY <1>1 DEF WritesOK
  <2> QED BY <1>1, <2>1
<1>3. Len(w) > 2 /\ w[3] = "write" => Paired(h, w[2])
  <2>. SUFFICES ASSUME Len(w) > 2, w[3] = "write" PROVE Paired(h, w[2])
    OBVIOUS
  <2>1. Paired(IF 3 > 2 THEN w[3 - 2] ELSE b, IF 3 > 1 THEN w[3 - 1] ELSE c)
    BY <1>1 DEF WritesOK
  <2> QED BY <1>1, <2>1
<1>4. h \in Messages => ~Sending(w) /\ Sending(t)
  <2>. SUFFICES ASSUME h \in Messages PROVE ~Sending(w) /\ Sending(t)
    OBVIOUS
  <2>1. 1 + 2 <= Len(w) /\ w[1 + 1] \in Ends /\ w[1 + 2] = "write"
    BY <1>1 DEF ShapeOK
  <2>2. Len(t) > 1 /\ t[1] \in Ends /\ t[2] = "write"
    BY <1>1, <2>1
  <2> QED BY <1>1, <2>2, Kinds DEF Sending
<1>5. h = "write" => Sending(w) /\ ~Sending(t)
  BY <1>1, <1>2, <1>3, Kinds DEF Sending, Paired
<1>6. h \notin Messages \cup {"write"} => (Sending(t) <=> Sending(w))
  BY <1>1, <1>2, <1>3, Kinds DEF Sending, Paired
<1> QED BY <1>4, <1>5, <1>6 DEF t, h

\* No text is on its way when a callback begins or has ended.
LEMMA CodeSendsNothing ==
  /\ \A w : CodeOK(w) => ~Sending(w)
  /\ ~Sending(<<>>)
<1>1. ASSUME NEW w, CodeOK(w) PROVE ~Sending(w)
  <2>1. w \in Seq(Statements)
    BY <1>1 DEF CodeOK, ShapeOK
  <2>2. \A i \in 1 .. Len(w) : w[i] = "write" => i > 2
    BY <1>1 DEF CodeOK
  <2> QED BY <2>1, <2>2 DEF Sending
<1>2. ~Sending(<<>>)
  BY DEF Sending
<1> QED BY <1>1, <1>2

\* Together: the texts still to be sent are the same, but for one that has been
\* written.
LEMMA OnTheWay ==
  ASSUME NEW w, NEW b, NEW c, ShapeOK(w), WritesOK(w, b, c), w # <<>>,
         NEW M \in SUBSET Messages, NEW s \in Bursts, Fills(w, M, s)
  PROVE  \E r \in Bursts :
           /\ Fills(Tail(w), M, r)
           /\ Head(w) # "write" =>
                InBuffer(Tail(w), Text(Head(w), b), M) \o r = InBuffer(w, b, M) \o s
           /\ Head(w) = "write" =>
                /\ r = s
                /\ InBuffer(Tail(w), b, M) = <<>>
                /\ InBuffer(w, b, M) = IF b \in M THEN <<b>> ELSE <<>>
<1>1. PICK r \in Bursts :
        /\ Fills(Tail(w), M, r)
        /\ s = IF Head(w) \in M THEN <<Head(w)>> \o r ELSE r
  BY FillsRest
<1>2. s \in Seq(Messages) /\ r \in Seq(Messages)
  BY BurstType
<1>3. CASE Head(w) \in Messages
  <2>1. Text(Head(w), b) = Head(w) /\ Head(w) # "write"
    BY <1>3, Kinds DEF Text
  <2>2. /\ InBuffer(w, b, M) = <<>>
        /\ InBuffer(Tail(w), Head(w), M)
             = IF Head(w) \in M THEN <<Head(w)>> ELSE <<>>
    BY <1>3, SendingRest DEF InBuffer
  <2>3. InBuffer(Tail(w), Head(w), M) \o r = s
    BY <1>1, <1>2, <2>2, ConcatEmptySeq
  <2>4. InBuffer(w, b, M) \o s = s
    BY <1>2, <2>2, ConcatEmptySeq
  <2> QED BY <1>1, <2>1, <2>3, <2>4
<1>4. CASE Head(w) = "write"
  <2>1. r = s
    BY <1>1, <1>4, Kinds
  <2>2. Sending(w) /\ ~Sending(Tail(w))
    BY <1>4, SendingRest
  <2>3. /\ InBuffer(Tail(w), b, M) = <<>>
        /\ InBuffer(w, b, M) = IF b \in M THEN <<b>> ELSE <<>>
    BY <2>2 DEF InBuffer
  <2> QED BY <1>1, <1>4, <2>1, <2>3
<1>5. CASE Head(w) \notin Messages \cup {"write"}
  <2>1. r = s /\ Text(Head(w), b) = b
    BY <1>1, <1>5 DEF Text
  <2>2. InBuffer(Tail(w), b, M) = InBuffer(w, b, M)
    BY <1>5, SendingRest DEF InBuffer
  <2> QED BY <1>1, <1>5, <2>1, <2>2
<1> QED BY <1>3, <1>4, <1>5

-----------------------------------------------------------------------------
(* The callbacks, statement by statement.                                   *)

ListCode(m, n) ==
  <<"clear", "eMsg", "new", "connect", "LIST", m, "eCtr", "write", n, "eCtr", "write">>

LEMMA UserCode ==
  CmdUser = <<"331", "eCtr", "write", "restart", "PASS">>
<1>. DEFINE a == SendMsg("331")
            b == <<"restart", "PASS">>
            w == <<"331", "eCtr", "write", "restart", "PASS">>
<1>1. a \in Seq(Statements) /\ b \in Seq(Statements) /\ w \in Seq(Statements)
  BY DEF Statements, Messages, SendMsg
<1>2. /\ Len(w) = Len(a) + Len(b)
      /\ \A i \in 1 .. Len(a) : w[i] = a[i]
      /\ \A i \in 1 .. Len(b) : w[Len(a) + i] = b[i]
  BY DEF SendMsg
<1>3. a \o b = w
  <2>. HIDE DEF a, b, w
  <2> QED BY <1>1, <1>2, Joined
<1> QED BY <1>3 DEF CmdUser

LEMMA PassCode ==
  CmdPass = <<"230", "eCtr", "write", "IDLE">>
<1>. DEFINE a == SendMsg("230")
            b == <<"IDLE">>
            w == <<"230", "eCtr", "write", "IDLE">>
<1>1. a \in Seq(Statements) /\ b \in Seq(Statements) /\ w \in Seq(Statements)
  BY DEF Statements, Messages, SendMsg
<1>2. /\ Len(w) = Len(a) + Len(b)
      /\ \A i \in 1 .. Len(a) : w[i] = a[i]
      /\ \A i \in 1 .. Len(b) : w[Len(a) + i] = b[i]
  BY DEF SendMsg
<1>3. a \o b = w
  <2>. HIDE DEF a, b, w
  <2> QED BY <1>1, <1>2, Joined
<1> QED BY <1>3 DEF CmdPass

LEMMA OpenCode ==
  ListCommon = <<"clear", "eMsg", "new", "connect", "LIST">>
<1>. DEFINE a == OpenData
            b == <<"LIST">>
            w == <<"clear", "eMsg", "new", "connect", "LIST">>
<1>1. a \in Seq(Statements) /\ b \in Seq(Statements) /\ w \in Seq(Statements)
  BY DEF Statements, Messages, OpenData
<1>2. /\ Len(w) = Len(a) + Len(b)
      /\ \A i \in 1 .. Len(a) : w[i] = a[i]
      /\ \A i \in 1 .. Len(b) : w[Len(a) + i] = b[i]
  BY DEF OpenData
<1>3. a \o b = w
  <2>. HIDE DEF a, b, w
  <2> QED BY <1>1, <1>2, Joined
<1> QED BY <1>3 DEF ListCommon

LEMMA ListCodes ==
  ASSUME NEW m \in Messages, NEW n \in Messages
  PROVE  (ListCommon \o SendMsg(m)) \o SendMsg(n) = ListCode(m, n)
<1>. DEFINE a == <<"clear", "eMsg", "new", "connect", "LIST">>
            b == SendMsg(m)
            c == SendMsg(n)
            v == <<"clear", "eMsg", "new", "connect", "LIST", m, "eCtr", "write">>
            w == ListCode(m, n)
<1>1. /\ a \in Seq(Statements) /\ b \in Seq(Statements) /\ c \in Seq(Statements)
      /\ v \in Seq(Statements) /\ w \in Seq(Statements)
  BY DEF Statements, SendMsg, ListCode
<1>2. /\ Len(v) = Len(a) + Len(b)
      /\ \A i \in 1 .. Len(a) : v[i] = a[i]
      /\ \A i \in 1 .. Len(b) : v[Len(a) + i] = b[i]
  BY DEF SendMsg
<1>3. /\ Len(w) = Len(v) + Len(c)
      /\ \A i \in 1 .. Len(v) : w[i] = v[i]
      /\ \A i \in 1 .. Len(c) : w[Len(v) + i] = c[i]
  BY DEF SendMsg, ListCode
<1>4. a \o b = v /\ v \o c = w
  <2>. HIDE DEF a, b, c, v, w
  <2> QED BY <1>1, <1>2, <1>3, Joined
<1> QED BY <1>4, OpenCode

LEMMA GreetingCode == <<"callbacks">> \o SendMsg("220") = Greeting
<1>. DEFINE a == <<"callbacks">>
            b == SendMsg("220")
            w == Greeting
<1>1. a \in Seq(Statements) /\ b \in Seq(Statements) /\ w \in Seq(Statements)
  BY DEF Statements, Messages, SendMsg, Greeting
<1>2. /\ Len(w) = Len(a) + Len(b)
      /\ \A i \in 1 .. Len(a) : w[i] = a[i]
      /\ \A i \in 1 .. Len(b) : w[Len(a) + i] = b[i]
  BY DEF SendMsg, Greeting
<1>3. a \o b = w
  <2>. HIDE DEF a, b, w
  <2> QED BY <1>1, <1>2, Joined
<1> QED BY <1>3

LEMMA LinesCode == SendData("line") \o SendData("line") = Lines
<1>. DEFINE a == SendData("line")
            b == SendData("line")
            w == Lines
<1>1. a \in Seq(Statements) /\ b \in Seq(Statements) /\ w \in Seq(Statements)
  BY DEF Statements, Messages, SendMsg, SendData, Lines
<1>2. /\ Len(w) = Len(a) + Len(b)
      /\ \A i \in 1 .. Len(a) : w[i] = a[i]
      /\ \A i \in 1 .. Len(b) : w[Len(a) + i] = b[i]
  BY DEF SendMsg, SendData, Lines
<1>3. a \o b = w
  <2>. HIDE DEF a, b, w
  <2> QED BY <1>1, <1>2, Joined
<1> QED BY <1>3

LEMMA CompletionCode == SendMsg("226") \o SendMsg("250") = Completion
<1>. DEFINE a == SendMsg("226")
            b == SendMsg("250")
            w == Completion
<1>1. a \in Seq(Statements) /\ b \in Seq(Statements) /\ w \in Seq(Statements)
  BY DEF Statements, Messages, SendMsg, SendData, Completion
<1>2. /\ Len(w) = Len(a) + Len(b)
      /\ \A i \in 1 .. Len(a) : w[i] = a[i]
      /\ \A i \in 1 .. Len(b) : w[Len(a) + i] = b[i]
  BY DEF SendMsg, SendData, Completion
<1>3. a \o b = w
  <2>. HIDE DEF a, b, w
  <2> QED BY <1>1, <1>2, Joined
<1> QED BY <1>3

\* A callback that sends one reply and does no more.
LEMMA OneReply ==
  ASSUME NEW m \in Answers, m # "226"
  PROVE  /\ CodeOK(SendMsg(m)) /\ Fills(SendMsg(m), Answers, <<m>>)
         /\ \A s \in {"LIST", "PASS", "IDLE", "226", "callbacks", "connected", "line"} :
              ~Has(SendMsg(m), s)
<1>. DEFINE w == <<m, "eCtr", "write">>
<1>0. m \in Messages /\ m # "line" /\ m \in Statements
  BY DEF Answers, Statements
<1>1. w \in Seq(Statements) /\ \A i \in 1 .. Len(w) : i \in {1, 2, 3}
  BY <1>0 DEF Statements
<1>2. \A i \in 1 .. Len(w) : w[i] = "write" => i > 2 /\ Paired(w[i - 2], w[i - 1])
  BY <1>0, <1>1, Kinds DEF Paired, Ends
<1>3. ShapeOK(w)
  BY <1>0, <1>1 DEF ShapeOK, Has, Messages, Ends
<1>4. \A k \in 1 .. Len(w) : w[k] \in Answers <=> k = 1
  BY <1>0, <1>1 DEF Answers, Messages
<1>5. Fills(w, Answers, <<m>>)
  BY <1>4 DEF Fills
<1>6. \A s \in {"LIST", "PASS", "IDLE", "226", "callbacks", "connected", "line"} : ~Has(w, s)
  BY <1>0, <1>1 DEF Has, Messages
<1> QED BY <1>2, <1>3, <1>5, <1>6 DEF CodeOK, SendMsg

\* What LIST and NLST do.
LEMMA ListReplies ==
  ASSUME NEW m \in {"125", "150"}, NEW n \in {"125", "150"}, m # n
  PROVE  /\ CodeOK(ListCode(m, n)) /\ Fills(ListCode(m, n), Answers, <<m, n>>)
         /\ Has(ListCode(m, n), "clear") /\ Has(ListCode(m, n), "new")
         /\ \A s \in {"PASS", "226", "callbacks", "connected", "line"} :
              ~Has(ListCode(m, n), s)
<1>. DEFINE w == ListCode(m, n)
<1>0. m \in Answers /\ n \in Answers /\ m \in Statements /\ n \in Statements
  BY DEF Answers, Messages, Statements
<1>1. w \in Seq(Statements) /\ Len(w) = 11
      /\ \A i \in 1 .. Len(w) : i \in {1, 2, 3, 4, 5, 6, 7, 8, 9, 10, 11}
  BY <1>0 DEF Statements, ListCode
<1>2. \A i \in 1 .. Len(w) : w[i] = "write" => i > 2 /\ Paired(w[i - 2], w[i - 1])
  BY <1>1 DEF ListCode, Paired, Ends, Messages
<1>3. ShapeOK(w)
  BY <1>1 DEF ShapeOK, ListCode, Has, Messages, Ends
<1>4. \A k \in 1 .. Len(w) : w[k] \in Answers <=> k \in {6, 9}
  BY <1>0, <1>1 DEF Answers, Messages, ListCode
<1>5. Fills(w, Answers, <<m, n>>)
  <2>1. 6 \in 1 .. Len(w) /\ 9 \in 1 .. Len(w) /\ 6 < 9 /\ w[6] = m /\ w[9] = n
    BY DEF ListCode
  <2> QED BY <1>4, <2>1 DEF Fills
<1>6. Has(w, "clear") /\ Has(w, "new")
  BY DEF Has, ListCode
<1>7. \A s \in {"PASS", "226", "callbacks", "connected", "line"} : ~Has(w, s)
  BY <1>1 DEF Has, ListCode
<1> QED BY <1>2, <1>3, <1>5, <1>6, <1>7 DEF CodeOK

LEMMA LoginReplies ==
  /\ CodeOK(CmdUser) /\ Fills(CmdUser, Answers, <<"331">>)
  /\ CodeOK(CmdPass) /\ Fills(CmdPass, Answers, <<"230">>)
  /\ \A s \in {"LIST", "226", "callbacks", "connected", "line"} :
       ~Has(CmdUser, s) /\ ~Has(CmdPass, s)
<1>1. CodeOK(CmdUser) /\ Fills(CmdUser, Answers, <<"331">>)
  <2>. DEFINE w == <<"331", "eCtr", "write", "restart", "PASS">>
  <2>1. w \in Seq(Statements) /\ \A i \in 1 .. Len(w) : i \in {1, 2, 3, 4, 5}
    BY DEF Statements, Messages
  <2>2. \A i \in 1 .. Len(w) : w[i] = "write" => i > 2 /\ Paired(w[i - 2], w[i - 1])
    BY <2>1 DEF Paired, Messages, Ends
  <2>3. ShapeOK(w)
    BY <2>1 DEF ShapeOK, Has, Messages, Ends
  <2>4. \A k \in 1 .. Len(w) : w[k] \in Answers <=> k = 1
    BY <2>1 DEF Answers, Messages
  <2>5. Fills(w, Answers, <<"331">>)
    BY <2>4 DEF Fills
  <2> QED BY <2>2, <2>3, <2>5, UserCode DEF CodeOK
<1>2. CodeOK(CmdPass) /\ Fills(CmdPass, Answers, <<"230">>)
  <2>. DEFINE w == <<"230", "eCtr", "write", "IDLE">>
  <2>1. w \in Seq(Statements) /\ \A i \in 1 .. Len(w) : i \in {1, 2, 3, 4}
    BY DEF Statements, Messages
  <2>2. \A i \in 1 .. Len(w) : w[i] = "write" => i > 2 /\ Paired(w[i - 2], w[i - 1])
    BY <2>1 DEF Paired, Messages, Ends
  <2>3. ShapeOK(w)
    BY <2>1 DEF ShapeOK, Has, Messages, Ends
  <2>4. \A k \in 1 .. Len(w) : w[k] \in Answers <=> k = 1
    BY <2>1 DEF Answers, Messages
  <2>5. Fills(w, Answers, <<"230">>)
    BY <2>4 DEF Fills
  <2> QED BY <2>2, <2>3, <2>5, PassCode DEF CodeOK
<1>3. \A s \in {"LIST", "226", "callbacks", "connected", "line"} :
        ~Has(CmdUser, s) /\ ~Has(CmdPass, s)
  BY UserCode, PassCode DEF Has
<1> QED BY <1>1, <1>2, <1>3

\* What lwIP has the server do when the client connects.
LEMMA GreetingReply ==
  /\ CodeOK(Greeting) /\ Fills(Greeting, Answers, <<"220">>)
  /\ \A s \in {"LIST", "PASS", "new", "226", "connected"} : ~Has(Greeting, s)
<1>1. Greeting \in Seq(Statements) /\ \A i \in 1 .. Len(Greeting) : i \in {1, 2, 3, 4}
  BY DEF Statements, Messages, Greeting
<1>2. \A i \in 1 .. Len(Greeting) :
        Greeting[i] = "write" => i > 2 /\ Paired(Greeting[i - 2], Greeting[i - 1])
  BY <1>1 DEF Paired, Messages, Ends, Greeting
<1>3. ShapeOK(Greeting)
  BY <1>1 DEF ShapeOK, Has, Messages, Ends, Greeting
<1>4. \A k \in 1 .. Len(Greeting) : Greeting[k] \in Answers <=> k = 2
  BY <1>1 DEF Answers, Messages, Greeting
<1>5. Fills(Greeting, Answers, <<"220">>)
  <2>1. 2 \in 1 .. Len(Greeting) /\ Greeting[2] = "220"
    BY DEF Greeting
  <2> QED BY <1>4, <2>1 DEF Fills
<1>6. \A s \in {"LIST", "PASS", "new", "226", "connected"} : ~Has(Greeting, s)
  BY <1>1 DEF Has, Greeting
<1> QED BY <1>2, <1>3, <1>5, <1>6 DEF CodeOK

\* What a poll does.
LEMMA PollReplies ==
  /\ CodeOK(Completion) /\ Fills(Completion, Answers, <<"226", "250">>)
  /\ \A s \in {"LIST", "PASS", "IDLE", "new", "callbacks", "connected"} :
       ~Has(Completion, s) /\ ~Has(Lines, s)
  /\ CodeOK(Lines) /\ Fills(Lines, Answers, <<>>)
  /\ Fills(Lines, {"line"}, <<"line", "line">>) /\ ~Has(Lines, "226")
<1>1. CodeOK(Completion) /\ Fills(Completion, Answers, <<"226", "250">>)
  <2>. DEFINE w == Completion
  <2>1. w \in Seq(Statements) /\ \A i \in 1 .. Len(w) : i \in {1, 2, 3, 4, 5, 6}
    BY DEF Statements, Messages, Completion
  <2>2. \A i \in 1 .. Len(w) : w[i] = "write" => i > 2 /\ Paired(w[i - 2], w[i - 1])
    BY <2>1 DEF Paired, Messages, Ends, Completion
  <2>3. ShapeOK(w)
    BY <2>1 DEF ShapeOK, Has, Messages, Ends, Completion
  <2>4. \A k \in 1 .. Len(w) : w[k] \in Answers <=> k \in {1, 4}
    BY <2>1 DEF Answers, Messages, Completion
  <2>5. /\ 1 \in 1 .. Len(w) /\ 4 \in 1 .. Len(w) /\ 1 < 4
        /\ w[1] = "226" /\ w[4] = "250"
    BY DEF Completion
  <2>6. Fills(w, Answers, <<"226", "250">>)
    BY <2>4, <2>5 DEF Fills
  <2> QED BY <2>2, <2>3, <2>6 DEF CodeOK
<1>2. /\ CodeOK(Lines) /\ Fills(Lines, Answers, <<>>)
      /\ Fills(Lines, {"line"}, <<"line", "line">>) /\ ~Has(Lines, "226")
  <2>. DEFINE w == Lines
  <2>1. w \in Seq(Statements) /\ \A i \in 1 .. Len(w) : i \in {1, 2, 3, 4, 5, 6}
    BY DEF Statements, Messages, Lines
  <2>2. \A i \in 1 .. Len(w) : w[i] = "write" => i > 2 /\ Paired(w[i - 2], w[i - 1])
    BY <2>1 DEF Paired, Messages, Ends, Lines
  <2>3. ShapeOK(w)
    BY <2>1 DEF ShapeOK, Has, Messages, Ends, Lines
  <2>4. \A k \in 1 .. Len(w) : w[k] \in {"line"} <=> k \in {1, 4}
    BY <2>1 DEF Lines
  <2>5. /\ 1 \in 1 .. Len(w) /\ 4 \in 1 .. Len(w) /\ 1 < 4
        /\ w[1] = "line" /\ w[4] = "line"
    BY DEF Lines
  <2>6. Fills(w, {"line"}, <<"line", "line">>)
    BY <2>4, <2>5 DEF Fills
  <2>7. \A k \in 1 .. Len(w) : w[k] \notin Answers /\ w[k] # "226"
    BY <2>1 DEF Lines, Answers, Messages
  <2> QED BY <2>2, <2>3, <2>6, <2>7 DEF CodeOK, Fills, Has
<1>3. \A s \in {"LIST", "PASS", "IDLE", "new", "callbacks", "connected"} :
        ~Has(Completion, s) /\ ~Has(Lines, s)
  BY DEF Has, Completion, Lines
<1> QED BY <1>1, <1>2, <1>3

Lists == {"LIST", "NLST"}
Ending(c) == IF c \in Lists THEN <<"226", "250">> ELSE <<>>

\* A command of the shape answers what Replies says, or has a poll do so.
Answered(w, c) ==
  /\ CodeOK(w)
  /\ \A s \in {"226", "callbacks", "connected", "line"} : ~Has(w, s)
  /\ \E s \in Bursts : Fills(w, Answers, s) /\ Replies(c) = s \o Ending(c)
  /\ Has(w, "LIST") => /\ c \in Lists
                       /\ Has(w, "clear") /\ Has(w, "new") /\ ~Has(w, "PASS")

LEMMA NoStatements == CodeOK(<<>>) /\ \A M : Fills(<<>>, M, <<>>)
BY DEF CodeOK, ShapeOK, Fills

LEMMA CommandAnswers ==
  ASSUME NEW c
  PROVE  Answered(Command(c), c)
<1>1. ASSUME NEW m \in Answers, m # "226", Command(c) = SendMsg(m),
             Replies(c) = <<m>>, c \notin Lists
      PROVE  Answered(Command(c), c)
  <2>1. m \in Messages /\ <<m>> \in Bursts
    BY BurstType DEF Answers
  <2>2. <<m>> \o Ending(c) = <<m>>
    BY <1>1, <2>1, ConcatEmptySeq DEF Ending
  <2> QED BY <1>1, <2>1, <2>2, OneReply DEF Answered
<1>2. ASSUME c = "USER" PROVE Answered(Command(c), c)
  <2>1. <<"331">> \in Bursts
    BY BurstType DEF Messages
  <2>2. <<"331">> \o Ending(c) = <<"331">>
    BY <1>2, <2>1, BurstType, ConcatEmptySeq DEF Ending, Lists
  <2>3. Command(c) = CmdUser /\ Replies(c) = <<"331">>
    BY <1>2 DEF Command, Replies
  <2> QED BY <2>1, <2>2, <2>3, LoginReplies DEF Answered
<1>3. ASSUME c = "PASS" PROVE Answered(Command(c), c)
  <2>1. <<"230">> \in Bursts
    BY BurstType DEF Messages
  <2>2. <<"230">> \o Ending(c) = <<"230">>
    BY <1>3, <2>1, BurstType, ConcatEmptySeq DEF Ending, Lists
  <2>3. Command(c) = CmdPass /\ Replies(c) = <<"230">>
    BY <1>3 DEF Command, Replies
  <2> QED BY <2>1, <2>2, <2>3, LoginReplies DEF Answered
<1>4. ASSUME NEW m \in {"125", "150"}, NEW n \in {"125", "150"}, m # n,
             Command(c) = ListCode(m, n), Replies(c) = <<m, n, "226", "250">>,
             c \in Lists
      PROVE  Answered(Command(c), c)
  <2>1. m \in Messages /\ n \in Messages /\ <<m, n>> \in Bursts
    BY BurstType DEF Messages
  <2>2. <<m, n>> \o Ending(c) = <<m, n, "226", "250">>
    <3>. DEFINE a == <<m, n>>
                b == <<"226", "250">>
                w == <<m, n, "226", "250">>
    <3>1. a \in Seq(Messages) /\ b \in Seq(Messages) /\ w \in Seq(Messages)
      BY <2>1 DEF Messages
    <3>2. /\ Len(w) = Len(a) + Len(b)
          /\ \A i \in 1 .. Len(a) : w[i] = a[i]
          /\ \A i \in 1 .. Len(b) : w[Len(a) + i] = b[i]
      OBVIOUS
    <3>3. a \o b = w
      <4>. HIDE DEF a, b, w
      <4> QED BY <3>1, <3>2, Joined
    <3> QED BY <1>4, <3>3 DEF Ending
  <2> QED BY <1>4, <2>1, <2>2, ListReplies DEF Answered
<1>5. ASSUME c = "LIST" PROVE Answered(Command(c), c)
  <2>1. Command(c) = ListCode("150", "125") /\ Replies(c) = <<"150", "125", "226", "250">>
    BY <1>5, ListCodes DEF Command, Replies, CmdList, Messages
  <2> QED BY <1>4, <1>5, <2>1 DEF Lists
<1>6. ASSUME c = "NLST" PROVE Answered(Command(c), c)
  <2>1. Command(c) = ListCode("125", "150") /\ Replies(c) = <<"125", "150", "226", "250">>
    BY <1>6, ListCodes DEF Command, Replies, CmdNlst, Messages
  <2> QED BY <1>4, <1>6, <2>1 DEF Lists
<1>7. ASSUME c = "NOOP" PROVE Answered(Command(c), c)
  <2>1. Command(c) = <<>> /\ Replies(c) = <<>> /\ Ending(c) = <<>>
    BY <1>7 DEF Command, Replies, Ending, Lists
  <2>2. <<>> \o <<>> = <<>>
    BY BurstType, ConcatEmptySeq
  <2> QED BY <2>1, <2>2, NoStatements, BurstType, HasEmpty DEF Answered
<1>8. CASE c \in {"PORT", "CWD", "PWD", "SYST", "TYPE"}
  <2>1. PICK m \in {"200", "250", "257", "214", "502"} :
          Command(c) = SendMsg(m) /\ Replies(c) = <<m>>
    BY <1>8 DEF Command, Replies, CmdPort, CmdCwd, CmdPwd, CmdSyst, CmdType
  <2>2. m \in Answers /\ m # "226" /\ c \notin Lists
    BY <1>8 DEF Answers, Messages, Lists
  <2> QED BY <1>1, <2>1, <2>2
<1>9. CASE c \notin {"USER", "PASS", "LIST", "NLST", "NOOP", "PORT", "CWD", "PWD",
                     "SYST", "TYPE"}
  <2>1. Command(c) = SendMsg("500") /\ Replies(c) = <<"500">> /\ c \notin Lists
    BY <1>9 DEF Command, Replies, Lists
  <2>2. "500" \in Answers
    BY DEF Answers, Messages
  <2> QED BY <1>1, <2>1, <2>2
<1> QED BY <1>2, <1>3, <1>5, <1>6, <1>7, <1>8, <1>9

LEMMA PollCode ==
  ASSUME NEW n \in Nat
  PROVE  NextDirectory(n) = IF n < Rounds THEN Lines
                            ELSE IF n = Rounds + 1 THEN Completion ELSE <<>>
BY LinesCode, CompletionCode DEF NextDirectory

LEMMA PollOK ==
  ASSUME NEW n \in Nat
  PROVE  CodeOK(NextDirectory(n))
BY PollCode, PollReplies, NoStatements

LEMMA ReplyType ==
  ASSUME NEW c
  PROVE  Replies(c) \in Seq(Messages)
<1>1. PICK s \in Bursts : Replies(c) = s \o Ending(c)
  BY CommandAnswers DEF Answered
<1>2. s \in Seq(Messages) /\ Ending(c) \in Seq(Messages)
  BY BurstType DEF Ending, Messages
<1> QED BY <1>1, <1>2, ConcatProperties

USE FtpAssumption

-----------------------------------------------------------------------------
(* Types, for any two threads.                                              *)

LEMMA CodeType ==
  ASSUME NEW w, CodeOK(w)
  PROVE  w \in Seq(Statements)
BY DEF CodeOK, ShapeOK

\* buffer is empty only until the first reply, and is not written before that.
Filled ==
  buffer = "" => \A t \in Threads : \A i \in 1 .. Len(work[t]) :
    work[t][i] = "write" => \E j \in 1 .. i - 1 : work[t][j] \in Messages

TypeInv == TypeOK /\ Filled

PcbRecord == [use : {"free", "control", "data", "closed"}, open : BOOLEAN,
              recv : BOOLEAN, poll : BOOLEAN, got : Seq(Messages)]

LEMMA FreeType ==
  /\ Free \in PcbRecord
  /\ [Free EXCEPT !.use = "data"] \in PcbRecord
  /\ [Free EXCEPT !.use = "control", !.open = TRUE] \in PcbRecord
<1>1. Free \in PcbRecord
  BY DEF Free, PcbRecord
<1> QED BY <1>1 DEF PcbRecord

LEMMA OpenType ==
  ASSUME NEW c \in [Pcbs -> PcbRecord], NEW p \in Pcbs, NEW b \in BOOLEAN
  PROVE  [c EXCEPT ![p].open = b] \in [Pcbs -> PcbRecord]
<1>1. c[p] \in PcbRecord
  OBVIOUS
<1>2. [c[p] EXCEPT !.open = b] \in PcbRecord
  BY <1>1, SMTT(30) DEF PcbRecord
<1>3. [c EXCEPT ![p].open = b] = [c EXCEPT ![p] = [c[p] EXCEPT !.open = b]]
  BY <1>1
<1> QED BY <1>2, <1>3

LEMMA DroppedType ==
  ASSUME NEW c \in [Pcbs -> PcbRecord], NEW p \in Pcbs
  PROVE  [c EXCEPT ![p].use = "closed", ![p].open = FALSE] \in [Pcbs -> PcbRecord]
<1>. DEFINE d == [c EXCEPT ![p].use = "closed"]
<1>1. d \in [Pcbs -> PcbRecord]
  <2>1. [c[p] EXCEPT !.use = "closed"] \in PcbRecord
    BY SMTT(30) DEF PcbRecord
  <2>2. d = [c EXCEPT ![p] = [c[p] EXCEPT !.use = "closed"]]
    OBVIOUS
  <2> QED BY <2>1, <2>2
<1>2. [d EXCEPT ![p].open = FALSE] \in [Pcbs -> PcbRecord]
  BY <1>1, OpenType
<1>3. [c EXCEPT ![p].use = "closed", ![p].open = FALSE] = [d EXCEPT ![p].open = FALSE]
  OBVIOUS
<1> QED BY <1>2, <1>3

LEMMA InitType == Init => TypeInv
<1>. SUFFICES ASSUME Init PROVE TypeInv
  OBVIOUS
<1>1. conn \in [Pcbs -> PcbRecord]
  BY FreeType DEF Init
<1>2. work \in [Threads -> Seq(Statements)]
  <2>1. <<>> \in Seq(Statements)
    BY NoStatements, CodeType
  <2> QED BY <2>1 DEF Init
<1>3. TypeOK
  <2>1. <<>> \in Seq(Messages)
    OBVIOUS
  <2>2. 0 \in 0 .. Rounds + 2 /\ 0 \in 0 .. Window /\ 0 \in 0 .. Faults + 1
    OBVIOUS
  <2> QED BY <1>1, <1>2, <2>1, <2>2 DEF Init, TypeOK, PcbRecord
<1>4. Filled
  <2>1. \A t \in Threads : Len(work[t]) = 0
    BY DEF Init
  <2>2. \A t \in Threads : 1 .. Len(work[t]) = {}
    BY <2>1
  <2> QED BY <2>2 DEF Filled
<1> QED BY <1>3, <1>4 DEF TypeInv

\* What is common to the statements.
LEMMA StepType ==
  ASSUME TypeOK, NEW t \in Threads, NEW S, Step(t, S)
  PROVE  /\ work[t] \in Seq(Statements) /\ work[t] # <<>>
         /\ Head(work[t]) \in S /\ Head(work[t]) \in Statements
         /\ work' \in [Threads -> Seq(Statements)]
         /\ UNCHANGED <<recBuf, owed, window>>
<1>1. work \in [Threads -> Seq(Statements)] /\ work[t] # <<>>
  BY DEF TypeOK, Step
<1>2. Tail(work[t]) \in Seq(Statements) /\ Head(work[t]) \in Statements
  BY <1>1, Rest
<1> QED BY <1>1, <1>2 DEF Step

LEMMA SelectedType ==
  ASSUME TypeOK
  PROVE  Selected \in Pcbs \cup {Listen}
BY DEF TypeOK, Selected

LEMMA AbortType ==
  ASSUME TypeOK, NEW p \in Pcbs, Aborts(p)
  PROVE  faults' \in 0 .. Faults + 1
<1>1. faults \in 0 .. Faults + 1
  BY DEF TypeOK
<1>2. faults <= Faults => faults + 1 \in 0 .. Faults + 1
  BY <1>1
<1> QED BY <1>1, <1>2 DEF Aborts

LEMMA NextTypes == TypeInv /\ [Next]_vars => TypeOK'
<1>. SUFFICES ASSUME TypeOK, Filled, [Next]_vars PROVE TypeOK'
  BY DEF TypeInv
<1>. USE DEF PcbRecord
<1>1. CASE UNCHANGED vars
  BY <1>1 DEF TypeOK, vars, server, client
<1>2. ASSUME NEW t \in Threads, Fill(t) PROVE TypeOK'
  <2>1. Step(t, Messages) /\ UNCHANGED faults
    BY <1>2 DEF Fill, At
  <2> QED BY <1>2, <2>1, StepType DEF Fill, TypeOK
<1>3. ASSUME NEW t \in Threads, Select(t) PROVE TypeOK'
  <2>1. Step(t, {"eCtr", "eMsg"}) /\ UNCHANGED faults
    BY <1>3 DEF Select, At
  <2> QED BY <1>3, <2>1, StepType DEF Select, TypeOK
<1>4. ASSUME NEW t \in Threads, Assign(t) PROVE TypeOK'
  <2>. DEFINE S == {"clear", "connected", "connect", "restart", "PASS", "IDLE", "LIST"}
  <2>1. Step(t, S) /\ UNCHANGED faults
    BY <1>4 DEF Assign, At
  <2>2. 0 \in 0 .. Rounds + 2
    OBVIOUS
  <2>3. /\ bConnect' \in BOOLEAN /\ msgcount' \in 0 .. Rounds + 2
        /\ state' \in {"USER", "PASS", "IDLE", "LIST"}
    BY <1>4, <2>2 DEF Assign, TypeOK
  <2> QED BY <1>4, <2>1, <2>3, StepType DEF Assign, TypeOK
<1>5. ASSUME NEW t \in Threads, Callbacks(t) PROVE TypeOK'
  <2>1. Step(t, {"callbacks"}) /\ UNCHANGED faults
    BY <1>5 DEF Callbacks, At
  <2>2. conn' \in [Pcbs -> PcbRecord]
    <3>1. conn \in [Pcbs -> PcbRecord]
      BY DEF TypeOK
    <3>2. CASE UNCHANGED conn
      BY <3>1, <3>2
    <3>3. CASE /\ Selected \in Pcbs
               /\ conn' = [conn EXCEPT ![Selected].recv = TRUE, ![Selected].poll = TRUE]
      BY <3>1, <3>3
    <3> QED BY <1>5, <3>2, <3>3 DEF Callbacks
  <2> QED BY <1>5, <2>1, <2>2, StepType DEF Callbacks, TypeOK, server
<1>6. ASSUME NEW t \in Threads, Write(t) PROVE TypeOK'
  <2>1. Step(t, {"write"})
    BY <1>6 DEF Write
  <2>2. conn' \in [Pcbs -> PcbRecord]
    <3>1. conn \in [Pcbs -> PcbRecord]
      BY DEF TypeOK
    <3>2. CASE UNCHANGED conn
      BY <3>1, <3>2
    <3>3. CASE /\ Selected \in Pcbs
               /\ conn' = [conn EXCEPT ![Selected].got = Append(@, buffer)]
      <4>1. work[t] \in Seq(Statements) /\ Head(work[t]) = "write" /\ work[t] # <<>>
        BY <2>1, StepType
      <4>2. 1 \in 1 .. Len(work[t]) /\ work[t][1] = "write"
        BY <4>1
      <4>3. ~\E j \in 1 .. 1 - 1 : work[t][j] \in Messages
        OBVIOUS
      <4>4. buffer # ""
        BY <4>2, <4>3 DEF Filled
      <4>5. buffer \in Messages
        BY <4>4 DEF TypeOK
      <4>6. Append(conn[Selected].got, buffer) \in Seq(Messages)
        BY <3>1, <3>3, <4>5
      <4> QED BY <3>1, <3>3, <4>6
    <3> QED BY <1>6, <3>2, <3>3 DEF Write
  <2>3. faults' \in 0 .. Faults + 1
    <3>1. faults \in 0 .. Faults + 1
      BY DEF TypeOK
    <3>2. faults < Faults => faults + 1 \in 0 .. Faults + 1
      BY <3>1
    <3> QED BY <1>6, <3>1, <3>2 DEF Write
  <2> QED BY <1>6, <2>1, <2>2, <2>3, StepType DEF Write, TypeOK, server
<1>7. ASSUME NEW t \in Threads, New(t) PROVE TypeOK'
  <2>1. Step(t, {"new"})
    BY <1>7 DEF New
  <2>2. PICK p \in Pcbs :
          /\ Aborts(p) /\ conn' = [conn EXCEPT ![p] = [Free EXCEPT !.use = "data"]]
          /\ ftpRAWDataMsg' = p /\ mine' = IF p = mine THEN Listen ELSE mine
    BY <1>7 DEF New, Allocatable
  <2> QED BY <1>7, <2>1, <2>2, StepType, FreeType, AbortType DEF New, TypeOK
<1>8. CASE Accept
  <2>1. PICK p \in Pcbs :
          /\ Aborts(p)
          /\ conn' = [conn EXCEPT ![p] = [Free EXCEPT !.use = "control", !.open = TRUE]]
          /\ mine' = p /\ ftpRAWControl' = p
    BY <1>8 DEF Accept, Allocatable
  <2>2. work' = [work EXCEPT ![InputThread] = Greeting]
    BY <1>8, GreetingCode DEF Accept, Calls
  <2>3. Greeting \in Seq(Statements)
    BY GreetingReply, CodeType
  <2>4. work' \in [Threads -> Seq(Statements)]
    BY <2>2, <2>3 DEF TypeOK, Threads
  <2>5. conn' \in [Pcbs -> PcbRecord] /\ faults' \in 0 .. Faults + 1
    BY <2>1, FreeType, AbortType DEF TypeOK
  <2>6. owed' \in Seq(Messages) /\ window' \in 0 .. Window
    BY <1>8 DEF Accept, Messages
  <2> QED BY <1>8, <2>1, <2>4, <2>5, <2>6 DEF Accept, TypeOK
<1>9. ASSUME NEW c \in Commands, Send(c) PROVE TypeOK'
  <2>1. Command(c) \in Seq(Statements) /\ Replies(c) \in Seq(Messages)
    BY CommandAnswers, CodeType, ReplyType DEF Answered
  <2>2. CASE conn[mine].recv
    <3>1. /\ work' = [work EXCEPT ![InputThread] = Command(c)]
          /\ window > 0 /\ window' = window - 1 /\ recBuf' = c
          /\ UNCHANGED <<server, conn, mine, faults>> /\ owed' = Replies(c)
      BY <1>9, <2>2 DEF Send, Calls
    <3>2. window' \in 0 .. Window
      <4>1. window \in 0 .. Window
        BY DEF TypeOK
      <4>2. window - 1 \in 0 .. Window
        BY <3>1, <4>1
      <4> QED BY <3>1, <4>2
    <3>3. work' \in [Threads -> Seq(Statements)]
      BY <2>1, <3>1 DEF TypeOK, Threads
    <3> QED BY <2>1, <3>1, <3>2, <3>3 DEF TypeOK, server
  <2>3. CASE ~conn[mine].recv
    BY <1>9, <2>1, <2>3 DEF Send, TypeOK, server
  <2> QED BY <2>2, <2>3
<1>10. CASE Read
  <2>1. conn \in [Pcbs -> PcbRecord] /\ owed \in Seq(Messages) /\ mine \in Pcbs
    BY <1>10 DEF Read, TypeOK
  <2>2. /\ owed # <<>> /\ conn[mine].got # <<>> /\ owed' = Tail(owed)
        /\ conn' = [conn EXCEPT ![mine].got = Tail(@)]
    BY <1>10 DEF Read
  <2>3. owed' \in Seq(Messages)
    BY <2>1, <2>2
  <2>4. conn' \in [Pcbs -> PcbRecord]
    <3>1. Tail(conn[mine].got) \in Seq(Messages)
      BY <2>1, <2>2
    <3> QED BY <2>1, <2>2, <3>1
  <2> QED BY <1>10, <2>3, <2>4 DEF Read, TypeOK, server
<1>11. ASSUME NEW p \in Pcbs, Poll(p) PROVE TypeOK'
  <2>1. ASSUME NEW n \in Nat PROVE NextDirectory(n) \in Seq(Statements)
    BY PollOK, CodeType
  <2>2. CASE bConnect /\ state = "LIST"
    <3>. DEFINE n == IF msgcount < Rounds + 2 THEN msgcount + 1 ELSE msgcount
    <3>1. n \in 0 .. Rounds + 2 /\ n \in Nat
      <4>1. msgcount \in 0 .. Rounds + 2
        BY DEF TypeOK
      <4> QED BY <4>1
    <3>2. msgcount' = n /\ work' = [work EXCEPT ![TimerThread] = NextDirectory(n)]
      BY <1>11, <2>2 DEF Poll, Calls
    <3>. HIDE DEF n
    <3>3. work' \in [Threads -> Seq(Statements)]
      BY <2>1, <3>1, <3>2 DEF TypeOK, Threads
    <3>4. msgcount' \in 0 .. Rounds + 2
      BY <3>1, <3>2
    <3> QED BY <1>11, <3>3, <3>4 DEF Poll, TypeOK, client
  <2>3. CASE ~(bConnect /\ state = "LIST")
    <3>1. work' = [work EXCEPT ![TimerThread] = <<>>] /\ UNCHANGED msgcount
      BY <1>11, <2>3 DEF Poll, Calls
    <3>2. work' \in [Threads -> Seq(Statements)]
      BY <3>1, NoStatements, CodeType DEF TypeOK
    <3> QED BY <1>11, <3>1, <3>2 DEF Poll, TypeOK, client
  <2> QED BY <2>2, <2>3
<1>12. ASSUME NEW p \in Pcbs, DataOpen(p) PROVE TypeOK'
  <2>1. <<"connected">> \in Seq(Statements)
    BY DEF Statements
  <2>2. work' \in [Threads -> Seq(Statements)]
    BY <1>12, <2>1 DEF DataOpen, Calls, TypeOK, Threads
  <2>3. conn' \in [Pcbs -> PcbRecord]
    BY <1>12, OpenType DEF DataOpen, TypeOK
  <2> QED BY <1>12, <2>2, <2>3 DEF DataOpen, TypeOK, server, client
<1>13. ASSUME NEW p \in Pcbs, DataClose(p) PROVE TypeOK'
  <2>1. faults' \in 0 .. Faults + 1
    <3>1. faults \in 0 .. Faults + 1 /\ faults < Faults
      BY <1>13 DEF DataClose, TypeOK
    <3>2. faults + 1 \in 0 .. Faults + 1
      BY <3>1
    <3> QED BY <1>13, <3>2 DEF DataClose
  <2>2. /\ conn' \in [Pcbs -> PcbRecord]
        /\ work' \in [Threads -> Seq(Statements)]
    <3>1. CASE conn' = [conn EXCEPT ![p] = Free] /\ UNCHANGED work
      BY <3>1, FreeType DEF TypeOK
    <3>2. CASE /\ conn' = [conn EXCEPT ![p].use = "closed", ![p].open = FALSE]
               /\ work' = [work EXCEPT ![InputThread] = Command(recBuf)]
      <4>1. Command(recBuf) \in Seq(Statements)
        BY CommandAnswers, CodeType DEF Answered
      <4>2. work' \in [Threads -> Seq(Statements)]
        BY <3>2, <4>1 DEF TypeOK, Threads
      <4>3. conn' \in [Pcbs -> PcbRecord]
        BY <3>2, DroppedType DEF TypeOK
      <4> QED BY <4>2, <4>3
    <3> QED BY <1>13, <3>1, <3>2 DEF DataClose, Calls
  <2> QED BY <1>13, <2>1, <2>2 DEF DataClose, TypeOK, server
<1>14. CASE Fin
  <2>1. Command(recBuf) \in Seq(Statements)
    BY CommandAnswers, CodeType DEF Answered
  <2>2. faults' \in 0 .. Faults + 1
    <3>1. faults \in 0 .. Faults + 1 /\ faults < Faults
      BY <1>14 DEF Fin, TypeOK
    <3>2. faults + 1 \in 0 .. Faults + 1
      BY <3>1
    <3> QED BY <1>14, <3>2 DEF Fin
  <2>3. /\ conn' \in [Pcbs -> PcbRecord]
        /\ work' \in [Threads -> Seq(Statements)]
    <3>1. CASE conn[mine].recv
      <4>1. /\ work' = [work EXCEPT ![InputThread] = Command(recBuf)]
            /\ conn' = [conn EXCEPT ![mine].open = FALSE]
        BY <1>14, <3>1 DEF Fin, Calls
      <4>2. work' \in [Threads -> Seq(Statements)]
        BY <2>1, <4>1 DEF TypeOK, Threads
      <4>3. conn' \in [Pcbs -> PcbRecord]
        BY <1>14, <4>1, OpenType DEF Fin, TypeOK
      <4> QED BY <4>2, <4>3
    <3>2. CASE ~conn[mine].recv
      BY <1>14, <3>2, FreeType DEF Fin, TypeOK
    <3> QED BY <3>1, <3>2
  <2>4. mine' = Listen /\ owed' = <<>> /\ owed' \in Seq(Messages)
    BY <1>14 DEF Fin
  <2> QED BY <1>14, <2>2, <2>3, <2>4 DEF Fin, TypeOK, server
<1> QED
  BY <1>1, <1>2, <1>3, <1>4, <1>5, <1>6, <1>7, <1>8, <1>9, <1>10, <1>11, <1>12,
     <1>13, <1>14 DEF Next, Statement

LEMMA FilledTail ==
  ASSUME NEW w \in Seq(Statements), w # <<>>, Head(w) \notin Messages,
         \A k \in 1 .. Len(w) :
           w[k] = "write" => \E j \in 1 .. k - 1 : w[j] \in Messages,
         NEW i \in 1 .. Len(Tail(w)), Tail(w)[i] = "write"
  PROVE  \E j \in 1 .. i - 1 : Tail(w)[j] \in Messages
<1>. DEFINE v == Tail(w)
<1>1. /\ Len(v) = Len(w) - 1 /\ Len(w) \in Nat /\ Head(w) = w[1]
      /\ \A k \in 1 .. Len(v) : k + 1 \in 1 .. Len(w) /\ v[k] = w[k + 1]
  BY Rest
<1>. HIDE DEF v
<1>2. i \in 1 .. Len(v) /\ v[i] = "write"
  BY DEF v
<1>3. i + 1 \in 1 .. Len(w) /\ w[i + 1] = "write" /\ (i + 1) - 1 = i /\ i \in Nat
  BY <1>1, <1>2
<1>4. PICK j \in 1 .. i : w[j] \in Messages
  <2>1. \E j \in 1 .. (i + 1) - 1 : w[j] \in Messages
    BY <1>3
  <2> QED BY <1>3, <2>1
<1>5. j # 1
  BY <1>1, <1>4
<1>6. j - 1 \in 1 .. i - 1 /\ j - 1 \in 1 .. Len(v) /\ (j - 1) + 1 = j
  BY <1>1, <1>2, <1>3, <1>4, <1>5
<1>7. v[j - 1] \in Messages
  <2>1. v[j - 1] = w[(j - 1) + 1]
    BY <1>1, <1>6
  <2> QED BY <1>4, <1>6, <2>1
<1> QED BY <1>6, <1>7 DEF v

LEMMA FilledRest ==
  ASSUME TypeInv, NEW t \in Threads, NEW S, Step(t, S),
         Head(work[t]) \notin Messages, UNCHANGED buffer
  PROVE  Filled'
<1>1. /\ work[t] \in Seq(Statements) /\ work[t] # <<>>
      /\ work \in [Threads -> Seq(Statements)]
      /\ work' = [work EXCEPT ![t] = Tail(@)]
  BY StepType DEF TypeInv, TypeOK, Step
<1>. SUFFICES ASSUME buffer = "", NEW r \in Threads, NEW i \in 1 .. Len(work'[r]),
                     work'[r][i] = "write"
              PROVE  \E j \in 1 .. i - 1 : work'[r][j] \in Messages
  BY DEF Filled
<1>2. CASE r # t
  BY <1>1, <1>2 DEF TypeInv, Filled
<1>3. CASE r = t
  <2>1. work'[r] = Tail(work[t])
    BY <1>1, <1>3
  <2>2. \A k \in 1 .. Len(work[t]) :
          work[t][k] = "write" => \E j \in 1 .. k - 1 : work[t][j] \in Messages
    BY DEF TypeInv, Filled
  <2> QED BY <1>1, <2>1, <2>2, FilledTail
<1> QED BY <1>2, <1>3

\* A callback that begins fills buffer before it writes.
LEMMA FilledCode ==
  ASSUME TypeInv, NEW t \in Threads, NEW w, CodeOK(w) \/ w = <<"connected">>,
         work' = [work EXCEPT ![t] = w], UNCHANGED buffer
  PROVE  Filled'
<1>1. ASSUME NEW i \in 1 .. Len(w), w[i] = "write"
      PROVE  \E j \in 1 .. i - 1 : w[j] \in Messages
  <2>1. CASE w = <<"connected">>
    BY <1>1, <2>1
  <2>2. CASE CodeOK(w)
    <3>1. i > 2 /\ w[i - 2] \in Messages
      BY <1>1, <2>2 DEF CodeOK, Paired
    <3>2. i - 2 \in 1 .. i - 1
      BY <3>1
    <3> QED BY <3>1, <3>2
  <2> QED BY <2>1, <2>2
<1>2. work \in [Threads -> Seq(Statements)]
  BY DEF TypeInv, TypeOK
<1> QED BY <1>1, <1>2 DEF TypeInv, Filled

LEMMA NextFilled == TypeInv /\ [Next]_vars => Filled'
<1>. SUFFICES ASSUME TypeInv, [Next]_vars PROVE Filled'
  OBVIOUS
<1>0. Filled
  BY DEF TypeInv
<1>1. CASE UNCHANGED <<work, buffer>>
  BY <1>0, <1>1 DEF Filled
<1>2. ASSUME NEW t \in Threads, Statement(t) PROVE Filled'
  <2>1. CASE Fill(t)
    <3>1. buffer' \in Messages
      BY <2>1 DEF Fill, At, Step
    <3> QED BY <3>1 DEF Filled, Messages
  <2>2. CASE ~Fill(t)
    <3>1. PICK S : Step(t, S) /\ S \cap Messages = {} /\ UNCHANGED buffer
      <4>1. CASE Select(t)
        BY <4>1 DEF Select, At, Messages
      <4>2. CASE Write(t)
        BY <4>2 DEF Write, Messages, server
      <4>3. CASE New(t)
        BY <4>3 DEF New, Messages
      <4>4. CASE Callbacks(t)
        BY <4>4 DEF Callbacks, At, Messages, server
      <4>5. CASE Assign(t)
        BY <4>5 DEF Assign, At, Messages
      <4> QED BY <1>2, <2>2, <4>1, <4>2, <4>3, <4>4, <4>5 DEF Statement
    <3> QED BY <3>1, FilledRest DEF Step
  <2> QED BY <2>1, <2>2
<1>3. CASE Accept
  BY <1>3, GreetingCode, GreetingReply, FilledCode DEF Accept, Calls, Threads
<1>4. ASSUME NEW c \in Commands, Send(c) PROVE Filled'
  <2>1. CASE UNCHANGED work
    BY <1>0, <1>4, <2>1 DEF Send, server, Filled
  <2>2. CASE work' = [work EXCEPT ![InputThread] = Command(c)]
    BY <1>4, <2>2, CommandAnswers, FilledCode DEF Send, server, Answered, Threads
  <2> QED BY <1>4, <2>1, <2>2 DEF Send, Calls
<1>5. ASSUME NEW p \in Pcbs, Poll(p) PROVE Filled'
  <2>1. PICK w : CodeOK(w) /\ work' = [work EXCEPT ![TimerThread] = w]
    <3>. DEFINE n == IF msgcount < Rounds + 2 THEN msgcount + 1 ELSE msgcount
    <3>1. n \in Nat
      <4>1. msgcount \in 0 .. Rounds + 2
        BY DEF TypeInv, TypeOK
      <4> QED BY <4>1
    <3>2. \/ work' = [work EXCEPT ![TimerThread] = NextDirectory(n)]
          \/ work' = [work EXCEPT ![TimerThread] = <<>>]
      BY <1>5 DEF Poll, Calls
    <3>. HIDE DEF n
    <3> QED BY <3>1, <3>2, PollOK, NoStatements
  <2> QED BY <1>5, <2>1, FilledCode DEF Poll, Threads
<1>6. ASSUME NEW p \in Pcbs, DataOpen(p) PROVE Filled'
  BY <1>6, FilledCode DEF DataOpen, Calls, Threads, server
<1>7. CASE Fin
  <2>1. CASE UNCHANGED work
    BY <1>0, <1>7, <2>1 DEF Fin, server, Filled
  <2>2. CASE work' = [work EXCEPT ![InputThread] = Command(recBuf)]
    BY <1>7, <2>2, CommandAnswers, FilledCode DEF Fin, server, Answered, Threads
  <2> QED BY <1>7, <2>1, <2>2 DEF Fin, Calls
<1>8. ASSUME NEW p \in Pcbs, DataClose(p) PROVE Filled'
  <2>1. CASE UNCHANGED work
    BY <1>0, <1>8, <2>1 DEF DataClose, server, Filled
  <2>2. CASE work' = [work EXCEPT ![InputThread] = Command(recBuf)]
    BY <1>8, <2>2, CommandAnswers, FilledCode DEF DataClose, server, Answered, Threads
  <2> QED BY <1>8, <2>1, <2>2 DEF DataClose, Calls
<1>9. CASE UNCHANGED vars \/ Read
  BY <1>1, <1>9 DEF Read, vars, server
<1> QED BY <1>2, <1>3, <1>4, <1>5, <1>6, <1>7, <1>8, <1>9 DEF Next

LEMMA TypeAlways == Spec => []TypeInv
<1>1. TypeInv /\ [Next]_vars => TypeInv'
  BY NextTypes, NextFilled DEF TypeInv
<1> QED BY <1>1, InitType, PTL DEF Spec

\* Every variable keeps its type, whichever of the two threads runs when: what
\* ftp_writeData sends is a text that send_msg or send_data has put in buffer.
THEOREM TypeCorrect == Spec => []TypeOK
<1>1. TypeInv => TypeOK
  BY DEF TypeInv
<1> QED BY <1>1, TypeAlways, PTL

-----------------------------------------------------------------------------
(* One thread.                                                              *)

ConnType == conn \in [Pcbs -> PcbRecord]

\* A statement, as one thread executes it.
Executes ==
  /\ W # <<>> /\ W' = Tail(W)
  /\ buffer' = Text(Head(W), buffer)
  /\ ctrOrMsg' = Chosen(Head(W), ctrOrMsg)
  /\ bConnect' = IF Head(W) = "clear" THEN FALSE
                 ELSE IF Head(W) = "connected" THEN TRUE
                 ELSE bConnect
  /\ msgcount' = IF Head(W) = "restart" THEN 0 ELSE msgcount
  /\ state' = IF Head(W) \in {"PASS", "IDLE", "LIST"} THEN Head(W) ELSE state
  /\ UNCHANGED <<owed, ftpRAWControl>>
  /\ Head(W) # "new" => UNCHANGED <<ftpRAWDataMsg, mine>>
  /\ Head(W) \notin {"write", "new", "callbacks"} => UNCHANGED conn
  /\ Head(W) = "LIST" => begun'
  /\ Head(W) \notin {"LIST", "226"} => UNCHANGED begun
  /\ Head(W) = "write" /\ faults' = 0 =>
       IF Selected \in Pcbs /\ (conn[Selected].open \/ conn[Selected].use = "data")
       THEN conn' = [conn EXCEPT ![Selected].got = Append(@, buffer)]
       ELSE UNCHANGED conn
  /\ Head(W) = "callbacks" =>
       IF Selected \in Pcbs /\ conn[Selected].use # "free"
       THEN conn' = [conn EXCEPT ![Selected].recv = TRUE, ![Selected].poll = TRUE]
       ELSE UNCHANGED conn
  /\ Head(W) = "new" =>
       \E p \in Pcbs :
         /\ Aborts(p)
         /\ conn' = [conn EXCEPT ![p] = [Free EXCEPT !.use = "data"]]
         /\ ftpRAWDataMsg' = p
         /\ mine' = IF p = mine THEN Listen ELSE mine

LEMMA StatementExecutes ==
  ASSUME InputThread = TimerThread, TypeOK, NEW t \in Threads, Statement(t)
  PROVE  Executes
<1>1. t = InputThread
  BY DEF Threads
<1>2. \A S : Step(t, S) => /\ W # <<>> /\ W' = Tail(W) /\ Head(W) \in S
                           /\ UNCHANGED owed
  BY <1>1 DEF Step, W, TypeOK
<1>3. CASE Fill(t)
  <2>1. Head(W) \in Messages /\ W # <<>> /\ W' = Tail(W) /\ UNCHANGED owed
    BY <1>2, <1>3 DEF Fill, At
  <2>2. /\ Head(W) \notin Ends
        /\ Head(W) \notin {"clear", "connected", "restart", "PASS", "IDLE", "LIST",
                           "write", "new", "callbacks"}
    BY <2>1, Kinds DEF Messages
  <2>3. Head(W) \notin {"LIST", "226"} => UNCHANGED begun
    <3>1. Head(W) # "226" => begun' = (begun /\ TRUE)
      BY <1>1, <1>3 DEF Fill, W
    <3>2. begun \in BOOLEAN
      BY DEF TypeOK
    <3> QED BY <3>1, <3>2
  <2>4. /\ buffer' = Head(W)
        /\ UNCHANGED <<ctrOrMsg, ftpRAWControl, ftpRAWDataMsg, state, bConnect,
                       msgcount, conn, mine>>
    BY <1>1, <1>3 DEF Fill, W
  <2> QED BY <2>1, <2>2, <2>3, <2>4 DEF Executes, Text, Chosen
<1>4. CASE Select(t)
  <2>1. Head(W) \in Ends /\ W # <<>> /\ W' = Tail(W) /\ UNCHANGED owed
    BY <1>2, <1>4 DEF Select, At, Ends
  <2>2. /\ Head(W) \notin Messages
        /\ Head(W) \notin {"clear", "connected", "restart", "PASS", "IDLE", "LIST",
                           "write", "new", "callbacks"}
    BY <2>1 DEF Messages, Ends
  <2> QED BY <1>1, <1>4, <2>1, <2>2 DEF Select, W, Executes, Text, Chosen
<1>5. CASE Write(t)
  <2>1. Head(W) = "write" /\ W # <<>> /\ W' = Tail(W) /\ UNCHANGED owed
    BY <1>2, <1>5 DEF Write
  <2>2. faults' = 0 =>
          IF Selected \in Pcbs /\ (conn[Selected].open \/ conn[Selected].use = "data")
          THEN conn' = [conn EXCEPT ![Selected].got = Append(@, buffer)]
          ELSE UNCHANGED conn
    <3>1. faults \in 0 .. Faults + 1
      BY DEF TypeOK
    <3>2. faults + 1 # 0
      BY <3>1
    <3> QED BY <1>5, <3>2 DEF Write
  <2>3. UNCHANGED <<buffer, ctrOrMsg, ftpRAWControl, ftpRAWDataMsg, state, bConnect,
                    msgcount, begun, mine>>
    BY <1>5 DEF Write, server
  <2> QED BY <2>1, <2>2, <2>3, Kinds DEF Executes, Text, Chosen
<1>6. CASE New(t)
  <2>1. Head(W) = "new" /\ W # <<>> /\ W' = Tail(W) /\ UNCHANGED owed
    BY <1>2, <1>6 DEF New
  <2>2. Head(W) \notin Messages /\ Head(W) \notin Ends
    BY <2>1 DEF Messages, Ends
  <2>3. Allocatable \subseteq Pcbs
    BY DEF Allocatable
  <2>4. /\ UNCHANGED <<buffer, ctrOrMsg, ftpRAWControl, state, bConnect, msgcount, begun>>
        /\ \E p \in Pcbs :
             /\ Aborts(p)
             /\ conn' = [conn EXCEPT ![p] = [Free EXCEPT !.use = "data"]]
             /\ ftpRAWDataMsg' = p
             /\ mine' = IF p = mine THEN Listen ELSE mine
    BY <1>6, <2>3 DEF New
  <2> QED BY <2>1, <2>2, <2>4 DEF Executes, Text, Chosen
<1>7. CASE Callbacks(t)
  <2>1. Head(W) = "callbacks" /\ W # <<>> /\ W' = Tail(W) /\ UNCHANGED owed
    BY <1>2, <1>7 DEF Callbacks, At
  <2>2. Head(W) \notin Messages /\ Head(W) \notin Ends
    BY <2>1 DEF Messages, Ends
  <2> QED BY <1>7, <2>1, <2>2 DEF Callbacks, server, Executes, Text, Chosen
<1>8. CASE Assign(t)
  <2>1. /\ W # <<>> /\ W' = Tail(W) /\ UNCHANGED owed
        /\ Head(W) \in {"clear", "connected", "connect", "restart", "PASS", "IDLE", "LIST"}
    BY <1>2, <1>8 DEF Assign, At
  <2>2. /\ Head(W) \notin Messages /\ Head(W) \notin Ends
        /\ Head(W) \notin {"write", "new", "callbacks"}
    BY <2>1 DEF Messages, Ends
  <2>3. Head(work[t]) = Head(W)
    BY <1>1 DEF W
  <2>4. /\ Head(W) = "LIST" => begun'
        /\ Head(W) # "LIST" => UNCHANGED begun
    <3>1. Head(W) = "LIST" => begun' = (begun \/ TRUE)
      BY <1>8, <2>3 DEF Assign
    <3>2. Head(W) # "LIST" => begun' = (begun \/ FALSE)
      BY <1>8, <2>3 DEF Assign
    <3>3. begun \in BOOLEAN
      BY DEF TypeOK
    <3> QED BY <3>1, <3>2, <3>3
  <2>5. /\ bConnect' = IF Head(W) = "clear" THEN FALSE
                       ELSE IF Head(W) = "connected" THEN TRUE
                       ELSE bConnect
        /\ msgcount' = IF Head(W) = "restart" THEN 0 ELSE msgcount
        /\ state' = IF Head(W) \in {"PASS", "IDLE", "LIST"} THEN Head(W) ELSE state
        /\ UNCHANGED <<buffer, ctrOrMsg, ftpRAWControl, ftpRAWDataMsg, conn, mine>>
    BY <1>8, <2>3 DEF Assign
  <2> QED BY <2>1, <2>2, <2>4, <2>5 DEF Executes, Text, Chosen
<1> QED BY <1>3, <1>4, <1>5, <1>6, <1>7, <1>8 DEF Statement

\* No other callback begins before one has ended.
LEMMA CallOne ==
  ASSUME InputThread = TimerThread, TypeOK, NEW t \in Threads, NEW w, Calls(t, w)
  PROVE  W = <<>> /\ W' = w
BY DEF Calls, Threads, W, TypeOK

\* What the shape says of a first statement and the rest.
LEMMA FirstOf ==
  ASSUME NEW w, ShapeOK(w), w # <<>>
  PROVE  /\ Head(w) \in Statements /\ w \in Seq(Statements)
         /\ \A s : Has(w, s) <=> Head(w) = s \/ Has(Tail(w), s)
         /\ ~Has(Tail(w), "clear")
         /\ Has(w, "clear") \/ Has(w, "new") => Has(w, "LIST")
         /\ Head(w) = "new" => ~Has(Tail(w), "new")
         /\ Head(w) = "LIST" => ~Has(w, "new") /\ ~Has(Tail(w), "LIST")
         /\ Has(w, "LIST") => Head(w) \notin Messages \cup {"write"}
         /\ Head(w) = "restart" => ~Has(w, "LIST") /\ Has(Tail(w), "PASS")
<1>. DEFINE t == Tail(w)
<1>0. w \in Seq(Statements)
  BY DEF ShapeOK
<1>1. /\ t \in Seq(Statements) /\ Len(t) = Len(w) - 1 /\ Len(w) \in Nat /\ Len(w) > 0
      /\ Head(w) = w[1] /\ Head(w) \in Statements
      /\ \A i \in 1 .. Len(t) : i + 1 \in 1 .. Len(w) /\ t[i] = w[i + 1]
  BY <1>0, Rest
<1>2. 1 \in 1 .. Len(w)
  BY <1>1
<1>. HIDE DEF t
<1>3. \A s : Has(w, s) <=> Head(w) = s \/ Has(t, s)
  BY <1>0, HasRest DEF t
<1>4. ~Has(t, "clear")
  <2>. SUFFICES ASSUME NEW i \in 1 .. Len(t), t[i] = "clear" PROVE FALSE
    BY DEF Has
  <2>1. i + 1 \in 1 .. Len(w) /\ w[i + 1] = "clear"
    BY <1>1
  <2>2. i + 1 = 1
    BY <2>1 DEF ShapeOK
  <2> QED BY <2>2
<1>5. Has(w, "clear") \/ Has(w, "new") => Has(w, "LIST")
  BY DEF ShapeOK, Has
<1>6. Head(w) = "new" => ~Has(t, "new")
  <2>. SUFFICES ASSUME w[1] = "new", NEW i \in 1 .. Len(t), t[i] = "new" PROVE FALSE
    BY <1>1 DEF Has
  <2>1. i + 1 \in 1 .. Len(w) /\ w[i + 1] = "new"
    BY <1>1
  <2>2. i + 1 = 1
    BY <1>2, <2>1 DEF ShapeOK
  <2> QED BY <2>2
<1>7. Head(w) = "LIST" => ~Has(w, "new") /\ ~Has(t, "LIST")
  <2>. SUFFICES ASSUME w[1] = "LIST" PROVE ~Has(w, "new") /\ ~Has(t, "LIST")
    BY <1>1
  <2>1. ASSUME NEW i \in 1 .. Len(w), w[i] \in {"LIST", "new"} PROVE i = 1
    <3>1. i <= 1
      BY <1>2, <2>1 DEF ShapeOK
    <3> QED BY <3>1
  <2>2. ~Has(w, "new")
    BY <2>1 DEF Has
  <2>3. ASSUME NEW i \in 1 .. Len(t), t[i] = "LIST" PROVE FALSE
    <3>1. i + 1 \in 1 .. Len(w) /\ w[i + 1] = "LIST"
      BY <1>1, <2>3
    <3>2. i + 1 = 1
      BY <2>1, <3>1
    <3> QED BY <3>2
  <2> QED BY <2>2, <2>3 DEF Has
<1>8. Has(w, "LIST") => Head(w) \notin Messages \cup {"write"}
  <2>. SUFFICES ASSUME NEW i \in 1 .. Len(w), w[i] = "LIST",
                       w[1] \in Messages \cup {"write"}
                PROVE  FALSE
    BY <1>1 DEF Has
  <2>1. i < 1
    BY <1>2 DEF ShapeOK
  <2> QED BY <2>1
<1>9. Head(w) = "restart" => ~Has(w, "LIST") /\ Has(t, "PASS")
  <2>. SUFFICES ASSUME w[1] = "restart" PROVE ~Has(w, "LIST") /\ Has(t, "PASS")
    BY <1>1
  <2>1. ~Has(w, "LIST") /\ \E j \in 1 + 1 .. Len(w) : w[j] = "PASS"
    BY <1>2 DEF ShapeOK
  <2>2. w[1] # "PASS"
    OBVIOUS
  <2>3. Has(w, "PASS")
    BY <2>1 DEF Has
  <2> QED BY <1>1, <1>3, <2>1, <2>2, <2>3
<1> QED BY <1>0, <1>1, <1>3, <1>4, <1>5, <1>6, <1>7, <1>8, <1>9 DEF t

Shaped == ShapeOK(W) /\ WritesOK(W, buffer, ctrOrMsg)

LEMMA ShapedStep ==
  ASSUME Shaped, Executes
  PROVE  Shaped'
<1>1. ShapeOK(W) /\ WritesOK(W, buffer, ctrOrMsg) /\ W # <<>> /\ W' = Tail(W)
      /\ buffer' = Text(Head(W), buffer) /\ ctrOrMsg' = Chosen(Head(W), ctrOrMsg)
  BY DEF Shaped, Executes
<1>2. ShapeOK(W') /\ WritesOK(W', buffer', ctrOrMsg')
  BY <1>1, ShapeRest, WritesRest
<1> QED BY <1>2 DEF Shaped

\* What is written goes where it belongs.
LEMMA WritesPaired ==
  ASSUME Shaped, W # <<>>, Head(W) = "write"
  PROVE  Paired(buffer, ctrOrMsg)
<1>1. W \in Seq(Statements)
  BY DEF Shaped, ShapeOK
<1>2. 1 \in 1 .. Len(W) /\ W[1] = "write"
  BY <1>1, Rest
<1>3. Paired(IF 1 > 2 THEN W[1 - 2] ELSE buffer, IF 1 > 1 THEN W[1 - 1] ELSE ctrOrMsg)
  BY <1>2 DEF Shaped, WritesOK
<1> QED BY <1>3

\* What a statement does to the connections of a session: texts are added to the
\* one that is selected, a data connection begins on a free pcb.
Appended ==
  /\ Head(W) = "write" => buffer \in Messages
  /\ Head(W) = "write" /\ ctrOrMsg = "eCtr" =>
       /\ buffer \in Answers
       /\ conn' = [conn EXCEPT ![mine].got = Append(@, buffer)]
  /\ Head(W) = "write" /\ ctrOrMsg = "eMsg" =>
       /\ buffer = "line"
       /\ IF ftpRAWDataMsg = Listen THEN UNCHANGED conn
          ELSE conn' = [conn EXCEPT ![ftpRAWDataMsg].got = Append(@, buffer)]
  /\ Head(W) = "callbacks" =>
       conn' = [conn EXCEPT ![mine].recv = TRUE, ![mine].poll = TRUE]
  /\ Head(W) = "new" =>
       \E p \in Pcbs :
         /\ conn[p].use = "free"
         /\ conn' = [conn EXCEPT ![p] = [Free EXCEPT !.use = "data"]]
         /\ ftpRAWDataMsg' = p /\ mine' = mine
  /\ Head(W) # "new" => UNCHANGED <<ftpRAWDataMsg, mine>>
  /\ Head(W) \notin {"write", "new", "callbacks"} => UNCHANGED conn

LEMMA StepAppends ==
  ASSUME TypeOK, Shaped, SessionOK, Executes, faults = 0, faults' = 0
  PROVE  Appended /\ mine \in Pcbs /\ mine = ftpRAWControl
<1>1. W # <<>> /\ W \in Seq(Statements)
  BY DEF Executes, Shaped, ShapeOK
<1>2. /\ mine = ftpRAWControl /\ mine \in Pcbs
      /\ conn[mine].use = "control" /\ conn[mine].open
      /\ ftpRAWDataMsg # Listen => Data.use = "data"
  BY <1>1 DEF SessionOK, ConnOK, Fresh, TypeOK
<1>3. Head(W) = "write" => Paired(buffer, ctrOrMsg)
  BY <1>1, WritesPaired
<1>4. ASSUME Head(W) = "write", ctrOrMsg = "eCtr"
      PROVE  /\ buffer \in Answers
             /\ conn' = [conn EXCEPT ![mine].got = Append(@, buffer)]
  <2>1. Selected = mine
    BY <1>2, <1>4 DEF Selected
  <2>2. buffer \in Answers
    BY <1>3, <1>4 DEF Paired, Answers
  <2> QED BY <1>2, <1>4, <2>1, <2>2 DEF Executes
<1>5. ASSUME Head(W) = "write", ctrOrMsg = "eMsg"
      PROVE  /\ buffer = "line"
             /\ IF ftpRAWDataMsg = Listen THEN UNCHANGED conn
                ELSE conn' = [conn EXCEPT ![ftpRAWDataMsg].got = Append(@, buffer)]
  <2>1. Selected = ftpRAWDataMsg /\ (ftpRAWDataMsg \in Pcbs <=> ftpRAWDataMsg # Listen)
    BY <1>5 DEF Selected, TypeOK
  <2>2. buffer = "line"
    BY <1>3, <1>5 DEF Paired
  <2> QED BY <1>2, <1>5, <2>1, <2>2 DEF Executes, Data
<1>6. ASSUME Head(W) = "callbacks"
      PROVE  conn' = [conn EXCEPT ![mine].recv = TRUE, ![mine].poll = TRUE]
  <2>1. Has(W, "callbacks")
    BY <1>1, <1>6, HasRest
  <2>3. ctrOrMsg = "eCtr"
    BY <2>1 DEF SessionOK, Counts
  <2>4. Selected = mine
    BY <1>2, <2>3 DEF Selected
  <2> QED BY <1>2, <1>6, <2>4 DEF Executes
<1>7. ASSUME Head(W) = "new"
      PROVE  \E p \in Pcbs :
               /\ conn[p].use = "free"
               /\ conn' = [conn EXCEPT ![p] = [Free EXCEPT !.use = "data"]]
               /\ ftpRAWDataMsg' = p /\ mine' = mine
  <2>1. PICK p \in Pcbs :
          /\ Aborts(p)
          /\ conn' = [conn EXCEPT ![p] = [Free EXCEPT !.use = "data"]]
          /\ ftpRAWDataMsg' = p
          /\ mine' = IF p = mine THEN Listen ELSE mine
    BY <1>7 DEF Executes
  <2>2. conn[p].use = "free"
    BY <2>1 DEF Aborts
  <2>3. p # mine
    BY <1>2, <2>2
  <2> QED BY <2>1, <2>2, <2>3
<1>8. buffer \in Messages \/ Head(W) # "write"
  BY <1>3 DEF Paired
<1> QED BY <1>2, <1>4, <1>5, <1>6, <1>7, <1>8 DEF Appended, Executes

\* The connections after a statement.
LEMMA StepConns ==
  ASSUME TypeOK, Appended, mine \in Pcbs
  PROVE  /\ mine' = mine /\ conn' \in [Pcbs -> PcbRecord]
         /\ Head(W) # "new" =>
              /\ ftpRAWDataMsg' = ftpRAWDataMsg
              /\ \A p \in Pcbs : /\ conn'[p].use = conn[p].use
                                 /\ conn'[p].open = conn[p].open
                                 /\ conn[p].recv => conn'[p].recv
         /\ Head(W) \notin {"new", "write"} =>
              \A p \in Pcbs : conn'[p].got = conn[p].got
<1>. USE DEF PcbRecord
<1>1. conn \in [Pcbs -> PcbRecord]
  BY DEF TypeOK
<1>2. CASE Head(W) = "new"
  <2>1. PICK p \in Pcbs :
          /\ conn' = [conn EXCEPT ![p] = [Free EXCEPT !.use = "data"]]
          /\ ftpRAWDataMsg' = p /\ mine' = mine
    BY <1>2 DEF Appended
  <2>2. conn' \in [Pcbs -> PcbRecord]
    BY <1>1, <2>1, FreeType
  <2> QED BY <1>2, <2>1, <2>2
<1>3. CASE Head(W) = "callbacks"
  <2>1. conn' = [conn EXCEPT ![mine].recv = TRUE, ![mine].poll = TRUE]
    BY <1>3 DEF Appended
  <2>2. /\ conn' \in [Pcbs -> PcbRecord]
        /\ \A p \in Pcbs : /\ conn'[p].use = conn[p].use
                           /\ conn'[p].open = conn[p].open
                           /\ conn[p].recv => conn'[p].recv
                           /\ conn'[p].got = conn[p].got
    BY <1>1, <2>1
  <2> QED BY <1>3, <2>2 DEF Appended
<1>4. CASE Head(W) = "write"
  <2>1. ASSUME NEW q \in Pcbs, conn' = [conn EXCEPT ![q].got = Append(@, buffer)]
        PROVE  /\ conn' \in [Pcbs -> PcbRecord]
               /\ \A p \in Pcbs : /\ conn'[p].use = conn[p].use
                                  /\ conn'[p].open = conn[p].open
                                  /\ conn[p].recv => conn'[p].recv
    <3>1. buffer \in Messages
      BY <1>4 DEF Appended
    <3>2. Append(conn[q].got, buffer) \in Seq(Messages)
      BY <1>1, <3>1
    <3> QED BY <1>1, <2>1, <3>2
  <2>2. CASE UNCHANGED conn
    BY <1>1, <1>4, <2>2 DEF Appended
  <2>3. CASE \E q \in Pcbs : conn' = [conn EXCEPT ![q].got = Append(@, buffer)]
    BY <1>4, <2>1, <2>3 DEF Appended
  <2>4. ctrOrMsg \in {"eCtr", "eMsg"} /\ ftpRAWDataMsg \in Pcbs \cup {Listen}
    BY DEF TypeOK
  <2> QED BY <1>4, <2>2, <2>3, <2>4 DEF Appended
<1>5. CASE Head(W) \notin {"new", "write", "callbacks"}
  BY <1>1, <1>5 DEF Appended
<1> QED BY <1>2, <1>3, <1>4, <1>5

LEMMA StepConnOK ==
  ASSUME TypeOK, Shaped, SessionOK, Executes, Appended, mine \in Pcbs
  PROVE  ConnOK'
<1>0. /\ W # <<>> /\ W' = Tail(W) /\ ShapeOK(W) /\ ftpRAWControl' = ftpRAWControl
      /\ \A s : Has(W, s) <=> Head(W) = s \/ Has(W', s)
      /\ mine # Listen /\ mine' = mine
  BY FirstOf, StepConns DEF Shaped, Executes
<1>1. /\ mine = ftpRAWControl
      /\ conn[mine].use = "control" /\ conn[mine].open
      /\ ~conn[mine].recv => W = Greeting
      /\ ftpRAWDataMsg # Listen => Data.use = "data"
      /\ bConnect \/ Has(W, "connected") => ftpRAWDataMsg # Listen /\ Data.open
      /\ \A p \in Pcbs : conn[p].use = "data" /\ ~conn[p].open =>
           p = ftpRAWDataMsg /\ ~Has(W, "new")
  BY <1>0 DEF SessionOK, ConnOK
<1>2. CASE Head(W) # "new"
  <2>1. /\ ftpRAWDataMsg' = ftpRAWDataMsg
        /\ \A p \in Pcbs : /\ conn'[p].use = conn[p].use
                           /\ conn'[p].open = conn[p].open
                           /\ conn[p].recv => conn'[p].recv
    BY <1>2, StepConns
  <2>2. ftpRAWDataMsg \in Pcbs \cup {Listen}
    BY DEF TypeOK
  <2>3. conn'[mine].recv
    <3>1. CASE conn[mine].recv
      BY <2>1, <3>1
    <3>2. CASE ~conn[mine].recv
      <4>1. Head(W) = "callbacks"
        BY <1>1, <3>2 DEF Greeting
      <4>2. conn' = [conn EXCEPT ![mine].recv = TRUE, ![mine].poll = TRUE]
        BY <4>1 DEF Appended
      <4>3. conn \in [Pcbs -> PcbRecord]
        BY DEF TypeOK, PcbRecord
      <4> QED BY <4>2, <4>3 DEF PcbRecord
    <3> QED BY <3>1, <3>2
  <2>4. bConnect' \/ Has(W', "connected") => bConnect \/ Has(W, "connected")
    BY <1>0 DEF Executes
  <2>5. mine' = ftpRAWControl' /\ mine' # Listen
        /\ conn'[mine'].use = "control" /\ conn'[mine'].open
    BY <1>0, <1>1, <2>1
  <2>6. ftpRAWDataMsg' # Listen => conn'[ftpRAWDataMsg'].use = "data"
    BY <1>1, <2>1, <2>2 DEF Data
  <2>7. bConnect' \/ Has(W', "connected") =>
          ftpRAWDataMsg' # Listen /\ conn'[ftpRAWDataMsg'].open
    BY <1>1, <2>1, <2>2, <2>4 DEF Data
  <2>8. \A p \in Pcbs : conn'[p].use = "data" /\ ~conn'[p].open =>
          p = ftpRAWDataMsg' /\ ~Has(W', "new")
    BY <1>0, <1>1, <2>1
  <2> QED BY <1>0, <2>3, <2>5, <2>6, <2>7, <2>8 DEF ConnOK, Data
<1>3. CASE Head(W) = "new"
  <2>1. PICK p \in Pcbs :
          /\ conn[p].use = "free"
          /\ conn' = [conn EXCEPT ![p] = [Free EXCEPT !.use = "data"]]
          /\ ftpRAWDataMsg' = p
    BY <1>3 DEF Appended
  <2>2. p # mine
    BY <1>1, <2>1
  <2>3. conn \in [Pcbs -> PcbRecord]
    BY DEF TypeOK, PcbRecord
  <2>4. conn'[p].use = "data"
    BY <2>1, <2>3 DEF Free
  <2>5. \A q \in Pcbs : q # p => conn'[q] = conn[q]
    BY <2>1, <2>3
  <2>6. Has(W, "new") /\ ~Has(W', "new") /\ Has(W, "LIST") /\ ~Has(W', "clear")
        /\ Head(W) # "clear"
    BY <1>0, <1>3, FirstOf
  <2>7. ~bConnect /\ ~Has(W, "connected")
    <3>1. ~Has(W, "clear")
      BY <1>0, <2>6
    <3>2. ~bConnect
      BY <2>6, <3>1 DEF SessionOK, Counts
    <3>3. Has(W, "connected") => W = <<"connected">>
      BY DEF SessionOK, Counts
    <3>4. W = <<"connected">> => Head(W) = "connected"
      OBVIOUS
    <3> QED BY <1>3, <3>2, <3>3, <3>4
  <2>8. ~bConnect' /\ ~Has(W', "connected")
    BY <1>0, <1>3, <2>7 DEF Executes
  <2>9. conn[mine].recv
    BY <1>1, <1>3 DEF Greeting
  <2>10. \A q \in Pcbs : conn'[q].use = "data" /\ ~conn'[q].open => q = p
    BY <1>1, <2>5, <2>6
  <2> QED
    BY <1>0, <1>1, <2>1, <2>2, <2>4, <2>5, <2>6, <2>8, <2>9, <2>10 DEF ConnOK, Data
<1> QED BY <1>2, <1>3

LEMMA StepReplies ==
  ASSUME TypeOK, Shaped, SessionOK, Executes, Appended, mine \in Pcbs, faults = 0
  PROVE  RepliesOnControl'
<1>0. conn \in [Pcbs -> PcbRecord]
  BY DEF TypeOK, PcbRecord
<1>1. \A p \in Pcbs : \A i \in DOMAIN conn[p].got :
        (conn[p].got[i] = "line") <=> (conn[p].use = "data")
  BY DEF SessionOK, RepliesOnControl
<1>2. /\ conn[mine].use = "control"
      /\ ftpRAWDataMsg # Listen => Data.use = "data"
  BY DEF SessionOK, ConnOK
<1>3. SUFFICES ASSUME NEW p \in Pcbs, NEW i \in DOMAIN conn'[p].got
               PROVE  (conn'[p].got[i] = "line") <=> (conn'[p].use = "data")
  BY DEF RepliesOnControl
<1>4. CASE Head(W) \notin {"new", "write"}
  BY <1>1, <1>4, StepConns
<1>5. CASE Head(W) = "new"
  <2>1. PICK q \in Pcbs : conn' = [conn EXCEPT ![q] = [Free EXCEPT !.use = "data"]]
    BY <1>5 DEF Appended
  <2>2. CASE p = q
    <3>1. conn'[p].got = <<>>
      BY <1>0, <2>1, <2>2 DEF Free
    <3> QED BY <3>1
  <2>3. CASE p # q
    BY <1>0, <1>1, <2>1, <2>3
  <2> QED BY <2>2, <2>3
<1>6. CASE Head(W) = "write"
  <2>1. ASSUME NEW q \in Pcbs, conn' = [conn EXCEPT ![q].got = Append(@, buffer)],
               (buffer = "line") <=> (conn[q].use = "data")
        PROVE  (conn'[p].got[i] = "line") <=> (conn'[p].use = "data")
    <3>1. CASE p # q
      BY <1>0, <1>1, <2>1, <3>1
    <3>2. CASE p = q
      <4>1. conn'[p].got = Append(conn[p].got, buffer) /\ conn'[p].use = conn[p].use
        BY <1>0, <2>1, <3>2 DEF PcbRecord
      <4>2. conn[p].got \in Seq(Messages) /\ buffer \in Messages
        BY <1>0, <1>6 DEF PcbRecord, Appended
      <4>3. i \in 1 .. Len(conn[p].got) + 1
        BY <4>1, <4>2
      <4>4. CASE i = Len(conn[p].got) + 1
        BY <2>1, <3>2, <4>1, <4>2, <4>4
      <4>5. CASE i # Len(conn[p].got) + 1
        <5>1. i \in DOMAIN conn[p].got
          BY <4>2, <4>3, <4>5
        <5>2. Append(conn[p].got, buffer)[i] = conn[p].got[i]
          BY <4>2, <5>1
        <5> QED BY <1>1, <4>1, <5>1, <5>2
      <4> QED BY <4>4, <4>5
    <3> QED BY <3>1, <3>2
  <2>2. CASE ctrOrMsg = "eCtr"
    BY <1>2, <1>6, <2>1, <2>2 DEF Appended, Answers
  <2>3. CASE ctrOrMsg = "eMsg"
    <3>1. ftpRAWDataMsg \in Pcbs \cup {Listen}
      BY DEF TypeOK
    <3>2. CASE ftpRAWDataMsg = Listen
      BY <1>1, <1>3, <1>6, <2>3, <3>2 DEF Appended
    <3>3. CASE ftpRAWDataMsg # Listen
      BY <1>2, <1>6, <2>1, <2>3, <3>1, <3>3 DEF Appended, Data
    <3> QED BY <3>2, <3>3
  <2>4. ctrOrMsg \in {"eCtr", "eMsg"}
    BY DEF TypeOK
  <2> QED BY <2>2, <2>3, <2>4
<1> QED BY <1>4, <1>5, <1>6

LEMMA StepCounts ==
  ASSUME TypeOK, Shaped, SessionOK, Executes, Appended, mine \in Pcbs
  PROVE  Counts'
<1>0. /\ W # <<>> /\ W' = Tail(W) /\ ShapeOK(W)
      /\ \A s : Has(W, s) <=> Head(W) = s \/ Has(W', s)
      /\ ~Has(W', "clear")
      /\ Has(W, "clear") \/ Has(W, "new") => Has(W, "LIST")
      /\ Head(W) = "LIST" => ~Has(W', "LIST")
      /\ Has(W, "LIST") => Head(W) \notin Messages \cup {"write"}
      /\ Head(W) = "restart" => ~Has(W, "LIST")
  BY FirstOf DEF Shaped, Executes
<1>. DEFINE Ending3 == \E s \in {"PASS", "IDLE", "LIST"} : Has(W, s)
<1>1. /\ state # "LIST" \/ Ending3 => msgcount = 0 \/ msgcount > Rounds
      /\ Has(W, "LIST") => /\ state = "LIST" => msgcount > Rounds
                           /\ Has(W, "clear") \/ ~bConnect
                           /\ Has(W, "new") \/ (ftpRAWDataMsg # Listen /\ Data.got = <<>>)
                           /\ ~Has(W, "line")
      /\ Has(W, "226") => W = Completion
      /\ Has(W, "callbacks") => W = Greeting
      /\ Has(W, "connected") => W = <<"connected">>
  BY DEF SessionOK, Counts
<1>2. ~Has(W', "226")
  <2>. SUFFICES ASSUME Has(W', "226") PROVE FALSE
    OBVIOUS
  <2>1. W' = Tail(Completion)
    BY <1>0, <1>1
  <2> QED BY <2>1 DEF Completion, Has
<1>3. ~Has(W', "callbacks")
  <2>. SUFFICES ASSUME Has(W', "callbacks") PROVE FALSE
    OBVIOUS
  <2>1. W' = Tail(Greeting)
    BY <1>0, <1>1
  <2> QED BY <2>1 DEF Greeting, Has
<1>4. ~Has(W', "connected")
  <2>. SUFFICES ASSUME Has(W', "connected") PROVE FALSE
    OBVIOUS
  <2>1. W' = Tail(<<"connected">>)
    BY <1>0, <1>1
  <2> QED BY <2>1 DEF Has
<1>5. ASSUME state' # "LIST" \/ \E s \in {"PASS", "IDLE", "LIST"} : Has(W', s)
      PROVE  msgcount' = 0 \/ msgcount' > Rounds
  <2>1. state # "LIST" \/ Ending3
    <3>1. CASE Head(W) \in {"PASS", "IDLE", "LIST"}
      BY <1>0, <3>1
    <3>2. CASE Head(W) \notin {"PASS", "IDLE", "LIST"}
      BY <1>0, <1>5, <3>2 DEF Executes
    <3> QED BY <3>1, <3>2
  <2> QED BY <1>1, <2>1 DEF Executes
<1>6. ASSUME Has(W', "LIST")
      PROVE  /\ state' = "LIST" => msgcount' > Rounds
             /\ ~bConnect'
             /\ Has(W', "new") \/ (ftpRAWDataMsg' # Listen /\ Data'.got = <<>>)
             /\ ~Has(W', "line")
  <2>1. Has(W, "LIST") /\ Head(W) \notin Messages \cup {"write", "restart", "LIST"}
        /\ ~Has(W, "line") /\ ~Has(W', "line")
    BY <1>0, <1>1, <1>6
  <2>2. Head(W) # "connected" /\ Head(W) # "callbacks"
    <3>1. Has(<<"connected">>, "LIST") => FALSE
      BY DEF Has
    <3>2. ~Has(Greeting, "LIST")
      BY GreetingReply
    <3> QED BY <1>0, <1>1, <2>1, <3>1, <3>2
  <2>3. state' = "LIST" => msgcount' > Rounds
    BY <1>1, <2>1 DEF Executes
  <2>4. ~bConnect'
    BY <1>0, <1>1, <2>1, <2>2 DEF Executes
  <2>5. Has(W', "new") \/ (ftpRAWDataMsg' # Listen /\ Data'.got = <<>>)
    <3>1. CASE Head(W) = "new"
      <4>1. PICK p \in Pcbs :
              /\ conn' = [conn EXCEPT ![p] = [Free EXCEPT !.use = "data"]]
              /\ ftpRAWDataMsg' = p
        BY <3>1 DEF Appended
      <4>2. conn'[p].got = <<>>
        BY <4>1 DEF TypeOK, Free
      <4> QED BY <4>1, <4>2, FtpAssumption DEF Data
    <3>2. CASE Head(W) # "new"
      <4>1. UNCHANGED <<ftpRAWDataMsg, conn>>
        BY <2>1, <2>2, <3>2 DEF Appended
      <4>2. Has(W, "new") <=> Has(W', "new")
        BY <1>0, <3>2
      <4> QED BY <1>1, <2>1, <4>1, <4>2 DEF Data
    <3> QED BY <3>1, <3>2
  <2> QED BY <2>1, <2>3, <2>4, <2>5
<1> QED BY <1>2, <1>3, <1>4, <1>5, <1>6 DEF Counts

\* A statement keeps what the client will have read by the end: it moves a text
\* from the callback to buffer, or from there to the connection.
LEMMA StepInOrder ==
  ASSUME TypeOK, Shaped, Executes, Appended, mine \in Pcbs, SessionOK,
         NEW rest \in Seq(Messages), InOrder(rest)
  PROVE  InOrder(rest)'
<1>0. /\ W # <<>> /\ W' = Tail(W) /\ ShapeOK(W) /\ WritesOK(W, buffer, ctrOrMsg)
      /\ owed' = owed /\ buffer' = Text(Head(W), buffer)
      /\ mine' = mine /\ mine \in Pcbs
  BY StepConns DEF Shaped, Executes
<1>1. PICK s \in Bursts :
        /\ Fills(W, Answers, s)
        /\ owed = conn[mine].got \o (InBuffer(W, buffer, Answers) \o (s \o rest))
  BY DEF InOrder
<1>2. Answers \in SUBSET Messages
  BY DEF Answers
<1>3. PICK r \in Bursts :
        /\ Fills(W', Answers, r)
        /\ Head(W) # "write" =>
             InBuffer(W', buffer', Answers) \o r = InBuffer(W, buffer, Answers) \o s
        /\ Head(W) = "write" =>
             /\ r = s
             /\ InBuffer(W', buffer, Answers) = <<>>
             /\ InBuffer(W, buffer, Answers)
                  = IF buffer \in Answers THEN <<buffer>> ELSE <<>>
  <2>0. /\ ShapeOK(W) /\ WritesOK(W, buffer, ctrOrMsg) /\ W # <<>>
        /\ Answers \in SUBSET Messages /\ s \in Bursts /\ Fills(W, Answers, s)
    BY <1>0, <1>1, <1>2
  <2>1. \E r \in Bursts :
          /\ Fills(Tail(W), Answers, r)
          /\ Head(W) # "write" =>
               InBuffer(Tail(W), Text(Head(W), buffer), Answers) \o r
                 = InBuffer(W, buffer, Answers) \o s
          /\ Head(W) = "write" =>
               /\ r = s
               /\ InBuffer(Tail(W), buffer, Answers) = <<>>
               /\ InBuffer(W, buffer, Answers)
                    = IF buffer \in Answers THEN <<buffer>> ELSE <<>>
    BY ONLY <2>0, OnTheWay
  <2> QED BY <1>0, <2>1
<1>4. /\ s \in Seq(Messages) /\ r \in Seq(Messages)
      /\ InBuffer(W, buffer, Answers) \in Seq(Messages)
      /\ InBuffer(W', buffer', Answers) \in Seq(Messages)
      /\ conn \in [Pcbs -> PcbRecord]
  <2>1. \A b \in Answers : <<b>> \in Seq(Messages)
    BY DEF Answers
  <2>2. \A w, b : InBuffer(w, b, Answers) \in Seq(Messages)
    BY <2>1 DEF InBuffer
  <2> QED BY <2>2, BurstType DEF TypeOK, PcbRecord
<1>5. CASE Head(W) # "write"
  <2>1. conn'[mine].got = conn[mine].got
    <3>1. CASE Head(W) # "new"
      BY <1>0, <1>5, <3>1, StepConns
    <3>2. CASE Head(W) = "new"
      <4>1. PICK p \in Pcbs :
              /\ conn[p].use = "free"
              /\ conn' = [conn EXCEPT ![p] = [Free EXCEPT !.use = "data"]]
        BY <3>2 DEF Appended
      <4>2. p # mine
        BY <1>0, <4>1 DEF SessionOK, ConnOK, Fresh, FtpAssumption
      <4> QED BY <1>0, <1>4, <4>1, <4>2
    <3> QED BY <3>1, <3>2
  <2>2. InBuffer(W', buffer', Answers) \o (r \o rest)
          = InBuffer(W, buffer, Answers) \o (s \o rest)
    <3>. DEFINE a == InBuffer(W', buffer', Answers)
                c == InBuffer(W, buffer, Answers)
    <3>1. a \o r = c \o s
      BY <1>3, <1>5
    <3>2. a \in Seq(Messages) /\ c \in Seq(Messages)
      BY <1>4
    <3>3. a \o (r \o rest) = c \o (s \o rest)
      <4>. HIDE DEF a, c
      <4>1. r \in Seq(Messages) /\ s \in Seq(Messages) /\ rest \in Seq(Messages)
        BY <1>4
      <4>2. (a \o r) \o rest = a \o (r \o rest)
        BY ONLY <3>2, <4>1, ConcatAssociative, SMTT(30)
      <4>3. (c \o s) \o rest = c \o (s \o rest)
        BY ONLY <3>2, <4>1, ConcatAssociative, SMTT(30)
      <4> QED BY <3>1, <4>2, <4>3, Zenon
    <3> QED BY <3>3
  <2> QED BY <1>0, <1>1, <1>3, <2>1, <2>2 DEF InOrder
<1>6. CASE Head(W) = "write"
  <2>0. buffer' = buffer
    BY <1>0, <1>6, Kinds DEF Text
  <2>1. InBuffer(W', buffer', Answers) \o (s \o rest) = s \o rest
    <3>1. s \o rest \in Seq(Messages)
      BY <1>4, ConcatProperties
    <3> QED BY <1>3, <1>6, <2>0, <3>1, ConcatEmptySeq
  <2>2. CASE ctrOrMsg = "eCtr"
    <3>1. /\ buffer \in Answers /\ buffer \in Messages
          /\ conn'[mine].got = Append(conn[mine].got, buffer)
      BY <1>0, <1>2, <1>4, <1>6, <2>2 DEF Appended, PcbRecord
    <3>2. conn[mine].got \in Seq(Messages)
      BY <1>0, <1>4 DEF PcbRecord
    <3>3. Append(conn[mine].got, buffer) = conn[mine].got \o <<buffer>>
      BY <3>1, <3>2, AppendIsConcat
    <3>4. owed = conn[mine].got \o (<<buffer>> \o (s \o rest))
      BY <1>1, <1>3, <1>6, <3>1
    <3>5. (conn[mine].got \o <<buffer>>) \o (s \o rest)
            = conn[mine].got \o (<<buffer>> \o (s \o rest))
      <4>. DEFINE g == conn[mine].got
                  b == <<buffer>>
                  e == s \o rest
      <4>1. g \in Seq(Messages) /\ b \in Seq(Messages) /\ e \in Seq(Messages)
        BY <1>4, <3>1, <3>2, ConcatProperties
      <4>2. (g \o b) \o e = g \o (b \o e)
        <5>. HIDE DEF g, b, e
        <5> QED BY ONLY <4>1, ConcatAssociative, SMTT(30)
      <4> QED BY <4>2
    <3> QED BY <1>0, <1>3, <1>6, <2>1, <3>1, <3>3, <3>4, <3>5 DEF InOrder
  <2>3. CASE ctrOrMsg = "eMsg"
    <3>1. buffer \notin Answers /\ buffer' = buffer
      BY <1>6, <2>0, <2>3 DEF Appended, Answers
    <3>2. conn'[mine].got = conn[mine].got
      <4>1. ftpRAWDataMsg \in Pcbs => ftpRAWDataMsg # mine
        BY <1>0, FtpAssumption DEF SessionOK, ConnOK, Fresh, Data
      <4>2. ftpRAWDataMsg \in Pcbs \cup {Listen}
        BY DEF TypeOK
      <4>3. CASE ftpRAWDataMsg = Listen
        BY <1>6, <2>3, <4>3 DEF Appended
      <4>4. CASE ftpRAWDataMsg # Listen
        BY <1>0, <1>4, <1>6, <2>3, <4>1, <4>2, <4>4 DEF Appended
      <4> QED BY <4>3, <4>4
    <3>3. InBuffer(W, buffer, Answers) \o (s \o rest) = s \o rest
      <4>1. s \o rest \in Seq(Messages)
        BY <1>4, ConcatProperties
      <4> QED BY <1>3, <1>6, <3>1, <4>1, ConcatEmptySeq
    <3> QED BY <1>0, <1>1, <1>3, <1>6, <2>1, <3>1, <3>2, <3>3 DEF InOrder
  <2>4. ctrOrMsg \in {"eCtr", "eMsg"}
    BY DEF TypeOK
  <2> QED BY <2>2, <2>3, <2>4
<1> QED BY <1>5, <1>6

LEMMA StepQuiet ==
  ASSUME TypeOK, Shaped, SessionOK, Executes, Appended, mine \in Pcbs, Quiet
  PROVE  Quiet'
<1>0. /\ W # <<>> /\ W' = Tail(W) /\ ShapeOK(W)
      /\ \A s : Has(W, s) <=> Head(W) = s \/ Has(W', s)
      /\ Has(W, "clear") \/ Has(W, "new") => Has(W, "LIST")
      /\ Head(W) = "restart" => Has(W', "PASS")
  BY FirstOf DEF Shaped, Executes
<1>1. ~Has(W, "LIST") /\ ~Has(W, "new") /\ Head(W) # "new" /\ Head(W) # "LIST"
      /\ ~Has(W', "LIST")
  BY <1>0 DEF Quiet
<1>2. ASSUME state' = "LIST", ~Has(W', "PASS") PROVE msgcount' > Rounds
  <2>1. Head(W) \notin {"PASS", "IDLE", "LIST", "restart"} /\ state = "LIST"
    BY <1>0, <1>1, <1>2 DEF Executes
  <2>2. ~Has(W, "PASS")
    BY <1>0, <1>2, <2>1
  <2> QED BY <2>1, <2>2 DEF Quiet, Executes
<1>3. \A p \in Pcbs : conn'[p].use = "data" => conn'[p].open
  BY <1>1, StepConns DEF Quiet
<1> QED BY <1>1, <1>2, <1>3 DEF Quiet

LEMMA StepOrder ==
  ASSUME TypeOK, Shaped, SessionOK, Executes, Appended, mine \in Pcbs
  PROVE  OrderOK'
<1>1. <<"226", "250">> \in Seq(Messages) /\ <<>> \in Seq(Messages)
  BY DEF Messages
<1>2. InOrder(<<"226", "250">>) \/ (InOrder(<<>>) /\ Quiet)
  BY FtpAssumption DEF SessionOK, OrderOK
<1>3. CASE InOrder(<<"226", "250">>)
  <2>1. InOrder(<<"226", "250">>)'
    BY <1>1, <1>3, StepInOrder
  <2> QED BY <2>1 DEF OrderOK
<1>4. CASE InOrder(<<>>) /\ Quiet
  <2>1. InOrder(<<>>)'
    BY <1>1, <1>4, StepInOrder
  <2>2. Quiet'
    BY <1>4, StepQuiet
  <2> QED BY <2>1, <2>2 DEF OrderOK
<1> QED BY <1>2, <1>3, <1>4

\* A statement that neither begins nor ends a listing keeps its lines.
LEMMA StepLines ==
  ASSUME TypeOK, Shaped, SessionOK, Executes, Appended, mine \in Pcbs,
         Head(W) # "new", UNCHANGED msgcount, ftpRAWDataMsg # Listen,
         NEW s \in Bursts, Fills(W, {"line"}, s),
         Len(Data.got) + Len(InBuffer(W, buffer, {"line"})) + Len(s) = 2 * Polled
  PROVE  \E r \in Bursts :
           /\ Fills(W', {"line"}, r)
           /\ Len(Data'.got) + Len(InBuffer(W', buffer', {"line"})) + Len(r)
                = 2 * Polled'
<1>. DEFINE M == {"line"}
            a == InBuffer(W, buffer, M)
            b == InBuffer(W', buffer', M)
<1>0. /\ W # <<>> /\ W' = Tail(W) /\ ShapeOK(W) /\ WritesOK(W, buffer, ctrOrMsg)
      /\ buffer' = Text(Head(W), buffer)
      /\ M \in SUBSET Messages
  BY DEF Shaped, Executes, Messages
<1>1. PICK r \in Bursts :
        /\ Fills(W', M, r)
        /\ Head(W) # "write" => b \o r = a \o s
        /\ Head(W) = "write" =>
             /\ r = s
             /\ InBuffer(W', buffer, M) = <<>>
             /\ a = IF buffer \in M THEN <<buffer>> ELSE <<>>
  <2>0. /\ ShapeOK(W) /\ WritesOK(W, buffer, ctrOrMsg) /\ W # <<>>
        /\ M \in SUBSET Messages /\ s \in Bursts /\ Fills(W, M, s)
    BY <1>0
  <2>. HIDE DEF M
  <2>1. \E r \in Bursts :
          /\ Fills(Tail(W), M, r)
          /\ Head(W) # "write" =>
               InBuffer(Tail(W), Text(Head(W), buffer), M) \o r
                 = InBuffer(W, buffer, M) \o s
          /\ Head(W) = "write" =>
               /\ r = s
               /\ InBuffer(Tail(W), buffer, M) = <<>>
               /\ InBuffer(W, buffer, M) = IF buffer \in M THEN <<buffer>> ELSE <<>>
    BY ONLY <2>0, OnTheWay
  <2> QED BY <1>0, <2>1
<1>2. /\ s \in Seq(Messages) /\ r \in Seq(Messages)
      /\ a \in Seq(Messages) /\ b \in Seq(Messages)
      /\ conn \in [Pcbs -> PcbRecord]
      /\ ftpRAWDataMsg \in Pcbs /\ ftpRAWDataMsg' = ftpRAWDataMsg
      /\ Data.got \in Seq(Messages)
  <2>1. \A v \in M : <<v>> \in Seq(Messages)
    BY DEF Messages
  <2>2. \A w, v : InBuffer(w, v, M) \in Seq(Messages)
    BY <2>1 DEF InBuffer
  <2>3. conn \in [Pcbs -> PcbRecord] /\ ftpRAWDataMsg \in Pcbs
    BY DEF TypeOK, PcbRecord
  <2>4. ftpRAWDataMsg' = ftpRAWDataMsg
    BY StepConns
  <2> QED BY <2>2, <2>3, <2>4, BurstType DEF PcbRecord, Data
<1>3. Polled' = Polled
  BY DEF Polled
<1>4. CASE Head(W) # "write"
  <2>1. Data'.got = Data.got
    BY <1>2, <1>4, StepConns DEF Data
  <2>2. Len(b) + Len(r) = Len(a) + Len(s)
    <3>1. b \o r = a \o s
      BY <1>1, <1>4
    <3>. HIDE DEF a, b
    <3>2. Len(b \o r) = Len(b) + Len(r) /\ Len(a \o s) = Len(a) + Len(s)
      BY <1>2, ConcatProperties
    <3> QED BY <3>1, <3>2
  <2>3. Len(Data.got) \in Nat /\ Len(a) \in Nat /\ Len(b) \in Nat /\ Len(r) \in Nat
        /\ Len(s) \in Nat
    <3>. HIDE DEF a, b
    <3> QED BY <1>2
  <2>4. Len(Data.got) + Len(a) + Len(s) = 2 * Polled
    OBVIOUS
  <2>5. Len(Data'.got) + Len(b) + Len(r) = 2 * Polled'
    <3>. HIDE DEF a, b
    <3> QED BY <1>3, <2>1, <2>2, <2>3, <2>4
  <2> QED BY <1>1, <2>5
<1>5. CASE Head(W) = "write"
  <2>0. buffer' = buffer /\ r = s /\ b = <<>>
    BY <1>0, <1>1, <1>5, Kinds DEF Text
  <2>1. Len(Data'.got) = Len(Data.got) + Len(a)
    <3>1. CASE ctrOrMsg = "eCtr"
      <4>1. a = <<>>
        BY <1>1, <1>5, <3>1 DEF Appended, Answers
      <4>2. mine # ftpRAWDataMsg
        BY FtpAssumption DEF SessionOK, ConnOK, Fresh, Data
      <4>3. Data'.got = Data.got
        BY <1>2, <1>5, <3>1, <4>2 DEF Appended, Data
      <4>4. Len(a) = 0 /\ Len(Data.got) \in Nat
        BY <1>2, <4>1
      <4> QED BY <4>3, <4>4
    <3>2. CASE ctrOrMsg = "eMsg"
      <4>1. a = <<buffer>> /\ buffer \in Messages
        BY <1>1, <1>5, <3>2 DEF Appended
      <4>2. Data'.got = Append(Data.got, buffer)
        BY <1>2, <1>5, <3>2 DEF Appended, Data, PcbRecord
      <4>3. Len(a) = 1 /\ Len(Data'.got) = Len(Data.got) + 1
        BY <1>2, <4>1, <4>2
      <4> QED BY <4>3
    <3>3. ctrOrMsg \in {"eCtr", "eMsg"}
      BY DEF TypeOK
    <3> QED BY <3>1, <3>2, <3>3
  <2>2. Len(b) = 0
    BY <2>0
  <2>3. Len(Data.got) \in Nat /\ Len(a) \in Nat /\ Len(s) \in Nat
    <3>. HIDE DEF a, b
    <3> QED BY <1>2
  <2>4. Len(Data.got) + Len(a) + Len(s) = 2 * Polled
    OBVIOUS
  <2>5. Len(Data'.got) + Len(b) + Len(r) = 2 * Polled'
    <3>. HIDE DEF a, b
    <3> QED BY <1>3, <2>0, <2>1, <2>2, <2>3, <2>4
  <2> QED BY <1>1, <2>5
<1> QED BY <1>4, <1>5

LEMMA StepListing ==
  ASSUME TypeOK, Shaped, SessionOK, Executes, Appended, mine \in Pcbs
  PROVE  ListingOK'
<1>. SUFFICES ASSUME state' = "LIST", ~Has(W', "PASS"), msgcount' <= Rounds
              PROVE  /\ ftpRAWDataMsg' # Listen
                     /\ bConnect' \/ msgcount' = 0
                     /\ \E s \in Bursts :
                          /\ Fills(W', {"line"}, s)
                          /\ Len(Data'.got) + Len(InBuffer(W', buffer', {"line"}))
                               + Len(s) = 2 * Polled'
  BY DEF ListingOK
<1>0. /\ W # <<>> /\ W' = Tail(W) /\ ShapeOK(W)
      /\ \A s : Has(W, s) <=> Head(W) = s \/ Has(W', s)
      /\ ~Has(W', "clear")
      /\ Has(W, "clear") \/ Has(W, "new") => Has(W, "LIST")
      /\ Head(W) = "LIST" => ~Has(W, "new")
      /\ Head(W) = "restart" => Has(W', "PASS")
  BY FirstOf DEF Shaped, Executes
<1>1. Head(W) \notin {"PASS", "IDLE", "restart"} /\ msgcount' = msgcount
      /\ msgcount \in Nat
  <2>1. Head(W) # "PASS" /\ Head(W) # "IDLE"
    BY DEF Executes
  <2>2. Head(W) # "restart"
    BY <1>0
  <2>3. msgcount \in 0 .. Rounds + 2
    BY DEF TypeOK
  <2> QED BY <2>1, <2>2, <2>3 DEF Executes
<1>2. ~(msgcount > Rounds)
  BY <1>1
<1>3. CASE Head(W) = "LIST"
  <2>1. Has(W, "LIST") /\ ~Has(W, "clear") /\ ~Has(W, "new")
    BY <1>0, <1>3
  <2>2. msgcount = 0
    BY <1>2, <2>1 DEF SessionOK, Counts
  <2>3. /\ ~bConnect /\ ftpRAWDataMsg # Listen /\ Data.got = <<>> /\ ~Has(W, "line")
    BY <2>1 DEF SessionOK, Counts
  <2>4. /\ UNCHANGED <<ftpRAWDataMsg, conn>>
    BY <1>3 DEF Appended
  <2>5. Fills(W', {"line"}, <<>>)
    <3>1. \A k \in 1 .. Len(W') : W'[k] \notin {"line"}
      BY <1>0, <2>3 DEF Has
    <3> QED BY <3>1 DEF Fills
  <2>6. InBuffer(W', buffer', {"line"}) = <<>>
    <3>1. "LIST" \notin Messages \cup {"write"} /\ "LIST" \notin Ends
      BY DEF Messages, Ends
    <3>2. W \in Seq(Statements) /\ W[1] = "LIST"
      BY <1>0, <1>3 DEF ShapeOK
    <3>3. ~Sending(W)
      BY <3>1, <3>2 DEF Sending
    <3>4. ~Sending(W')
      BY <1>0, <1>3, <3>1, <3>3, SendingRest DEF Shaped
    <3> QED BY <3>4 DEF InBuffer
  <2>7. Polled' = 0
    BY <1>1, <2>2, FtpAssumption DEF Polled
  <2>8. Len(Data'.got) + Len(InBuffer(W', buffer', {"line"})) + Len(<<>>) = 2 * Polled'
    BY <2>3, <2>4, <2>6, <2>7 DEF Data
  <2> QED BY <1>1, <2>2, <2>3, <2>4, <2>5, <2>8, BurstType
<1>4. CASE Head(W) # "LIST"
  <2>1. state = "LIST" /\ ~Has(W, "PASS") /\ msgcount <= Rounds
    BY <1>0, <1>1, <1>4 DEF Executes
  <2>2. ~Has(W, "LIST")
    BY <1>2, <2>1 DEF SessionOK, Counts
  <2>3. Head(W) # "new" /\ Head(W) # "clear"
    BY <1>0, <2>2
  <2>4. /\ ftpRAWDataMsg # Listen
        /\ bConnect \/ msgcount = 0
        /\ \E s \in Bursts :
             /\ Fills(W, {"line"}, s)
             /\ Len(Data.got) + Len(InBuffer(W, buffer, {"line"})) + Len(s) = 2 * Polled
    BY <2>1 DEF SessionOK, ListingOK
  <2>5. ftpRAWDataMsg' = ftpRAWDataMsg /\ (bConnect' \/ msgcount' = 0)
    BY <1>1, <2>3, <2>4 DEF Appended, Executes
  <2>6. PICK s \in Bursts :
          /\ Fills(W, {"line"}, s)
          /\ Len(Data.got) + Len(InBuffer(W, buffer, {"line"})) + Len(s) = 2 * Polled
    BY <2>4
  <2> QED BY <1>1, <2>3, <2>4, <2>5, <2>6, StepLines
<1> QED BY <1>3, <1>4

\* Nothing to send when no callback runs.
LEMMA Idle ==
  ASSUME NEW M, NEW s, Fills(<<>>, M, s)
  PROVE  s = <<>> /\ \A b : InBuffer(<<>>, b, M) = <<>>
BY NothingToFill, CodeSendsNothing DEF InBuffer

\* The order of what the client is sent, when no callback runs.
LEMMA IdleOrder ==
  ASSUME TypeOK, mine \in Pcbs, W = <<>>, NEW rest \in Seq(Messages)
  PROVE  InOrder(rest) <=> owed = conn[mine].got \o rest
<1>1. <<>> \in Bursts /\ Fills(<<>>, Answers, <<>>)
  BY BurstType, NoStatements
<1>2. \A b : InBuffer(<<>>, b, Answers) = <<>>
  BY <1>1, Idle
<1>3. <<>> \o (<<>> \o rest) = rest
  BY ConcatEmptySeq
<1>4. \A s : Fills(<<>>, Answers, s) => s = <<>>
  BY NothingToFill
<1> QED BY <1>1, <1>2, <1>3, <1>4 DEF InOrder

LEMMA CallOrder ==
  ASSUME TypeOK, NEW w, CodeOK(w) \/ w = <<"connected">>, W' = w, mine' \in Pcbs,
         NEW s \in Bursts, Fills(w, Answers, s), NEW rest \in Seq(Messages),
         owed' = conn'[mine'].got \o (s \o rest)
  PROVE  InOrder(rest)'
<1>1. ~Sending(w)
  <2>1. ~Sending(<<"connected">>)
    BY DEF Sending, Ends
  <2> QED BY <2>1, CodeSendsNothing
<1>2. InBuffer(W', buffer', Answers) = <<>>
  BY <1>1 DEF InBuffer
<1>3. s \o rest \in Seq(Messages)
  BY BurstType, ConcatProperties
<1>4. <<>> \o (s \o rest) = s \o rest
  BY <1>3, ConcatEmptySeq
<1> QED BY <1>2, <1>4 DEF InOrder

\* The client connects.
LEMMA AcceptSession ==
  ASSUME InputThread = TimerThread, TypeOK, SessionOK, Accept, faults = 0, faults' = 0
  PROVE  SessionOK'
<1>1. mine = Listen /\ Fresh
  BY DEF Accept, SessionOK, ConnOK
<1>2. PICK p \in Pcbs : /\ conn' = [conn EXCEPT ![p] =
                              [Free EXCEPT !.use = "control", !.open = TRUE]]
                        /\ mine' = p /\ ftpRAWControl' = p
  BY DEF Accept, Allocatable
<1>3. /\ conn'[p].use = "control" /\ conn'[p].open /\ conn'[p].got = <<>>
      /\ \A q \in Pcbs : conn'[q].use # "data" /\ conn'[q].got = <<>>
  BY <1>1, <1>2 DEF Fresh, Free
<1>4. /\ W' = Greeting /\ owed' = <<"220">>
      /\ UNCHANGED <<buffer, ctrOrMsg, ftpRAWDataMsg, state, bConnect, msgcount>>
  BY GreetingCode, CallOne DEF Accept, Threads
<1>5. p # Listen
  BY FtpAssumption
<1>6. ConnOK'
  <2>1. ~Has(W', "connected")
    BY <1>4, GreetingReply
  <2> QED BY <1>1, <1>2, <1>3, <1>4, <1>5, <2>1 DEF ConnOK, Fresh
<1>7. OrderOK'
  <2>1. <<"220">> \in Bursts /\ <<"220">> \in Seq(Messages)
    BY BurstType DEF Messages
  <2>2. <<>> \o (<<"220">> \o <<>>) = <<"220">>
    <3>1. <<"220">> \o <<>> = <<"220">>
      BY <2>1, ConcatEmptySeq
    <3> QED BY <2>1, <3>1, ConcatEmptySeq
  <2>3. <<>> \in Seq(Messages)
    OBVIOUS
  <2>4. CodeOK(Greeting) /\ Fills(Greeting, Answers, <<"220">>)
    BY GreetingReply
  <2>5. mine' \in Pcbs /\ owed' = conn'[mine'].got \o (<<"220">> \o <<>>)
    BY <1>2, <1>3, <1>4, <2>2
  <2>6. InOrder(<<>>)'
    BY <1>4, <2>1, <2>3, <2>4, <2>5, CallOrder
  <2>7. Quiet'
    BY <1>1, <1>3, <1>4, GreetingReply DEF Quiet, Fresh
  <2> QED BY <2>6, <2>7 DEF OrderOK
<1>8. Counts'
  BY <1>1, <1>4, GreetingReply DEF Counts, Fresh
<1>9. ListingOK' /\ RepliesOnControl'
  BY <1>1, <1>3, <1>4 DEF ListingOK, RepliesOnControl, Fresh
<1> QED BY <1>6, <1>7, <1>8, <1>9 DEF SessionOK

\* The client sends a command when it has read all replies: no callback runs and
\* no listing is under way.
LEMMA SendSession ==
  ASSUME InputThread = TimerThread, TypeOK, Shaped, SessionOK, NEW c \in Commands,
         Send(c), faults = 0
  PROVE  SessionOK'
<1>1. mine # Listen /\ owed = <<>> /\ owed' = Replies(c) /\ mine \in Pcbs
      /\ UNCHANGED <<server, conn, mine, faults>>
  BY DEF Send, TypeOK
<1>2. conn[mine].got \in Seq(Messages)
  BY <1>1 DEF TypeOK
<1>3. ASSUME NEW rest \in Seq(Messages), InOrder(rest)
      PROVE  rest = <<>> /\ conn[mine].got = <<>> /\ Fills(W, Answers, <<>>)
  <2>1. PICK s \in Bursts :
          /\ Fills(W, Answers, s)
          /\ owed = conn[mine].got \o (InBuffer(W, buffer, Answers) \o (s \o rest))
    BY <1>3 DEF InOrder
  <2>. DEFINE g == conn[mine].got
              b == InBuffer(W, buffer, Answers)
  <2>2. g \in Seq(Messages) /\ b \in Seq(Messages) /\ s \in Seq(Messages)
    <3>1. \A v \in Answers : <<v>> \in Seq(Messages)
      BY DEF Answers
    <3>2. <<>> \in Seq(Messages)
      OBVIOUS
    <3> QED BY <1>2, <3>1, <3>2, BurstType DEF InBuffer
  <2>3. g \o (b \o (s \o rest)) = <<>>
    BY <1>1, <2>1
  <2>. HIDE DEF g, b
  <2>4. /\ s \o rest \in Seq(Messages) /\ b \o (s \o rest) \in Seq(Messages)
        /\ Len(s \o rest) = Len(s) + Len(rest)
        /\ Len(b \o (s \o rest)) = Len(b) + Len(s \o rest)
    BY <2>2, ConcatProperties
  <2>5. Len(g \o (b \o (s \o rest))) = Len(g) + Len(b \o (s \o rest))
    BY <2>2, <2>4, ConcatProperties
  <2>6. Len(g \o (b \o (s \o rest))) = 0
    BY <2>3
  <2>7. Len(g) \in Nat /\ Len(b) \in Nat /\ Len(s) \in Nat /\ Len(rest) \in Nat
    BY <2>2
  <2>8. Len(g) = 0 /\ Len(s) = 0 /\ Len(rest) = 0
    BY <2>4, <2>5, <2>6, <2>7
  <2>9. g = <<>> /\ s = <<>> /\ rest = <<>>
    BY <2>2, <2>8, EmptySeq
  <2> QED BY <2>1, <2>9 DEF g
<1>4. Quiet /\ conn[mine].got = <<>> /\ Fills(W, Answers, <<>>)
  <2>1. <<"226", "250">> \in Seq(Messages) /\ <<>> \in Seq(Messages)
        /\ <<"226", "250">> # <<>>
    BY DEF Messages
  <2> QED BY <1>1, <1>3, <2>1 DEF SessionOK, OrderOK
<1>5. conn[mine].recv
  <2>. SUFFICES ASSUME ~conn[mine].recv PROVE FALSE
    OBVIOUS
  <2>1. W = Greeting
    BY <1>1 DEF SessionOK, ConnOK
  <2>2. Greeting[2] = "220" /\ 2 \in 1 .. Len(Greeting) /\ "220" \in Answers
    BY DEF Greeting, Answers, Messages
  <2>3. \A k \in 1 .. Len(Greeting) : Greeting[k] \notin Answers
    BY <1>4, <2>1 DEF Fills
  <2> QED BY <2>2, <2>3
<1>6. W = <<>> /\ W' = Command(c)
  BY <1>5, CallOne DEF Send, Threads
<1>7. Answered(Command(c), c)
  BY CommandAnswers
<1>8. /\ \A s \in {"226", "callbacks", "connected", "line"} : ~Has(W', s)
      /\ Has(W', "LIST") => Has(W', "clear") /\ Has(W', "new")
  BY <1>6, <1>7 DEF Answered
<1>9. /\ state = "LIST" => msgcount > Rounds
      /\ \A p \in Pcbs : conn[p].use = "data" => conn[p].open
  BY <1>4, <1>6, HasEmpty DEF Quiet
<1>10. ConnOK'
  <2>1. /\ mine = ftpRAWControl
        /\ conn[mine].use = "control" /\ conn[mine].open
        /\ ftpRAWDataMsg # Listen => Data.use = "data"
        /\ bConnect => ftpRAWDataMsg # Listen /\ Data.open
    BY <1>1 DEF SessionOK, ConnOK
  <2>2. /\ mine' = mine /\ conn' = conn /\ ftpRAWControl' = ftpRAWControl
        /\ ftpRAWDataMsg' = ftpRAWDataMsg /\ bConnect' = bConnect
    BY <1>1 DEF server
  <2>3. ~Has(W', "connected") /\ mine # Listen
    BY <1>1, <1>8
  <2>4. \A p \in Pcbs : conn[p].use = "data" => conn[p].open
    BY <1>9
  <2> QED BY <1>5, <2>1, <2>2, <2>3, <2>4 DEF ConnOK, Data
<1>11. OrderOK'
  <2>1. PICK s \in Bursts : Fills(Command(c), Answers, s) /\ Replies(c) = s \o Ending(c)
    BY <1>7 DEF Answered
  <2>2. s \o Ending(c) \in Seq(Messages) /\ Ending(c) \in Seq(Messages)
    <3>1. Ending(c) \in Seq(Messages)
      <4>1. <<"226", "250">> \in Seq(Messages) /\ <<>> \in Seq(Messages)
        BY DEF Messages
      <4> QED BY <4>1 DEF Ending
    <3> QED BY <3>1, BurstType, ConcatProperties
  <2>3. owed' = conn'[mine'].got \o (s \o Ending(c))
    <3>1. <<>> \o (s \o Ending(c)) = s \o Ending(c)
      BY <2>2, ConcatEmptySeq
    <3> QED BY <1>1, <1>4, <2>1, <3>1
  <2>4. InOrder(Ending(c))'
    <3>1. CodeOK(Command(c)) /\ mine' \in Pcbs
      BY <1>1, <1>7 DEF Answered
    <3> QED BY <1>6, <2>1, <2>2, <2>3, <3>1, CallOrder
  <2>5. CASE c \in Lists
    BY <2>4, <2>5 DEF OrderOK, Ending
  <2>6. CASE c \notin Lists
    <3>1. ~Has(W', "LIST")
      BY <1>6, <1>7, <2>6 DEF Answered
    <3>2. Quiet'
      BY <1>1, <1>9, <3>1 DEF Quiet, server
    <3> QED BY <2>4, <2>6, <3>2 DEF OrderOK, Ending
  <2> QED BY <2>5, <2>6
<1>12. Counts'
  <2>1. state # "LIST" => msgcount = 0 \/ msgcount > Rounds
    BY DEF SessionOK, Counts
  <2> QED BY <1>1, <1>8, <1>9, <2>1 DEF Counts, server
<1>13. ListingOK'
  <2>1. state = "LIST" => ~(msgcount <= Rounds)
    <3>1. msgcount \in 0 .. Rounds + 2
      BY DEF TypeOK
    <3> QED BY <1>9, <3>1
  <2> QED BY <1>1, <2>1 DEF ListingOK, server
<1>14. RepliesOnControl'
  BY <1>1 DEF SessionOK, RepliesOnControl
<1> QED BY <1>10, <1>11, <1>12, <1>13, <1>14 DEF SessionOK

\* What a poll goes on with, when no callback runs.
LEMMA PollSession ==
  ASSUME InputThread = TimerThread, TypeOK, Shaped, SessionOK, NEW p \in Pcbs,
         Poll(p), faults = 0
  PROVE  SessionOK'
<1>. DEFINE n == IF msgcount < Rounds + 2 THEN msgcount + 1 ELSE msgcount
<1>1. /\ conn[p].poll
      /\ UNCHANGED <<buffer, ctrOrMsg, ftpRAWControl, ftpRAWDataMsg, state, bConnect,
                     conn, mine, owed>>
  BY DEF Poll, client
<1>2. mine # Listen /\ mine \in Pcbs
  <2>1. Fresh => conn[p] = Free
    BY DEF Fresh
  <2>2. ~Free.poll
    BY DEF Free
  <2>3. mine = Listen => Fresh
    BY DEF SessionOK, ConnOK
  <2> QED BY <1>1, <2>1, <2>2, <2>3 DEF TypeOK
<1>3. /\ mine = ftpRAWControl
      /\ conn[mine].use = "control" /\ conn[mine].open
      /\ ~conn[mine].recv => W = Greeting
      /\ ftpRAWDataMsg # Listen => Data.use = "data"
      /\ bConnect => ftpRAWDataMsg # Listen /\ Data.open
      /\ \A q \in Pcbs : conn[q].use = "data" /\ ~conn[q].open => q = ftpRAWDataMsg
  BY <1>2 DEF SessionOK, ConnOK
<1>4. W = <<>> /\ W' = IF bConnect /\ state = "LIST" THEN NextDirectory(n) ELSE <<>>
  BY CallOne DEF Poll, Threads
<1>5. n \in Nat /\ msgcount \in Nat /\ n <= Rounds + 2
  <2>1. msgcount \in 0 .. Rounds + 2
    BY DEF TypeOK
  <2> QED BY <2>1
<1>6. msgcount' = IF bConnect /\ state = "LIST" THEN n ELSE msgcount
  BY DEF Poll
<1>7. conn[mine].recv
  BY <1>3, <1>4 DEF Greeting
<1>8. \/ W' = <<>>
      \/ W' = Lines /\ bConnect /\ state = "LIST" /\ n < Rounds
      \/ W' = Completion /\ bConnect /\ state = "LIST" /\ n = Rounds + 1
  BY <1>4, <1>5, PollCode
<1>9. \A s \in {"LIST", "PASS", "IDLE", "new", "callbacks", "connected"} : ~Has(W', s)
  BY <1>8, PollReplies, HasEmpty
<1>10. \A s : ~Has(W, s)
  BY <1>4, HasEmpty
<1>11. <<"226", "250">> \in Seq(Messages) /\ <<>> \in Seq(Messages)
       /\ <<"226", "250">> \in Bursts /\ <<>> \in Bursts
  BY BurstType DEF Messages
<1>12. conn[mine].got \in Seq(Messages)
  BY <1>2 DEF TypeOK
<1>13. msgcount' = msgcount \/ msgcount' = msgcount + 1
  BY <1>6
<1>. HIDE DEF n
<1>14. ConnOK'
  BY <1>1, <1>2, <1>3, <1>7, <1>9 DEF ConnOK, Data
<1>15. OrderOK'
  <2>1. ASSUME Quiet PROVE Quiet'
    <3>1. state = "LIST" => msgcount > Rounds
      BY <1>10, <2>1 DEF Quiet
    <3>2. state = "LIST" => msgcount' > Rounds
      BY <1>5, <1>13, <3>1
    <3> QED BY <1>1, <1>9, <2>1, <3>2 DEF Quiet
  <2>2. ASSUME NEW rest \in Seq(Messages), InOrder(rest), W' # Completion
        PROVE  InOrder(rest)'
    <3>1. owed = conn[mine].got \o rest
      BY <1>2, <1>4, <2>2, IdleOrder
    <3>2. Fills(W', Answers, <<>>) /\ CodeOK(W')
      BY <1>8, <2>2, PollReplies, NoStatements
    <3>3. <<>> \o rest = rest
      BY ConcatEmptySeq
    <3>4. owed' = conn'[mine'].got \o (<<>> \o rest) /\ mine' \in Pcbs
      BY <1>1, <1>2, <3>1, <3>3
    <3> QED BY <1>11, <3>2, <3>4, CallOrder
  <2>3. CASE W' = Completion
    <3>1. n = Rounds + 1 /\ bConnect /\ state = "LIST"
      BY <1>8, <2>3, PollReplies DEF Completion, Lines
    <3>2. msgcount = Rounds /\ msgcount' = Rounds + 1
      BY <1>5, <1>6, <3>1 DEF n
    <3>3. ~Quiet
      BY <1>10, <3>1, <3>2 DEF Quiet
    <3>4. InOrder(<<"226", "250">>)
      BY <1>2, <3>3 DEF SessionOK, OrderOK
    <3>5. owed = conn[mine].got \o <<"226", "250">>
      BY <1>2, <1>4, <1>11, <3>4, IdleOrder
    <3>6. <<"226", "250">> \o <<>> = <<"226", "250">>
      BY <1>11, ConcatEmptySeq
    <3>7. InOrder(<<>>)'
      <4>1. owed' = conn'[mine'].got \o (<<"226", "250">> \o <<>>) /\ mine' \in Pcbs
        BY <1>1, <1>2, <3>5, <3>6
      <4> QED BY <1>11, <2>3, <4>1, PollReplies, CallOrder
    <3>8. Quiet'
      <4>1. msgcount' > Rounds
        BY <3>2
      <4>2. \A q \in Pcbs : conn[q].use = "data" => conn[q].open
        BY <1>3, <3>1 DEF Data
      <4> QED BY <1>1, <1>9, <4>1, <4>2 DEF Quiet
    <3> QED BY <3>7, <3>8 DEF OrderOK
  <2>4. CASE W' # Completion
    <3>1. InOrder(<<"226", "250">>) \/ (InOrder(<<>>) /\ Quiet)
      BY <1>2 DEF SessionOK, OrderOK
    <3> QED BY <1>11, <2>1, <2>2, <2>4, <3>1 DEF OrderOK
  <2> QED BY <2>3, <2>4
<1>. DEFINE Listing == state = "LIST" /\ msgcount <= Rounds
<1>16. Listing => /\ ftpRAWDataMsg # Listen /\ (bConnect \/ msgcount = 0)
                  /\ Data.got \in Seq(Messages)
                  /\ Len(Data.got) = 2 * Polled
  <2>. SUFFICES ASSUME Listing
                PROVE  /\ ftpRAWDataMsg # Listen /\ (bConnect \/ msgcount = 0)
                       /\ Data.got \in Seq(Messages)
                       /\ Len(Data.got) = 2 * Polled
    OBVIOUS
  <2>1. /\ ftpRAWDataMsg # Listen
        /\ bConnect \/ msgcount = 0
        /\ \E s \in Bursts :
             /\ Fills(W, {"line"}, s)
             /\ Len(Data.got) + Len(InBuffer(W, buffer, {"line"})) + Len(s) = 2 * Polled
    BY <1>10 DEF SessionOK, ListingOK
  <2>2. PICK s \in Bursts :
          /\ Fills(W, {"line"}, s)
          /\ Len(Data.got) + Len(InBuffer(W, buffer, {"line"})) + Len(s) = 2 * Polled
    BY <2>1
  <2>3. s = <<>> /\ InBuffer(W, buffer, {"line"}) = <<>>
    BY <1>4, <2>2, Idle
  <2>4. Data.got \in Seq(Messages)
    BY <2>1 DEF TypeOK, Data
  <2>5. Len(Data.got) + 0 + 0 = 2 * Polled /\ Len(Data.got) \in Nat
    BY <2>2, <2>3, <2>4
  <2>6. Len(Data.got) = 2 * Polled
    BY <2>5
  <2> QED BY <2>1, <2>4, <2>6
<1>17. Counts'
  <2>1. state # "LIST" => msgcount = 0 \/ msgcount > Rounds
    BY DEF SessionOK, Counts
  <2>2. state' # "LIST" => msgcount' = 0 \/ msgcount' > Rounds
    BY <1>1, <1>6, <2>1
  <2>3. ASSUME Has(W', "226")
        PROVE  /\ W' = Completion /\ msgcount' = Rounds + 1
               /\ ftpRAWDataMsg' # Listen
               /\ Len(Data'.got) = 2 * (Rounds - 1)
    <3>1. W' = Completion /\ n = Rounds + 1 /\ bConnect /\ state = "LIST"
      BY <1>8, <2>3, PollReplies, HasEmpty
    <3>2. msgcount = Rounds /\ msgcount' = Rounds + 1
      BY <1>5, <1>6, <3>1 DEF n
    <3>3. Listing
      BY <3>1, <3>2
    <3>4. Polled = Rounds - 1
      BY <3>2 DEF Polled
    <3>5. Data' = Data
      BY <1>1 DEF Data
    <3> QED BY <1>1, <1>16, <3>1, <3>2, <3>3, <3>4, <3>5
  <2> QED BY <1>9, <2>2, <2>3 DEF Counts
<1>18. ListingOK'
  <2>. SUFFICES ASSUME state' = "LIST", msgcount' <= Rounds
                PROVE  /\ ftpRAWDataMsg' # Listen
                       /\ bConnect' \/ msgcount' = 0
                       /\ \E s \in Bursts :
                            /\ Fills(W', {"line"}, s)
                            /\ Len(Data'.got) + Len(InBuffer(W', buffer', {"line"}))
                                 + Len(s) = 2 * Polled'
    BY DEF ListingOK
  <2>1. Listing
    BY <1>1, <1>5, <1>13
  <2>2. Data' = Data /\ ftpRAWDataMsg' # Listen
    BY <1>1, <1>16, <2>1 DEF Data
  <2>3. Len(Data.got) \in Nat /\ Len(Data.got) = 2 * Polled
    BY <1>16, <2>1
  <2>4. CASE W' = Lines
    <3>1. n < Rounds /\ bConnect /\ state = "LIST"
      BY <1>8, <2>4 DEF Lines, Completion
    <3>2. msgcount' = msgcount + 1 /\ msgcount + 1 < Rounds
      BY <1>5, <1>6, <3>1 DEF n
    <3>3. Polled = msgcount
      BY <1>5, <3>2 DEF Polled
    <3>4. Polled' = msgcount + 1
      BY <3>2 DEF Polled
    <3>5. InBuffer(W', buffer', {"line"}) = <<>>
      BY <2>4, PollReplies, CodeSendsNothing DEF InBuffer
    <3>6. Len(Data.got) + 0 + 2 = 2 * (msgcount + 1)
      BY <1>5, <2>3, <3>3
    <3>7. Len(<<"line", "line">>) = 2 /\ Len(<<>>) = 0
      OBVIOUS
    <3>8. Len(Data'.got) + Len(InBuffer(W', buffer', {"line"})) + Len(<<"line", "line">>)
            = 2 * Polled'
      BY <2>2, <3>4, <3>5, <3>6, <3>7
    <3>9. <<"line", "line">> \in Bursts /\ Fills(W', {"line"}, <<"line", "line">>)
      BY <2>4, PollReplies, BurstType DEF Messages
    <3> QED BY <1>1, <2>2, <3>1, <3>8, <3>9
  <2>5. CASE W' = <<>>
    <3>1. Polled' = Polled /\ (bConnect \/ msgcount' = 0)
      <4>1. CASE bConnect
        <5>1. msgcount' = n /\ W' = NextDirectory(n)
          BY <1>1, <1>4, <1>6, <4>1
        <5>2. ~(n < Rounds)
          BY <1>5, <2>5, <5>1, PollCode DEF Lines
        <5>3. n = Rounds /\ msgcount = Rounds - 1 /\ msgcount < Rounds
          BY <1>5, <5>1, <5>2, FtpAssumption DEF n
        <5>4. Polled = Rounds - 1
          BY <5>3 DEF Polled
        <5>5. Polled' = Rounds - 1
          BY <5>1, <5>3 DEF Polled
        <5> QED BY <4>1, <5>4, <5>5
      <4>2. CASE ~bConnect
        BY <1>6, <1>16, <2>1, <4>2 DEF Polled
      <4> QED BY <4>1, <4>2
    <3>2. InBuffer(W', buffer', {"line"}) = <<>>
      BY <2>5, CodeSendsNothing DEF InBuffer
    <3>3. Len(Data'.got) + Len(InBuffer(W', buffer', {"line"})) + Len(<<>>) = 2 * Polled'
      BY <2>2, <2>3, <3>1, <3>2
    <3>4. Fills(W', {"line"}, <<>>)
      BY <2>5, NoStatements
    <3> QED BY <1>1, <1>11, <2>2, <3>1, <3>3, <3>4
  <2>6. CASE W' = Completion
    <3>1. n = Rounds + 1 /\ bConnect /\ state = "LIST"
      BY <1>8, <2>6 DEF Lines, Completion
    <3>2. msgcount' = Rounds + 1
      BY <1>6, <3>1
    <3> QED BY <3>2
  <2> QED BY <1>8, <2>4, <2>5, <2>6
<1>19. RepliesOnControl'
  <2>1. RepliesOnControl
    BY DEF SessionOK
  <2> QED BY <1>1, <2>1 DEF RepliesOnControl
<1> QED BY <1>14, <1>15, <1>17, <1>18, <1>19 DEF SessionOK

\* The client accepts the data connection of a listing.
LEMMA OpenSession ==
  ASSUME InputThread = TimerThread, TypeOK, Shaped, SessionOK, NEW p \in Pcbs,
         DataOpen(p)
  PROVE  SessionOK'
<1>1. /\ conn[p].use = "data" /\ ~conn[p].open
      /\ conn' = [conn EXCEPT ![p].open = TRUE]
      /\ UNCHANGED <<buffer, ctrOrMsg, ftpRAWControl, ftpRAWDataMsg, state, bConnect,
                     msgcount, mine, owed, faults>>
  BY DEF DataOpen, server, client
<1>2. W = <<>> /\ W' = <<"connected">>
  BY CallOne DEF DataOpen, Threads
<1>3. conn \in [Pcbs -> PcbRecord]
  BY DEF TypeOK, PcbRecord
<1>4. mine # Listen /\ mine \in Pcbs
  <2>1. Fresh => conn[p] = Free
    BY DEF Fresh
  <2>2. Free.use # "data"
    BY DEF Free
  <2>3. mine = Listen => Fresh
    BY DEF SessionOK, ConnOK
  <2> QED BY <1>1, <2>1, <2>2, <2>3 DEF TypeOK
<1>5. /\ mine = ftpRAWControl
      /\ conn[mine].use = "control" /\ conn[mine].open
      /\ ~conn[mine].recv => W = Greeting
      /\ \A q \in Pcbs : conn[q].use = "data" /\ ~conn[q].open => q = ftpRAWDataMsg
  BY <1>4 DEF SessionOK, ConnOK
<1>6. p = ftpRAWDataMsg /\ p # mine /\ p # Listen
  BY <1>1, <1>5, FtpAssumption
<1>7. /\ \A q \in Pcbs : /\ conn'[q].use = conn[q].use
                         /\ conn'[q].got = conn[q].got
                         /\ conn'[q].recv = conn[q].recv
                         /\ conn[q].open => conn'[q].open
      /\ conn'[p].open
  BY <1>1, <1>3 DEF PcbRecord
<1>8. /\ conn[mine].recv
      /\ \A q \in Pcbs : conn'[q].use = "data" => conn'[q].open
  BY <1>2, <1>5, <1>6, <1>7 DEF Greeting
<1>9. /\ \A s : s # "connected" => ~Has(W', s)
      /\ \A s : ~Has(W, s)
  BY <1>2, HasEmpty DEF Has
<1>10. ConnOK'
  BY <1>1, <1>4, <1>5, <1>6, <1>7, <1>8 DEF ConnOK, Data
<1>11. OrderOK'
  <2>1. ASSUME NEW rest \in Seq(Messages), InOrder(rest) PROVE InOrder(rest)'
    <3>1. owed = conn[mine].got \o rest
      BY <1>2, <1>4, <2>1, IdleOrder
    <3>2. Fills(<<"connected">>, Answers, <<>>) /\ <<>> \in Bursts
      <4>1. \A k \in 1 .. Len(<<"connected">>) : <<"connected">>[k] \notin Answers
        BY DEF Answers, Messages
      <4> QED BY <4>1, BurstType DEF Fills
    <3>3. <<>> \o rest = rest
      BY ConcatEmptySeq
    <3>4. owed' = conn'[mine'].got \o (<<>> \o rest) /\ mine' \in Pcbs
      BY <1>1, <1>4, <1>7, <3>1, <3>3
    <3> QED BY <1>2, <3>2, <3>4, CallOrder
  <2>2. Quiet => Quiet'
    BY <1>1, <1>8, <1>9 DEF Quiet
  <2>3. InOrder(<<"226", "250">>) \/ (InOrder(<<>>) /\ Quiet)
    BY <1>4 DEF SessionOK, OrderOK
  <2>4. <<"226", "250">> \in Seq(Messages) /\ <<>> \in Seq(Messages)
    BY DEF Messages
  <2> QED BY <2>1, <2>2, <2>3, <2>4 DEF OrderOK
<1>12. Counts'
  <2>1. state # "LIST" => msgcount = 0 \/ msgcount > Rounds
    BY DEF SessionOK, Counts
  <2> QED BY <1>1, <1>2, <1>9, <2>1 DEF Counts
<1>13. ListingOK'
  <2>. SUFFICES ASSUME state' = "LIST", msgcount' <= Rounds
                PROVE  /\ ftpRAWDataMsg' # Listen
                       /\ bConnect' \/ msgcount' = 0
                       /\ \E s \in Bursts :
                            /\ Fills(W', {"line"}, s)
                            /\ Len(Data'.got) + Len(InBuffer(W', buffer', {"line"}))
                                 + Len(s) = 2 * Polled'
    BY DEF ListingOK
  <2>1. /\ bConnect \/ msgcount = 0
        /\ \E s \in Bursts :
             /\ Fills(W, {"line"}, s)
             /\ Len(Data.got) + Len(InBuffer(W, buffer, {"line"})) + Len(s) = 2 * Polled
    BY <1>1, <1>9 DEF SessionOK, ListingOK
  <2>2. PICK s \in Bursts :
          /\ Fills(W, {"line"}, s)
          /\ Len(Data.got) + Len(InBuffer(W, buffer, {"line"})) + Len(s) = 2 * Polled
    BY <2>1
  <2>3. s = <<>> /\ InBuffer(W, buffer, {"line"}) = <<>>
    BY <1>2, <2>2, Idle
  <2>4. InBuffer(W', buffer', {"line"}) = <<>>
    <3>1. ~Sending(<<"connected">>)
      BY DEF Sending, Ends
    <3> QED BY <1>2, <3>1 DEF InBuffer
  <2>5. Fills(W', {"line"}, <<>>)
    BY <1>2 DEF Fills
  <2>6. Data'.got = Data.got /\ Polled' = Polled
    BY <1>1, <1>6, <1>7 DEF Data, Polled
  <2>7. Len(Data'.got) + Len(InBuffer(W', buffer', {"line"})) + Len(<<>>) = 2 * Polled'
    BY <2>2, <2>3, <2>4, <2>6
  <2> QED BY <1>1, <1>6, <2>1, <2>5, <2>7, BurstType
<1>14. RepliesOnControl'
  BY <1>1, <1>7 DEF SessionOK, RepliesOnControl
<1> QED BY <1>10, <1>11, <1>12, <1>13, <1>14 DEF SessionOK

\* The client reads a reply.
LEMMA ReadSession ==
  ASSUME InputThread = TimerThread, TypeOK, Shaped, SessionOK, Read
  PROVE  SessionOK'
<1>1. /\ mine # Listen /\ mine \in Pcbs /\ conn[mine].got # <<>>
      /\ owed' = Tail(owed)
      /\ conn' = [conn EXCEPT ![mine].got = Tail(@)]
      /\ UNCHANGED <<work, buffer, ctrOrMsg, ftpRAWControl, ftpRAWDataMsg, state,
                     bConnect, msgcount, mine, faults>>
  BY DEF Read, server, TypeOK
<1>2. conn \in [Pcbs -> PcbRecord] /\ conn[mine].got \in Seq(Messages)
  BY <1>1 DEF TypeOK, PcbRecord
<1>3. W' = W
  BY <1>1 DEF W
<1>4. /\ mine = ftpRAWControl
      /\ conn[mine].use = "control"
      /\ ftpRAWDataMsg # Listen => Data.use = "data"
      /\ ftpRAWDataMsg \in Pcbs \cup {Listen}
  BY <1>1 DEF SessionOK, ConnOK, TypeOK
<1>5. /\ \A q \in Pcbs : /\ conn'[q].use = conn[q].use
                         /\ conn'[q].recv = conn[q].recv
                         /\ conn'[q].open = conn[q].open
                         /\ q # mine => conn'[q].got = conn[q].got
      /\ conn'[mine].got = Tail(conn[mine].got)
  BY <1>1, <1>2 DEF PcbRecord
<1>6. ftpRAWDataMsg # Listen => Data'.got = Data.got
  BY <1>1, <1>4, <1>5 DEF Data
<1>7. ConnOK'
  <2>1. ConnOK
    BY DEF SessionOK
  <2> QED BY <1>1, <1>3, <1>4, <1>5, <2>1 DEF ConnOK, Data
<1>8. OrderOK'
  <2>1. ASSUME NEW rest, InOrder(rest), rest \in Seq(Messages) PROVE InOrder(rest)'
    <3>1. PICK s \in Bursts :
            /\ Fills(W, Answers, s)
            /\ owed = conn[mine].got \o (InBuffer(W, buffer, Answers) \o (s \o rest))
      BY <2>1 DEF InOrder
    <3>. DEFINE x == conn[mine].got
                y == InBuffer(W, buffer, Answers) \o (s \o rest)
    <3>2. x \in Seq(Messages) /\ y \in Seq(Messages) /\ x # <<>>
      <4>1. \A v \in Answers : <<v>> \in Seq(Messages)
        BY DEF Answers
      <4>2. InBuffer(W, buffer, Answers) \in Seq(Messages)
        BY <4>1 DEF InBuffer
      <4>3. s \o rest \in Seq(Messages)
        BY <2>1, BurstType, ConcatProperties
      <4> QED BY <1>1, <1>2, <4>2, <4>3, ConcatProperties
    <3>3. Tail(x \o y) = Tail(x) \o y
      <4>. HIDE DEF x, y
      <4>1. /\ x \o y \in Seq(Messages) /\ Len(x \o y) = Len(x) + Len(y)
            /\ Len(x) \in Nat /\ Len(x) > 0 /\ Len(y) \in Nat
        BY <3>2, ConcatProperties
      <4>2. x \o y # <<>>
        BY <4>1
      <4>3. /\ Tail(x) \in Seq(Messages) /\ Len(Tail(x)) = Len(x) - 1
            /\ \A i \in 1 .. Len(Tail(x)) : Tail(x)[i] = x[i + 1]
        BY <3>2, Rest
      <4>4. /\ Tail(x \o y) \in Seq(Messages) /\ Len(Tail(x \o y)) = Len(x \o y) - 1
            /\ \A i \in 1 .. Len(Tail(x \o y)) : Tail(x \o y)[i] = (x \o y)[i + 1]
        BY <4>1, <4>2, Rest
      <4>. DEFINE u == Tail(x)
                  v == Tail(x \o y)
      <4>5. ASSUME NEW i \in 1 .. Len(u) PROVE v[i] = u[i]
        <5>1. i + 1 \in 1 .. Len(x) /\ i \in 1 .. Len(v)
          BY <4>1, <4>3, <4>4
        <5>2. (x \o y)[i + 1] = x[i + 1]
          BY <3>2, <5>1, ConcatProperties
        <5> QED BY <4>3, <4>4, <5>1, <5>2
      <4>6. ASSUME NEW i \in 1 .. Len(y) PROVE v[Len(u) + i] = y[i]
        <5>1. /\ Len(u) + i \in 1 .. Len(v) /\ (Len(u) + i) + 1 = Len(x) + i
              /\ Len(x) + i \in Len(x) + 1 .. Len(x) + Len(y)
              /\ (Len(x) + i) - Len(x) = i
          BY <4>1, <4>3, <4>4
        <5>2. (x \o y)[Len(x) + i] = y[i]
          BY <3>2, <4>1, <5>1, ConcatProperties
        <5>3. v[Len(u) + i] = (x \o y)[(Len(u) + i) + 1]
          BY <4>4, <5>1
        <5> QED BY <5>1, <5>2, <5>3
      <4>7. Len(v) = Len(u) + Len(y)
        BY <4>1, <4>3, <4>4
      <4>8. u \in Seq(Messages) /\ v \in Seq(Messages)
        BY <4>3, <4>4
      <4>9. u \o y = v
        <5>. HIDE DEF u, v
        <5> QED BY <3>2, <4>5, <4>6, <4>7, <4>8, Joined
      <4> QED BY <4>9
    <3>4. owed' = conn'[mine'].got \o y
      BY <1>1, <1>5, <3>1, <3>3
    <3> QED BY <1>1, <1>3, <3>1, <3>4 DEF InOrder
  <2>2. Quiet => Quiet'
    BY <1>1, <1>3, <1>5 DEF Quiet
  <2>3. InOrder(<<"226", "250">>) \/ (InOrder(<<>>) /\ Quiet)
    BY <1>1 DEF SessionOK, OrderOK
  <2>4. <<"226", "250">> \in Seq(Messages) /\ <<>> \in Seq(Messages)
    BY DEF Messages
  <2> QED BY <2>1, <2>2, <2>3, <2>4 DEF OrderOK
<1>9. Counts'
  BY <1>1, <1>3, <1>6 DEF SessionOK, Counts
<1>10. ListingOK'
  <2>1. Polled' = Polled
    BY <1>1 DEF Polled
  <2>2. ListingOK
    BY DEF SessionOK
  <2> QED BY <1>1, <1>3, <1>6, <2>1, <2>2 DEF ListingOK
<1>11. RepliesOnControl'
  <2>. SUFFICES ASSUME faults = 0, NEW p \in Pcbs, NEW i \in DOMAIN conn'[p].got
                PROVE  (conn'[p].got[i] = "line") <=> (conn'[p].use = "data")
    BY <1>1 DEF RepliesOnControl
  <2>1. \A q \in Pcbs : \A j \in DOMAIN conn[q].got :
          (conn[q].got[j] = "line") <=> (conn[q].use = "data")
    BY DEF SessionOK, RepliesOnControl
  <2>2. CASE p # mine
    BY <1>5, <2>1, <2>2
  <2>3. CASE p = mine
    <3>1. i \in 1 .. Len(Tail(conn[mine].got))
      BY <1>1, <1>2, <1>5, <2>3, Rest
    <3>2. i + 1 \in DOMAIN conn[mine].got
          /\ Tail(conn[mine].got)[i] = conn[mine].got[i + 1]
      BY <1>1, <1>2, <3>1, Rest
    <3> QED BY <1>1, <1>5, <2>1, <2>3, <3>2
  <2> QED BY <2>2, <2>3
<1> QED BY <1>7, <1>8, <1>9, <1>10, <1>11 DEF SessionOK

\* The inductive invariant, with TypeInv.
Session == Shaped /\ (faults = 0 => SessionOK)

LEMMA InitSession == ASSUME InputThread = TimerThread PROVE Init => Session
<1>. SUFFICES ASSUME Init PROVE Session
  OBVIOUS
<1>1. W = <<>> /\ mine = Listen /\ ftpRAWControl = Listen /\ ftpRAWDataMsg = Listen
      /\ conn = [p \in Pcbs |-> Free] /\ state = "USER" /\ msgcount = 0
      /\ bConnect = FALSE /\ ctrOrMsg = "eCtr" /\ owed = <<>>
  BY DEF Init, W, Threads
<1>2. Shaped
  BY <1>1, EmptyShape DEF Shaped
<1>3. Fresh
  BY <1>1 DEF Fresh
<1>4. \A s : ~Has(W, s)
  BY <1>1, HasEmpty
<1>5. \A p \in Pcbs : conn[p].use = "free" /\ conn[p].got = <<>>
  BY <1>1 DEF Free
<1>6. ConnOK
  BY <1>1, <1>3, <1>4, <1>5 DEF ConnOK
<1>7. OrderOK /\ Counts /\ ListingOK /\ RepliesOnControl
  BY <1>1, <1>4, <1>5 DEF OrderOK, Counts, ListingOK, RepliesOnControl
<1> QED BY <1>2, <1>6, <1>7 DEF Session, SessionOK

LEMMA NextShaped ==
  ASSUME InputThread = TimerThread, TypeInv, Shaped, [Next]_vars
  PROVE  Shaped'
<1>0. TypeOK
  BY DEF TypeInv
<1>1. CASE UNCHANGED <<work, buffer, ctrOrMsg>>
  BY <1>1 DEF Shaped, W
<1>2. ASSUME NEW w, CodeOK(w), W' = w PROVE Shaped'
  BY <1>2, CodeWrites DEF Shaped
<1>3. ASSUME NEW t \in Threads, Statement(t) PROVE Shaped'
  BY <1>0, <1>3, StatementExecutes, ShapedStep
<1>4. CASE Accept
  BY <1>0, <1>2, <1>4, GreetingCode, GreetingReply, CallOne DEF Accept, Threads
<1>5. ASSUME NEW c, UNCHANGED work \/ Calls(InputThread, Command(c)),
             UNCHANGED <<buffer, ctrOrMsg>>
      PROVE  Shaped'
  BY <1>0, <1>1, <1>2, <1>5, CommandAnswers, CallOne DEF Answered, Threads
<1>6. ASSUME NEW c \in Commands, Send(c) PROVE Shaped'
  BY <1>5, <1>6 DEF Send, server
<1>7. CASE Fin \/ \E p \in Pcbs : DataClose(p)
  BY <1>5, <1>7 DEF Fin, DataClose, server
<1>8. ASSUME NEW p \in Pcbs, Poll(p) PROVE Shaped'
  <2>. DEFINE n == IF msgcount < Rounds + 2 THEN msgcount + 1 ELSE msgcount
  <2>1. n \in Nat
    <3>1. msgcount \in 0 .. Rounds + 2
      BY <1>0 DEF TypeOK
    <3> QED BY <3>1
  <2>2. Calls(TimerThread, NextDirectory(n)) \/ Calls(TimerThread, <<>>)
    BY <1>8 DEF Poll
  <2>. HIDE DEF n
  <2> QED BY <1>0, <1>2, <2>1, <2>2, PollOK, NoStatements, CallOne DEF Threads
<1>9. ASSUME NEW p \in Pcbs, DataOpen(p) PROVE Shaped'
  <2>1. W' = <<"connected">>
    BY <1>0, <1>9, CallOne DEF DataOpen, Threads
  <2>2. ShapeOK(<<"connected">>)
    <3>1. /\ <<"connected">> \in Seq(Statements)
          /\ \A i \in 1 .. Len(<<"connected">>) : i \in {1}
      BY DEF Statements
    <3> QED BY <3>1 DEF ShapeOK, Has, Messages
  <2>3. WritesOK(<<"connected">>, buffer', ctrOrMsg')
    BY DEF WritesOK
  <2> QED BY <2>1, <2>2, <2>3 DEF Shaped
<1>10. CASE Read
  BY <1>1, <1>10 DEF Read, server
<1>11. CASE UNCHANGED vars
  BY <1>1, <1>11 DEF vars, server
<1> QED BY <1>3, <1>4, <1>6, <1>7, <1>8, <1>9, <1>10, <1>11 DEF Next

\* No fault is forgotten.
LEMMA FaultsGrow ==
  ASSUME TypeOK, [Next]_vars, faults' = 0
  PROVE  faults = 0 /\ ~Fin /\ \A p \in Pcbs : ~DataClose(p)
<1>0. faults \in Nat
  <2>1. faults \in 0 .. Faults + 1
    BY DEF TypeOK
  <2> QED BY <2>1
<1>1. ~Fin /\ \A p \in Pcbs : ~DataClose(p)
  BY <1>0 DEF Fin, DataClose
<1>2. \A p \in Pcbs : Aborts(p) => faults = 0
  BY <1>0 DEF Aborts
<1>a. Allocatable \subseteq Pcbs
  BY DEF Allocatable
<1>3. ASSUME NEW t \in Threads, Statement(t) PROVE faults = 0
  <2>1. CASE New(t)
    <3>1. \E p \in Pcbs : Aborts(p)
      BY <2>1, <1>a DEF New
    <3> QED BY <1>2, <3>1
  <2>2. CASE ~New(t)
    <3>1. UNCHANGED faults \/ faults' = faults + 1
      BY <1>3, <2>2 DEF Statement, Fill, Select, Write, Callbacks, Assign, At
    <3> QED BY <1>0, <3>1
  <2> QED BY <2>1, <2>2
<1>4. CASE Accept
  <2>1. \E p \in Pcbs : Aborts(p)
    BY <1>4, <1>a DEF Accept
  <2> QED BY <1>1, <1>2, <2>1
<1>5. CASE UNCHANGED vars \/ Read
  BY <1>1, <1>5 DEF vars, client, Read
<1>6. ASSUME NEW c \in Commands, Send(c) PROVE faults = 0
  BY <1>6 DEF Send
<1>7. ASSUME NEW p \in Pcbs, Poll(p) \/ DataOpen(p) PROVE faults = 0
  BY <1>7 DEF Poll, DataOpen, client
<1> QED BY <1>1, <1>3, <1>4, <1>5, <1>6, <1>7 DEF Next

LEMMA NextSession ==
  ASSUME InputThread = TimerThread, TypeInv, Session, [Next]_vars
  PROVE  Session'
<1>0. TypeOK /\ Shaped
  BY DEF TypeInv, Session
<1>. SUFFICES ASSUME faults' = 0 PROVE SessionOK'
  BY <1>0, NextShaped DEF Session
<1>1. faults = 0 /\ ~Fin /\ \A p \in Pcbs : ~DataClose(p)
  BY <1>0, FaultsGrow
<1>2. SessionOK
  BY <1>1 DEF Session
<1>3. ASSUME NEW t \in Threads, Statement(t) PROVE SessionOK'
  <2>1. Executes
    BY <1>0, <1>3, StatementExecutes
  <2>2. Appended /\ mine \in Pcbs
    BY <1>0, <1>1, <1>2, <2>1, StepAppends
  <2> QED
    BY <1>0, <1>1, <1>2, <2>1, <2>2, StepConnOK, StepOrder, StepCounts, StepListing,
       StepReplies DEF SessionOK
<1>4. CASE Accept
  BY <1>0, <1>1, <1>2, <1>4, AcceptSession
<1>5. ASSUME NEW c \in Commands, Send(c) PROVE SessionOK'
  BY <1>0, <1>1, <1>2, <1>5, SendSession
<1>6. ASSUME NEW p \in Pcbs, Poll(p) PROVE SessionOK'
  BY <1>0, <1>1, <1>2, <1>6, PollSession
<1>7. ASSUME NEW p \in Pcbs, DataOpen(p) PROVE SessionOK'
  BY <1>0, <1>1, <1>2, <1>7, OpenSession
<1>8. CASE Read
  BY <1>0, <1>1, <1>2, <1>8, ReadSession
<1>9. CASE UNCHANGED vars
  <2>1. UNCHANGED <<work, buffer, ctrOrMsg, ftpRAWControl, ftpRAWDataMsg, state,
                    bConnect, msgcount, conn, mine, owed, faults>>
    BY <1>9 DEF vars, server, client
  <2> QED
    BY <1>2, <2>1 DEF SessionOK, ConnOK, OrderOK, Counts, ListingOK, RepliesOnControl,
       W, Data, Fresh, InOrder, Quiet, Polled
<1> QED BY <1>1, <1>3, <1>4, <1>5, <1>6, <1>7, <1>8, <1>9 DEF Next

LEMMA SessionAlways ==
  ASSUME InputThread = TimerThread
  PROVE  Spec => [](TypeInv /\ Session)
<1>1. Init => Session
  BY InitSession
<1>2. TypeInv /\ Session /\ [Next]_vars => Session'
  BY NextSession
<1> QED BY <1>1, <1>2, TypeAlways, PTL DEF Spec

\* With one thread, a reply goes to the control connection and a line of a listing
\* to the data connection, however the callbacks follow each other: ctrOrMsg is set
\* before each text, and a data connection never takes the pcb of the client.
THEOREM RepliesGoToControl ==
  ASSUME InputThread = TimerThread
  PROVE  Spec => []RepliesOnControl
<1>1. Session => RepliesOnControl
  BY DEF Session, SessionOK, RepliesOnControl
<1> QED BY <1>1, SessionAlways, PTL

\* With one thread, the client is sent the replies of its commands in their order,
\* those of a listing that a poll completes included.
THEOREM RepliesComeInOrder ==
  ASSUME InputThread = TimerThread
  PROVE  Spec => []RepliesInOrder
<1>1. TypeInv /\ Session => RepliesInOrder
  <2>. SUFFICES ASSUME TypeInv, Session, faults = 0, mine # Listen
                PROVE  IsPrefix(conn[mine].got, owed)
    BY DEF RepliesInOrder
  <2>1. PICK rest \in {<<>>, <<"226", "250">>} : InOrder(rest)
    BY DEF Session, SessionOK, OrderOK
  <2>2. PICK s \in Bursts :
          owed = conn[mine].got \o (InBuffer(W, buffer, Answers) \o (s \o rest))
    BY <2>1 DEF InOrder
  <2>. DEFINE x == conn[mine].got
              y == InBuffer(W, buffer, Answers) \o (s \o rest)
  <2>3. x \in Seq(Messages) /\ y \in Seq(Messages)
    <3>1. \A v \in Answers : <<v>> \in Seq(Messages)
      BY DEF Answers
    <3>2. InBuffer(W, buffer, Answers) \in Seq(Messages)
      BY <3>1 DEF InBuffer
    <3>3. rest \in Seq(Messages)
      <4>1. <<>> \in Seq(Messages) /\ <<"226", "250">> \in Seq(Messages)
        BY DEF Messages
      <4> QED BY <2>1, <4>1
    <3>4. s \o rest \in Seq(Messages)
      BY <3>3, BurstType, ConcatProperties
    <3>5. conn[mine].got \in Seq(Messages)
      BY DEF TypeInv, TypeOK
    <3> QED BY <3>2, <3>4, <3>5, ConcatProperties
  <2>. HIDE DEF x, y
  <2>4. /\ x \o y \in Seq(Messages) /\ Len(x \o y) = Len(x) + Len(y)
        /\ Len(x) \in Nat /\ Len(y) \in Nat
        /\ \A i \in 1 .. Len(x) : (x \o y)[i] = x[i]
    BY <2>3, ConcatProperties
  <2>5. Len(x) <= Len(x \o y) /\ SubSeq(x, 1, Len(x)) = SubSeq(x \o y, 1, Len(x))
    <3>1. Len(x) <= Len(x \o y)
      BY <2>4
    <3>2. /\ SubSeq(x, 1, Len(x)) = [i \in 1 .. Len(x) |-> x[i]]
          /\ SubSeq(x \o y, 1, Len(x)) = [i \in 1 .. Len(x) |-> (x \o y)[i]]
      BY <2>3, <2>4, <3>1
    <3> QED BY <2>4, <3>1, <3>2
  <2> QED BY <2>2, <2>5 DEF IsPrefix, x, y
<1> QED BY <1>1, SessionAlways, PTL

\* With one thread, 226 comes after the whole listing: when a poll announces it, all
\* the lines of the polls before are in the data connection.
THEOREM ListingsComplete ==
  ASSUME InputThread = TimerThread
  PROVE  Spec => []ListingComplete
<1>1. TypeInv /\ Session => ListingComplete
  <2>. SUFFICES ASSUME TypeInv, Session, faults = 0, NEW t \in Threads,
                       work[t] # <<>>, Head(work[t]) = "226"
                PROVE  Len(conn[ftpRAWDataMsg].got) = 2 * (Rounds - 1)
    BY DEF ListingComplete
  <2>1. work[t] = W
    BY DEF Threads, W
  <2>2. W \in Seq(Statements)
    BY DEF Session, Shaped, ShapeOK
  <2>3. Has(W, "226")
    BY <2>1, <2>2, HasRest
  <2> QED BY <2>3 DEF Session, SessionOK, Counts, Data
<1> QED BY <1>1, SessionAlways, PTL

-----------------------------------------------------------------------------
(* The completions, with one thread, whatever the faults.                   *)

\* A completion is announced as a whole.  The state and msgcount of a listing that
\* has been completed are not those of a listing: when cmd_user has set msgcount
\* back, it still has to set the state.
Completes ==
  /\ Has(W, "226") => W = Completion /\ msgcount = Rounds + 1 /\ begun
  /\ state = "LIST" /\ ~begun /\ msgcount <= Rounds => Has(W, "PASS")

LEMMA StepCompletes ==
  ASSUME TypeOK, Shaped, Completes, Executes
  PROVE  Completes'
<1>0. /\ W # <<>> /\ W' = Tail(W)
      /\ \A s : Has(W, s) <=> Head(W) = s \/ Has(W', s)
      /\ Head(W) = "restart" => Has(W', "PASS")
  BY FirstOf DEF Shaped, Executes
<1>1. ~Has(W', "226")
  <2>. SUFFICES ASSUME Has(W', "226") PROVE FALSE
    OBVIOUS
  <2>1. W' = Tail(Completion)
    BY <1>0 DEF Completes
  <2> QED BY <2>1 DEF Completion, Has
<1>2. ASSUME state' = "LIST", ~begun', msgcount' <= Rounds PROVE Has(W', "PASS")
  <2>1. msgcount \in Nat
    <3>1. msgcount \in 0 .. Rounds + 2
      BY DEF TypeOK
    <3> QED BY <3>1
  <2>2. Head(W) # "226"
    <3>1. Head(W) = "226" => msgcount' = Rounds + 1
      BY <1>0 DEF Completes, Executes
    <3> QED BY <1>2, <3>1
  <2>3. Head(W) # "LIST" /\ ~begun
    BY <1>2, <2>2 DEF Executes
  <2>4. Head(W) \notin {"PASS", "IDLE"} /\ state = "LIST"
    BY <1>2, <2>3 DEF Executes
  <2>5. CASE Head(W) = "restart"
    BY <1>0, <2>5
  <2>6. CASE Head(W) # "restart"
    BY <1>0, <1>2, <2>3, <2>4, <2>6 DEF Completes, Executes
  <2> QED BY <2>5, <2>6
<1> QED BY <1>1, <1>2 DEF Completes

LEMMA NextCompletes ==
  ASSUME InputThread = TimerThread, TypeInv, Shaped, Completes, [Next]_vars
  PROVE  Completes'
<1>0. TypeOK
  BY DEF TypeInv
<1>1. CASE UNCHANGED <<work, state, begun, msgcount>>
  BY <1>1 DEF Completes, W
<1>2. ASSUME W = <<>>, ~Has(W', "226"), UNCHANGED <<state, begun, msgcount>>
      PROVE  Completes'
  BY <1>2, HasEmpty DEF Completes
<1>3. ASSUME NEW t \in Threads, Statement(t) PROVE Completes'
  BY <1>0, <1>3, StatementExecutes, StepCompletes
<1>4. CASE Accept
  <2>1. W = <<>> /\ W' = Greeting
    BY <1>0, <1>4, GreetingCode, CallOne DEF Accept, Threads
  <2> QED BY <1>2, <1>4, <2>1, GreetingReply DEF Accept
<1>5. ASSUME NEW c, UNCHANGED work \/ Calls(InputThread, Command(c)),
             UNCHANGED <<state, begun, msgcount>>
      PROVE  Completes'
  <2>1. ~Has(Command(c), "226")
    BY CommandAnswers DEF Answered
  <2> QED BY <1>0, <1>1, <1>2, <1>5, <2>1, CallOne DEF Threads
<1>6. ASSUME NEW c \in Commands, Send(c) PROVE Completes'
  BY <1>5, <1>6 DEF Send, server
<1>7. CASE Fin \/ \E p \in Pcbs : DataClose(p)
  BY <1>5, <1>7 DEF Fin, DataClose, server
<1>8. ASSUME NEW p \in Pcbs, Poll(p) PROVE Completes'
  <2>1. W = <<>> /\ UNCHANGED <<state, begun>>
    BY <1>0, <1>8, CallOne DEF Poll, Threads
  <2>2. CASE bConnect /\ state = "LIST"
    <3>. DEFINE n == IF msgcount < Rounds + 2 THEN msgcount + 1 ELSE msgcount
    <3>1. msgcount \in 0 .. Rounds + 2
      BY <1>0 DEF TypeOK
    <3>2. n \in Nat /\ (n <= Rounds + 1 => msgcount <= Rounds)
      BY <3>1
    <3>3. msgcount' = n /\ W' = NextDirectory(n)
      BY <1>0, <1>8, <2>2, CallOne DEF Poll, Threads
    <3>. HIDE DEF n
    <3>4. Has(W', "226") => n = Rounds + 1 /\ W' = Completion
      BY <3>2, <3>3, PollCode, PollReplies, HasEmpty
    <3>5. begun \/ ~(msgcount <= Rounds)
      BY <2>1, <2>2, HasEmpty DEF Completes
    <3>6. Has(W', "226") => begun
      BY <3>2, <3>4, <3>5
    <3>7. n <= Rounds => begun
      BY <3>2, <3>5
    <3> QED BY <2>1, <3>3, <3>4, <3>6, <3>7 DEF Completes
  <2>3. CASE ~(bConnect /\ state = "LIST")
    <3>1. W' = <<>> /\ UNCHANGED msgcount
      BY <1>0, <1>8, <2>3, CallOne DEF Poll, Threads
    <3> QED BY <1>2, <2>1, <3>1, HasEmpty
  <2> QED BY <2>2, <2>3
<1>9. ASSUME NEW p \in Pcbs, DataOpen(p) PROVE Completes'
  <2>1. W = <<>> /\ W' = <<"connected">>
    BY <1>0, <1>9, CallOne DEF DataOpen, Threads
  <2>2. ~Has(<<"connected">>, "226")
    BY DEF Has
  <2> QED BY <1>2, <1>9, <2>1, <2>2 DEF DataOpen, server
<1>10. CASE UNCHANGED vars \/ Read
  BY <1>1, <1>10 DEF Read, vars, server
<1> QED BY <1>3, <1>4, <1>6, <1>7, <1>8, <1>9, <1>10 DEF Next

\* With one thread, each 226 completes a listing of its own, whatever is closed,
\* refused, aborted or lost: a LIST or NLST has been executed since the 226 before.
THEOREM CompletionsAnswerListings ==
  ASSUME InputThread = TimerThread
  PROVE  Spec => []CompletionAnswersListing
<1>1. Init => Completes
  <2>. SUFFICES ASSUME Init PROVE Completes
    OBVIOUS
  <2>1. W = <<>> /\ state = "USER"
    BY DEF Init, W, Threads
  <2> QED BY <2>1, HasEmpty DEF Completes
<1>2. TypeInv /\ Session /\ Completes /\ [Next]_vars => Completes'
  BY NextCompletes DEF Session
<1>3. Session /\ Completes => CompletionAnswersListing
  <2>. SUFFICES ASSUME Session, Completes, NEW t \in Threads,
                       work[t] # <<>>, Head(work[t]) = "226"
                PROVE  begun
    BY DEF CompletionAnswersListing
  <2>1. work[t] = W
    BY DEF Threads, W
  <2>2. W \in Seq(Statements)
    BY DEF Session, Shaped, ShapeOK
  <2>3. Has(W, "226")
    BY <2>1, <2>2, HasRest
  <2> QED BY <2>3 DEF Completes
<1> QED BY <1>1, <1>2, <1>3, SessionAlways, PTL DEF Spec
=============================================================================
