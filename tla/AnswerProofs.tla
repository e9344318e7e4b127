---------------------------- MODULE AnswerProofs ----------------------------
(***************************************************************************)
(* Proofs about the words of an answer in Generation, for any vocabulary   *)
(* and any bounds on deltas, rounds and calls: the stored answer has every *)
(* word that was received, in order and when a step saves it, and a word   *)
(* is in the item that its tags say.                                       *)
(***************************************************************************)
EXTENDS ChatProofs

-----------------------------------------------------------------------------
(* The words of the stored answer                                          *)

\* The words are in two lists: the first ones in one, the others in the other.
SplitsAt(a, b, words, ordered) ==
  \E m \in 0..Len(words) : Hold(a, words, 0, m, ordered) /\ Hold(b, words, m, Len(words), ordered)

\* A word that is added to a list in which the words are in order, or not.
JoinsIn(new, out, w, ordered) ==
  \A words, from, to :
    /\ from \in Nat /\ to \in Nat /\ from <= to /\ words[to + 1] = w
    /\ DifferentWords(words, from, to + 1) /\ Hold(out, words, from, to, ordered)
    => Hold(new, words, from, to + 1, ordered)

\* A word that joins at the end joins, ordered or not.
LEMMA JoinsAnyway ==
  ASSUME NEW new, NEW out, NEW w, NEW ordered, WordJoins(new, out, w)
  PROVE  JoinsIn(new, out, w, ordered)
BY DEF WordJoins, JoinsIn

\* A word in the middle joins a list whose order does not count.
LEMMA JoinsAnywhere ==
  ASSUME NEW new, NEW out, ItemList(out), NEW j, NEW w, GrownAt(new, out, j, w),
         \E k \in Len(out[j].text)+1..Len(new[j].text) : new[j].text[k] = w
  PROVE  JoinsIn(new, out, w, FALSE)
<1>1. ASSUME NEW words, NEW from, NEW to, from \in Nat, to \in Nat, from <= to, words[to + 1] = w,
             DifferentWords(words, from, to + 1), Hold(out, words, from, to, FALSE)
      PROVE  Hold(new, words, from, to + 1, FALSE)
  BY <1>1, WordAdded
<1> QED BY <1>1 DEF JoinsIn

\* Some of the words differ if all do.
LEMMA FewerDiffer ==
  ASSUME NEW words, NEW to \in Nat, DifferentWords(words, 0, to), NEW from \in Nat, NEW upto \in Nat,
         from <= upto, upto <= to
  PROVE  DifferentWords(words, from, upto)
<1>1. \A n \in from+1..upto : n \in 0+1..to
  OBVIOUS
<1> QED BY <1>1 DEF DifferentWords

\* Both lists keep their words.
LEMMA SplitsKept ==
  ASSUME NEW a, NEW b, NEW words, NEW ordered, SplitsAt(a, b, words, ordered),
         Len(words) \in Nat, DifferentWords(words, 0, Len(words)),
         NEW c, NEW d, WordsKept(c, a), WordsKept(d, b)
  PROVE  SplitsAt(c, d, words, ordered)
<1>1. PICK m \in 0..Len(words) : Hold(a, words, 0, m, ordered) /\ Hold(b, words, m, Len(words), ordered)
  BY DEF SplitsAt
<1>2. /\ \A n \in 0+1..m : words[n] \notin Tag
      /\ \A n \in m+1..Len(words) : words[n] \notin Tag
  <2>1. \A n \in 0+1..Len(words) : words[n] \notin Tag
    BY DEF DifferentWords
  <2>2. \A n \in 0+1..m : n \in 0+1..Len(words)
    OBVIOUS
  <2>3. \A n \in m+1..Len(words) : n \in 0+1..Len(words)
    OBVIOUS
  <2> QED BY <2>1, <2>2, <2>3
<1>3. Hold(c, words, 0, m, ordered)
  BY <1>1, <1>2 DEF WordsKept
<1>4. Hold(d, words, m, Len(words), ordered)
  BY <1>1, <1>2 DEF WordsKept
<1> QED BY <1>3, <1>4 DEF SplitsAt

\* The second list gets the next word.
LEMMA SplitsGrows ==
  ASSUME NEW a, NEW b, NEW words, NEW ordered, SplitsAt(a, b, words, ordered), Len(words) \in Nat,
         NEW more, Len(more) = Len(words) + 1, \A n \in 1..Len(words) : more[n] = words[n],
         DifferentWords(more, 0, Len(more)),
         NEW d, JoinsIn(d, b, more[Len(words) + 1], ordered)
  PROVE  SplitsAt(a, d, more, ordered)
<1>1. PICK m \in 0..Len(words) : Hold(a, words, 0, m, ordered) /\ Hold(b, words, m, Len(words), ordered)
  BY DEF SplitsAt
<1>2. m \in Nat /\ m <= Len(words) /\ m \in 0..Len(more) /\ m <= Len(words) + 1 /\ Len(words) + 1 \in Nat
  OBVIOUS
<1>3. Hold(a, more, 0, m, ordered)
  <2>1. \A n \in 0+1..m : n \in 1..Len(words)
    BY <1>2
  <2>2. \A n \in 0+1..m : more[n] = words[n]
    BY <2>1
  <2> QED BY <1>1, <2>2, HoldAgrees
<1>4. Hold(b, more, m, Len(words), ordered)
  <2>1. \A n \in m+1..Len(words) : n \in 1..Len(words)
    BY <1>2
  <2>2. \A n \in m+1..Len(words) : more[n] = words[n]
    BY <2>1
  <2> QED BY <1>1, <2>2, HoldAgrees
<1>5. DifferentWords(more, m, Len(words) + 1)
  BY <1>2, FewerDiffer
<1>6. Hold(d, more, m, Len(words) + 1, ordered)
  BY <1>2, <1>4, <1>5 DEF JoinsIn
<1> QED BY <1>2, <1>3, <1>6 DEF SplitsAt

\* The two lists become one.
LEMMA SplitsJoined ==
  ASSUME NEW a, ItemList(a), NEW b, ItemList(b), NEW words, NEW ordered, SplitsAt(a, b, words, ordered),
         Len(words) \in Nat, DifferentWords(words, 0, Len(words)), NEW c, Joined(c, a, b)
  PROVE  SplitsAt(<<>>, c, words, ordered) /\ Hold(c, words, 0, Len(words), ordered)
<1>1. PICK m \in 0..Len(words) : Hold(a, words, 0, m, ordered) /\ Hold(b, words, m, Len(words), ordered)
  BY DEF SplitsAt
<1>2. 0 \in Nat /\ m \in Nat /\ 0 <= m /\ m <= Len(words) /\ 0 \in 0..Len(words)
  OBVIOUS
<1>3. Hold(c, words, 0, Len(words), ordered)
  BY <1>1, <1>2, HoldBoth
<1>4. Hold(<<>>, words, 0, 0, ordered)
  BY <1>2, HoldNothing
<1> QED BY <1>2, <1>3, <1>4 DEF SplitsAt

\* A list of all words so far is put aside, and the next one is empty.
LEMMA SplitsOnward ==
  ASSUME NEW b, NEW words, NEW ordered, SplitsAt(<<>>, b, words, ordered),
         Len(words) \in Nat, DifferentWords(words, 0, Len(words)), NEW c, WordsKept(c, b)
  PROVE  SplitsAt(c, <<>>, words, ordered)
<1>1. PICK m \in 0..Len(words) : Hold(<<>>, words, 0, m, ordered) /\ Hold(b, words, m, Len(words), ordered)
  BY DEF SplitsAt
<1>2. m = 0
  <2>1. Places(<<>>) = {}
    <3>1. Len(<<>>) = 0 /\ 1..0 = {}
      BY EmptySeq
    <3> QED BY <3>1, PlaceIs
  <2>2. \A n \in 0+1..m : FALSE
    BY <1>1, <2>1 DEF Hold
  <2>3. m = 0 \/ 1 \in 0+1..m
    OBVIOUS
  <2> QED BY <2>2, <2>3
<1>3. Hold(b, words, 0, Len(words), ordered)
  BY <1>1, <1>2
<1>4. \A n \in 0+1..Len(words) : words[n] \notin Tag
  BY DEF DifferentWords
<1>5. Hold(c, words, 0, Len(words), ordered)
  BY <1>3, <1>4 DEF WordsKept
<1>6. Hold(<<>>, words, Len(words), Len(words), ordered)
  BY HoldNothing
<1>7. Len(words) \in 0..Len(words)
  OBVIOUS
<1> QED BY <1>5, <1>6, <1>7 DEF SplitsAt

\* A message of words holds them.
LEMMA OneMessageHolds ==
  ASSUME NEW words \in Seq(Token), DifferentWords(words, 0, Len(words)), NEW ordered
  PROVE  SplitsAt(<<>>, <<MessageItem(words)>>, words, ordered)
<1>1. PICK r : r = MessageItem(words)
  OBVIOUS
<1>2. IsItem(r) /\ TypedItem(r) /\ r.text = words /\ Len(words) \in Nat
  BY <1>1, NewItems, TypedNew, LenProperties
<1>3. PICK out : out = <<r>>
  OBVIOUS
<1>4. Len(out) = 1 /\ out[1].text = words /\ \A i \in 1..Len(out) : i = 1
  BY <1>2, <1>3, OneTyped
<1>5. \A p \in Places(out) : \E k \in 1..Len(words) : p = <<1, k>> /\ TokenAt(out, p) = words[k]
  <2>1. ASSUME NEW p \in Places(out) PROVE \E k \in 1..Len(words) : p = <<1, k>> /\ TokenAt(out, p) = words[k]
    <3>1. PICK i \in 1..Len(out) : \E k \in 1..Len(out[i].text) : p = <<i, k>>
      BY PlaceIs
    <3>2. i = 1 /\ out[i].text = words
      BY <1>4
    <3>3. PICK k \in 1..Len(words) : p = <<1, k>>
      BY <3>1, <3>2
    <3>4. TokenAt(out, p) = words[k]
      BY <1>4, <3>3, PlaceIs
    <3> QED BY <3>3, <3>4
  <2> QED BY <2>1
<1>6. \A k \in 1..Len(words) : <<1, k>> \in Places(out) /\ TokenAt(out, <<1, k>>) = words[k]
  <2>1. 1 \in 1..Len(out)
    BY <1>4
  <2> QED BY <1>4, <2>1, PlaceOf
<1>7. \A p \in Places(out) : \E n \in 0+1..Len(words) : TokenAt(out, p) = words[n]
  BY <1>5
<1>8. \A n \in 0+1..Len(words) : \E p \in Places(out) : TokenAt(out, p) = words[n]
  <2>1. \A n \in 0+1..Len(words) : n \in 1..Len(words)
    OBVIOUS
  <2> QED BY <1>6, <2>1
<1>9. ASSUME NEW p \in Places(out), NEW q \in Places(out), Before(p, q),
             NEW m \in 0+1..Len(words), NEW n \in 0+1..Len(words),
             TokenAt(out, p) = words[m], TokenAt(out, q) = words[n]
      PROVE  m # n /\ (ordered => m < n)
  <2>1. PICK k \in 1..Len(words) : p = <<1, k>> /\ TokenAt(out, p) = words[k]
    BY <1>5
  <2>2. PICK l \in 1..Len(words) : q = <<1, l>> /\ TokenAt(out, q) = words[l]
    BY <1>5
  <2>3. k < l
    <3>1. Before(<<1, k>>, <<1, l>>)
      BY <1>9, <2>1, <2>2
    <3>2. 1 < 1 \/ (1 = 1 /\ k < l)
      BY <3>1, BeforeIs
    <3> QED BY <3>2
  <2>4. k = m /\ l = n
    BY <1>9, <2>1, <2>2 DEF DifferentWords
  <2> QED BY <2>3, <2>4
<1>10. Hold(out, words, 0, Len(words), ordered)
  BY <1>7, <1>8, <1>9 DEF Hold
<1>11. Hold(<<>>, words, 0, 0, ordered) /\ 0 \in 0..Len(words)
  BY <1>2, HoldNothing
<1> QED BY <1>1, <1>3, <1>10, <1>11 DEF SplitsAt

\* Where nothing has been put aside.
OneList == pc \in {"payload", "shown", "tools", "calling", "request"} \/ caller \in {"none", "first"}

\* Whatever has been received is in the lists of the answer, and in what has
\* been stored of it.
SplitInv ==
  /\ Aligned => SplitsAt(prior, output, received, style = "chat")
  /\ OneList => prior = <<>>
  /\ db.done /\ ~realtime =>
       /\ pc \in {"background", "cancelling", "over"}
       /\ Aligned => SplitsAt(prior, db.output, received, style = "chat")

\* SplitInv holds at the start.
LEMMA SplitInit == GenerationInit => SplitInv
<1> SUFFICES ASSUME GenerationInit PROVE SplitInv
  OBVIOUS
<1>1. ReadInv
  BY ReadInit
<1>2. /\ received \in {<<>>, <<Earlier>>} /\ output = (IF received = <<>> THEN <<>> ELSE <<MessageItem(received)>>)
      /\ prior = <<>> /\ db.done = FALSE
  BY DEF GenerationInit
<1>3. received \in Seq(Token) /\ DifferentWords(received, 0, Len(received)) /\ Len(received) \in Nat
  <2>1. <<Earlier>> \in Seq(Token)
    BY DEF Token
  <2> QED BY <1>1, <1>2, <2>1, EmptySeq, LenProperties DEF ReadInv
<1>4. SplitsAt(prior, output, received, style = "chat")
  <2>1. CASE received = <<>>
    <3>1. Len(received) = 0 /\ 0 \in 0..0
      BY <2>1, EmptySeq
    <3>2. Hold(<<>>, received, 0, 0, style = "chat")
      BY HoldNothing
    <3> QED BY <1>2, <2>1, <3>1, <3>2 DEF SplitsAt
  <2>2. CASE received # <<>>
    BY <1>2, <1>3, <2>2, OneMessageHolds
  <2> QED BY <2>1, <2>2
<1> QED BY <1>2, <1>4 DEF SplitInv

\* The items of the round keep their words, and nothing new is read.
LEMMA SplitQuiet ==
  ASSUME ReadInv, SplitInv, UNCHANGED <<style, realtime, received, prior>>,
         Aligned => WordsKept(output', output),
         realtime \/ (db'.done = db.done /\ db'.output = db.output),
         OneList' => OneList,
         pc \in {"background", "cancelling", "over"} => pc' \in {"background", "cancelling", "over"}
  PROVE  SplitInv'
<1>1. Len(received) \in Nat /\ DifferentWords(received, 0, Len(received))
  BY LenProperties DEF ReadInv
<1>2. Aligned' <=> Aligned
  BY DEF Aligned, Fresh
<1>3. Aligned => SplitsAt(prior, output', received, style = "chat")
  BY <1>1, WordsKeptItself, SplitsKept DEF SplitInv
<1>4. Aligned' => SplitsAt(prior', output', received', (style = "chat")')
  BY <1>2, <1>3
<1>5. OneList' => prior' = <<>>
  BY DEF SplitInv
<1>6. db'.done /\ ~realtime' =>
       /\ pc' \in {"background", "cancelling", "over"}
       /\ Aligned' => SplitsAt(prior', db'.output, received', (style = "chat")')
  BY <1>2 DEF SplitInv
<1> QED BY <1>4, <1>5, <1>6 DEF SplitInv

\* A word is read while nothing has been stored.
LEMMA SplitReads ==
  ASSUME ReadInv, SplitInv, UNCHANGED <<style, realtime, prior, caller>>, pc = "stream",
         received' = Append(received, NextWord), sent < MaxSent, caller # "none", pc' \in {"stream", "ended"},
         realtime \/ db'.done = db.done,
         Aligned => JoinsIn(output', output, NextWord, style = "chat")
  PROVE  SplitInv'
<1>1. PICK more : more = Append(received, NextWord)
  OBVIOUS
<1>2. /\ Len(more) = Len(received) + 1 /\ Len(received) \in Nat /\ more[Len(received) + 1] = NextWord
      /\ \A m \in 1..Len(received) : more[m] = received[m]
      /\ DifferentWords(more, 0, Len(more))
  BY <1>1, WordReceived
<1>3. received \in Seq(Range(received))
  BY LenProperties, SeqDef DEF ReadInv, Range
<1>4. Fresh' => Fresh
  BY <1>3, AppendWord DEF Fresh
<1>5. Aligned' => Aligned
  BY <1>4 DEF Aligned
<1>6. Aligned => SplitsAt(prior, output', more, style = "chat")
  BY <1>2, SplitsGrows DEF SplitInv
<1>7. Aligned' => SplitsAt(prior', output', received', (style = "chat")')
  BY <1>1, <1>5, <1>6
<1>8. OneList' => OneList
  BY DEF OneList
<1>9. realtime' \/ ~db'.done
  BY DEF SplitInv
<1> QED BY <1>7, <1>8, <1>9 DEF SplitInv

\* The answer is stored.
LEMMA SplitSaves ==
  ASSUME ReadInv, SplitInv, DbIs, UNCHANGED <<style, realtime, received, prior, caller>>, WordsKept(output', output),
         SaveDone(output') \/ db' = [db EXCEPT !.done = TRUE, !.output = output'],
         pc' \in {"background", "over"}
  PROVE  SplitInv'
<1>1. Len(received) \in Nat /\ DifferentWords(received, 0, Len(received))
  BY LenProperties DEF ReadInv
<1>2. Aligned' <=> Aligned
  BY DEF Aligned, Fresh
<1>3. Aligned => SplitsAt(prior, output', received, style = "chat")
  BY <1>1, WordsKeptItself, SplitsKept DEF SplitInv
<1>4. Aligned' => SplitsAt(prior', output', received', (style = "chat")')
  BY <1>2, <1>3
<1>5. OneList' => prior' = <<>>
  BY DEF SplitInv, OneList
<1>6. ~realtime => db'.output = output'
  <2>1. CASE SaveDone(output')
    <3>1. db'.output = IF realtime THEN db.output ELSE output'
      BY <2>1, DbSaves
    <3> QED BY <3>1
  <2>2. CASE db' = [db EXCEPT !.done = TRUE, !.output = output']
    BY <2>2, DbSaves
  <2> QED BY <2>1, <2>2
<1>7. db'.done /\ ~realtime' =>
       /\ pc' \in {"background", "cancelling", "over"}
       /\ Aligned' => SplitsAt(prior', db'.output, received', (style = "chat")')
  <2> SUFFICES ASSUME ~realtime' PROVE Aligned' => SplitsAt(prior', db'.output, received', (style = "chat")')
    OBVIOUS
  <2>1. ~realtime /\ db'.output = output'
    BY <1>6
  <2> QED BY <1>4, <2>1
<1> QED BY <1>4, <1>5, <1>7 DEF SplitInv

\* An answer that is not streamed.
LEMMA SplitWhole ==
  ASSUME AnswerInv, ReadInv, ReadInv', ListsInv, SplitInv, UNCHANGED <<style, realtime>>, ResponseWhole
  PROVE  SplitInv'
<1>1. /\ pc = "payload" /\ pc' = "shown" /\ UNCHANGED <<prior, db, caller>>
  BY DEF ResponseWhole
<1>2. output' = <<MessageItem(received')>> /\ received' \in Seq(Token)
  BY ResponseWholeLists
<1>3. prior = <<>> /\ ~(db.done /\ ~realtime)
  BY <1>1 DEF SplitInv, OneList
<1>4. DifferentWords(received', 0, Len(received'))
  BY DEF ReadInv
<1>5. SplitsAt(<<>>, <<MessageItem(received')>>, received', (style = "chat")')
  BY <1>2, <1>4, OneMessageHolds
<1>6. SplitsAt(prior', output', received', (style = "chat")')
  BY <1>1, <1>2, <1>3, <1>5
<1> QED BY <1>1, <1>3, <1>6 DEF SplitInv

\* The end of a stream: what was put aside comes back.
LEMMA SplitEnds ==
  ASSUME AnswerInv, ReadInv, ListsInv, SplitInv, UNCHANGED <<style, realtime>>, StreamEnds
  PROVE  SplitInv'
<1>1. /\ pc \in {"stream", "ended"} /\ pc' = (IF caller = "code" THEN "code" ELSE "tools")
      /\ UNCHANGED <<caller, received, db>>
  BY DEF StreamEnds, Goto, reading
<1>2. PICK tidy : tidy = CleanUp(output)
  OBVIOUS
<1>3. /\ Listed(tidy, issued) /\ WordsKept(tidy, output)
      /\ output' = (IF caller = "tools" THEN prior \o tidy ELSE tidy)
      /\ prior' = (IF caller = "tools" THEN <<>> ELSE prior)
  BY <1>2, StreamEndsLists
<1>4. Len(received) \in Nat /\ DifferentWords(received, 0, Len(received))
  BY LenProperties DEF ReadInv
<1>5. Aligned' <=> Aligned
  BY <1>1 DEF Aligned, Fresh
<1>6. Aligned => SplitsAt(prior, tidy, received, style = "chat")
  BY <1>3, <1>4, WordsKeptItself, SplitsKept DEF SplitInv
<1>7. caller \in {"first", "tools", "code"} /\ (caller = "first" => prior = <<>>) /\ ~(db.done /\ ~realtime)
  BY <1>1 DEF AnswerInv, StreamInv, SplitInv, OneList
<1>8. CASE caller = "tools"
  <2>1. output' = prior \o tidy /\ prior' = <<>>
    BY <1>3, <1>8
  <2>2. ItemList(prior) /\ ItemList(tidy)
    BY <1>3 DEF ListsInv, Listed, TypedList
  <2>3. PICK c : c = prior \o tidy
    OBVIOUS
  <2>4. Joined(c, prior, tidy)
    BY <2>2, <2>3, ConcatJoins
  <2>5. Aligned => SplitsAt(<<>>, c, received, style = "chat")
    BY <1>4, <1>6, <2>2, <2>4, SplitsJoined
  <2>6. Aligned' => SplitsAt(prior', output', received', (style = "chat")')
    BY <1>1, <1>5, <2>1, <2>3, <2>5
  <2> QED BY <1>1, <1>7, <2>1, <2>6 DEF SplitInv
<1>9. CASE caller # "tools"
  <2>1. output' = tidy /\ prior' = prior
    BY <1>3, <1>9
  <2>2. Aligned' => SplitsAt(prior', output', received', (style = "chat")')
    BY <1>1, <1>5, <1>6, <2>1
  <2>3. OneList' => prior' = <<>>
    BY <1>1, <1>7, <1>9, <2>1 DEF OneList
  <2> QED BY <1>1, <1>7, <2>2, <2>3 DEF SplitInv
<1> QED BY <1>8, <1>9

\* The next answer is read into a list of its own.
LEMMA SplitTools ==
  ASSUME ReadInv, ListsInv, SplitInv, UNCHANGED <<style, realtime>>, ToolRequest
  PROVE  SplitInv'
<1>1. pc = "request" /\ pc' = "stream" /\ caller' = "tools" /\ UNCHANGED <<received, db>>
  BY DEF ToolRequest
<1>2. WordsKept(prior', output) /\ output' = <<>>
  BY ToolRequestLists
<1>3. Len(received) \in Nat /\ DifferentWords(received, 0, Len(received))
  BY LenProperties DEF ReadInv
<1>4. Aligned' <=> Aligned
  BY <1>1 DEF Aligned, Fresh
<1>5. prior = <<>> /\ ~(db.done /\ ~realtime)
  BY <1>1 DEF SplitInv, OneList
<1>6. Aligned => SplitsAt(<<>>, output, received, style = "chat")
  BY <1>5 DEF SplitInv
<1>7. Aligned => SplitsAt(prior', <<>>, received, style = "chat")
  BY <1>2, <1>3, <1>6, SplitsOnward
<1>8. Aligned' => SplitsAt(prior', output', received', (style = "chat")')
  BY <1>1, <1>2, <1>4, <1>7
<1>9. ~OneList'
  BY <1>1 DEF OneList
<1> QED BY <1>1, <1>5, <1>8, <1>9 DEF SplitInv

\* While the events of a response are read, an index finds its item.
LEMMA ItemsMatch ==
  ASSUME AnswerInv, AlignInv, ListsInv, Aligned, style = "responses", pc = "stream"
  PROVE  /\ Len(output) = Len(response) /\ DOMAIN response = 1..Len(output)
         /\ \A i \in 1..Len(output) : output[i].type = response[i].type /\ output[i].text = response[i].text
<1>1. ResponseAligned /\ Fresh
  BY DEF AlignInv, Aligned
<1>2. Len(output) = Len(response) /\ \A i \in DOMAIN output : output[i].type = response[i].type /\ output[i].text = response[i].text
  BY <1>1 DEF ResponseAligned
<1>3. DOMAIN output = 1..Len(output) /\ DOMAIN response = 1..Len(response)
  BY ListIs DEF ListsInv, Listed, TypedList
<1> QED BY <1>2, <1>3

\* SplitInv after a text delta, ...
LEMMA SplitText ==
  ASSUME ReadInv, ListsInv, SplitInv, UNCHANGED <<style, realtime>>, NEW chunk \in Chunk, TextDelta(chunk)
  PROVE  SplitInv'
<1>1. /\ pc = "stream" /\ pc' \in {"stream", "ended"} /\ UNCHANGED <<caller, prior>>
      /\ received' = (IF NextWord \in Range(chunk) THEN Append(received, NextWord) ELSE received)
      /\ db' = db \/ SaveRealtime(output')
  BY DEF TextDelta, Goto
<1>2. ChunkJoins(output', output, chunk, NextWord) /\ sent < MaxSent /\ caller # "none"
  BY TextDeltaLists
<1>3. realtime \/ (db'.done = db.done /\ db'.output = db.output)
  BY <1>1 DEF SaveRealtime
<1>4. realtime \/ db'.done = db.done
  BY <1>3
<1>5. CASE NextWord \in Range(chunk)
  <2>1. JoinsIn(output', output, NextWord, style = "chat")
    BY <1>2, <1>5, JoinsAnyway DEF ChunkJoins
  <2>2. received' = Append(received, NextWord)
    BY <1>1, <1>5
  <2>3. Aligned => JoinsIn(output', output, NextWord, style = "chat")
    BY <2>1
  <2> QED BY <1>1, <1>2, <1>4, <2>2, <2>3, SplitReads
<1>6. CASE NextWord \notin Range(chunk)
  <2>1. WordsKept(output', output) /\ received' = received
    BY <1>1, <1>2, <1>6 DEF ChunkJoins
  <2>2. OneList' => OneList
    BY <1>1 DEF OneList
  <2> QED BY <1>1, <1>3, <2>1, <2>2, SplitQuiet
<1> QED BY <1>5, <1>6

\* ... after native reasoning, ...
LEMMA SplitReasoning ==
  ASSUME ReadInv, ListsInv, SplitInv, UNCHANGED <<style, realtime>>, ReasoningDelta
  PROVE  SplitInv'
<1>1. pc = "stream" /\ UNCHANGED <<pc, caller, prior, db>> /\ received' = Append(received, NextWord)
  BY DEF ReasoningDelta, control
<1>2. WordJoins(output', output, NextWord) /\ sent < MaxSent /\ caller # "none"
  BY ReasoningDeltaLists
<1>3. Aligned => JoinsIn(output', output, NextWord, style = "chat")
  BY <1>2, JoinsAnyway
<1>4. (realtime \/ db'.done = db.done) /\ pc' \in {"stream", "ended"}
  BY <1>1
<1> QED BY <1>1, <1>2, <1>3, <1>4, SplitReads

\* ... after a delta ...
LEMMA SplitDelta ==
  ASSUME AnswerInv, AlignInv, ReadInv, ListsInv, SplitInv, UNCHANGED <<style, realtime>>,
         NEW i \in DOMAIN response, EventDelta(i)
  PROVE  SplitInv'
<1>1. /\ pc = "stream" /\ style = "responses" /\ UNCHANGED <<pc, caller, prior, db>>
      /\ received' = Append(received, NextWord) /\ response[i].type \in {"message", "reasoning"}
  BY DEF EventDelta, control
<1>2. /\ sent < MaxSent /\ caller # "none"
      /\ i \in 1..Len(output) /\ output[i].type \in {"message", "reasoning"} =>
           /\ GrownAt(output', output, i, NextWord)
           /\ \E k \in Len(output[i].text)+1..Len(output'[i].text) : output'[i].text[k] = NextWord
  BY EventDeltaLists
<1>3. ASSUME Aligned PROVE JoinsIn(output', output, NextWord, style = "chat")
  <2>1. i \in 1..Len(output) /\ output[i].type \in {"message", "reasoning"}
    BY <1>1, <1>3, ItemsMatch
  <2>2. ItemList(output)
    BY DEF ListsInv, Listed, TypedList
  <2>3. JoinsIn(output', output, NextWord, FALSE)
    BY <1>2, <2>1, <2>2, JoinsAnywhere
  <2>4. (style = "chat") = FALSE
    BY <1>1
  <2> QED BY <2>3, <2>4
<1>4. (realtime \/ db'.done = db.done) /\ pc' \in {"stream", "ended"} /\ (Aligned => JoinsIn(output', output, NextWord, style = "chat"))
  BY <1>1, <1>3
<1> QED BY <1>1, <1>2, <1>4, SplitReads

\* ... or a done event of the Responses API, ...
LEMMA SplitDone ==
  ASSUME AnswerInv, AlignInv, ReadInv, ListsInv, SplitInv, UNCHANGED <<style, realtime>>,
         NEW i \in DOMAIN response, EventDone(i)
  PROVE  SplitInv'
<1>1. pc = "stream" /\ style = "responses" /\ UNCHANGED <<pc, caller, prior, received, db>>
  BY DEF EventDone, control
<1>2. ASSUME Aligned PROVE WordsKept(output', output)
  <2>1. i \in 1..Len(output) /\ response[i].text = output[i].text
    BY <1>1, <1>2, ItemsMatch
  <2> QED BY <2>1, EventDoneLists
<1>3. OneList' => OneList
  BY <1>1 DEF OneList
<1>4. /\ realtime \/ (db'.done = db.done /\ db'.output = db.output)
      /\ pc \in {"background", "cancelling", "over"} => pc' \in {"background", "cancelling", "over"}
  BY <1>1
<1> QED BY <1>1, <1>2, <1>3, <1>4, SplitQuiet

\* ... and after response.completed, which gives the items anew.
LEMMA SplitCompleted ==
  ASSUME AnswerInv, AlignInv, ReadInv, ListsInv, SplitInv, UNCHANGED <<style, realtime>>, EventCompleted
  PROVE  SplitInv'
<1>1. /\ pc = "stream" /\ style = "responses" /\ pc' = "ended" /\ UNCHANGED <<caller, prior, received, db>>
      /\ output' = Completed(response)
  BY DEF EventCompleted, Goto, reading
<1>2. ASSUME Aligned PROVE WordsKept(output', output)
  <2>1. Len(output) = Len(response) /\ \A i \in 1..Len(output) : output[i].text = response[i].text
    BY <1>1, <1>2, ItemsMatch
  <2>2. TypedList(output) /\ TypedList(response)
    BY DEF ListsInv, Listed
  <2>3. WordsKept(response, output)
    BY <2>1, <2>2, SameTextsKeep
  <2>4. WordsKept(output', response)
    BY <1>1, <2>2, CompletedTyped
  <2> QED BY <2>3, <2>4, WordsKeptFurther
<1>3. OneList' => OneList
  BY <1>1 DEF OneList
<1>4. /\ realtime \/ (db'.done = db.done /\ db'.output = db.output)
      /\ pc \in {"background", "cancelling", "over"} => pc' \in {"background", "cancelling", "over"}
  BY <1>1
<1> QED BY <1>1, <1>2, <1>3, <1>4, SplitQuiet

\* Steps that neither read nor store the answer.
LEMMA SplitOther ==
  ASSUME AnswerInv, ReadInv, ListsInv, SplitInv, ControlInv, UNCHANGED <<style, realtime>>,
         \/ ResponseStreams \/ PayloadFails \/ CallDelta \/ StreamFails
         \/ ToolsOver \/ RunTool \/ ResultFails \/ ToolRequestFails
         \/ CodeRound \/ CodeRequest \/ CodeRequestFails
         \/ BackgroundEnds \/ BackgroundFails \/ CancelGeneration \/ UNCHANGED generationVars
  PROVE  SplitInv'
<1>1. UNCHANGED <<received, prior, output>>
  <2>1. CASE ResponseStreams \/ PayloadFails \/ CallDelta \/ StreamFails
    BY <2>1 DEF ResponseStreams, PayloadFails, CallDelta, StreamFails, items, reading
  <2>2. CASE ToolsOver \/ RunTool \/ ResultFails \/ ToolRequestFails
    BY <2>2 DEF ToolsOver, RunTool, ResultFails, ToolRequestFails, items, reading
  <2>3. CASE CodeRound \/ CodeRequest \/ CodeRequestFails
    BY <2>3 DEF CodeRound, CodeRequest, CodeRequestFails, items, reading
  <2>4. CASE BackgroundEnds \/ BackgroundFails \/ CancelGeneration \/ UNCHANGED generationVars
    BY <2>4 DEF BackgroundEnds, BackgroundFails, CancelGeneration, generationVars, items, reading
  <2> QED BY <2>1, <2>2, <2>3, <2>4
<1>2. UNCHANGED db \/ SaveError
  BY DEF ResponseStreams, PayloadFails, CallDelta, StreamFails, ToolsOver, RunTool, ResultFails, ToolRequestFails,
     CodeRound, CodeRequest, CodeRequestFails, BackgroundEnds, BackgroundFails, CancelGeneration, generationVars
<1>3. DbIs
  BY DEF ListsInv
<1>4. db'.done = db.done /\ db'.output = db.output
  BY <1>2, <1>3, DbSaves
<1>5. Aligned => WordsKept(output', output)
  BY <1>1, WordsKeptItself
<1>6. OneList' => OneList
  <2>1. CASE \/ ResponseStreams \/ PayloadFails \/ ResultFails \/ BackgroundEnds \/ BackgroundFails \/ CodeRound
             \/ CodeRequestFails \/ ToolsOver \/ ToolRequestFails
    BY <2>1 DEF ResponseStreams, PayloadFails, ResultFails, BackgroundEnds, BackgroundFails, CodeRound, CodeRequestFails,
       ToolsOver, ToolRequestFails, Goto, OneList
  <2>2. CASE CallDelta \/ RunTool \/ UNCHANGED generationVars
    BY <2>2 DEF CallDelta, RunTool, generationVars, control, OneList
  <2>3. CASE StreamFails
    <3>1. caller \in {"first", "tools", "code"} /\ caller' = caller
      BY <2>3 DEF StreamFails, Goto, AnswerInv, StreamInv
    <3>2. pc' \in {"over", "code", "save"}
      BY <2>3, <3>1 DEF StreamFails, Goto
    <3> QED BY <3>1, <3>2 DEF OneList
  <2>4. CASE CodeRequest
    <3>1. caller' = "code" /\ pc' = "stream"
      BY <2>4 DEF CodeRequest
    <3> QED BY <3>1 DEF OneList
  <2>5. CASE CancelGeneration
    <3>1. caller' = caller /\ pc' \in {"over", "cancelling"}
      BY <2>5 DEF CancelGeneration
    <3> QED BY <3>1 DEF OneList
  <2> QED BY <2>1, <2>2, <2>3, <2>4, <2>5
<1>7. pc \in {"background", "cancelling", "over"} => pc' \in {"background", "cancelling", "over"}
  <2> SUFFICES ASSUME pc \in {"background", "cancelling", "over"} PROVE pc' \in {"background", "cancelling", "over"}
    OBVIOUS
  <2>1. CASE BackgroundEnds \/ BackgroundFails \/ CancelGeneration \/ UNCHANGED generationVars
    BY <2>1 DEF BackgroundEnds, BackgroundFails, CancelGeneration, generationVars, control, Goto
  <2>2. CASE \/ ResponseStreams \/ PayloadFails \/ CallDelta \/ StreamFails
             \/ ToolsOver \/ RunTool \/ ResultFails \/ ToolRequestFails
             \/ CodeRound \/ CodeRequest \/ CodeRequestFails
    BY <2>2 DEF ResponseStreams, PayloadFails, CallDelta, StreamFails,
         ToolsOver, RunTool, ResultFails, ToolRequestFails,
         CodeRound, CodeRequest, CodeRequestFails
  <2> QED BY <2>1, <2>2
<1> QED BY <1>1, <1>4, <1>5, <1>6, <1>7, SplitQuiet

\* Items are added or completed, and no word is read.
LEMMA SplitRounds ==
  ASSUME AnswerInv, ReadInv, ListsInv, SplitInv, UNCHANGED <<style, realtime>>,
         \/ \E type \in {"message", "reasoning", "call"} : EventAdded(type)
         \/ ToolRound \/ ToolResults \/ CodeResult
  PROVE  SplitInv'
<1>1. UNCHANGED <<received, prior, db, caller>> /\ pc \notin {"background", "cancelling", "over"}
  BY DEF EventAdded, ToolRound, ToolResults, CodeResult, Goto, control, reading
<1>2. WordsKept(output', output)
  BY EventAddedLists, ToolRoundLists, ToolResultsLists, CodeResultLists
<1>3. OneList' => OneList
  <2>1. CASE \E type \in {"message", "reasoning", "call"} : EventAdded(type)
    BY <2>1 DEF EventAdded, control, OneList
  <2>2. CASE ToolRound \/ ToolResults
    BY <2>2 DEF ToolRound, ToolResults, OneList
  <2>3. CASE CodeResult
    BY <2>3 DEF CodeResult, Goto, OneList
  <2> QED BY <2>1, <2>2, <2>3
<1>4. Aligned => WordsKept(output', output)
  BY <1>2
<1>5. realtime \/ (db'.done = db.done /\ db'.output = db.output)
  BY <1>1
<1> QED BY <1>1, <1>3, <1>4, <1>5, SplitQuiet

\* The provider and the option do not change.
LEMMA ConfigKept == [GenerationNext]_generationVars => UNCHANGED <<style, realtime>>
BY DEF GenerationNext, Progress, Deltas, Events, generationVars, config,
   ResponseStreams, PayloadFails, ResponseWhole, SaveWhole, TextDelta, ReasoningDelta, CallDelta,
   EventAdded, EventDelta, EventDone, EventCompleted, StreamEnds, StreamFails, ToolRound, ToolsOver,
   RunTool, ResultFails, ToolResults, ToolRequest, ToolRequestFails, CodeRound, CodeResult,
   CodeRequest, CodeRequestFails, Save, BackgroundEnds, BackgroundFails, CancelSave, CancelGeneration

\* Every step keeps SplitInv.
LEMMA SplitStep ==
  TypeInv /\ TypeInv' /\ AlignInv /\ SplitInv /\ [GenerationNext]_generationVars => SplitInv'
<1> SUFFICES ASSUME TypeInv, TypeInv', AlignInv, SplitInv, [GenerationNext]_generationVars PROVE SplitInv'
  OBVIOUS
<1>1. AnswerInv /\ ReadInv /\ ListsInv /\ ControlInv /\ ReadInv' /\ DbIs
  BY DEF TypeInv, ListsInv
<1>2. UNCHANGED <<style, realtime>>
  BY ConfigKept
<1>3. CASE \/ ResponseStreams \/ PayloadFails \/ CallDelta \/ StreamFails
           \/ ToolsOver \/ RunTool \/ ResultFails \/ ToolRequestFails
           \/ CodeRound \/ CodeRequest \/ CodeRequestFails
           \/ BackgroundEnds \/ BackgroundFails \/ CancelGeneration \/ UNCHANGED generationVars
  BY <1>1, <1>2, <1>3, SplitOther
<1>4. CASE \/ \E type \in {"message", "reasoning", "call"} : EventAdded(type)
           \/ ToolRound \/ ToolResults \/ CodeResult
  BY <1>1, <1>2, <1>4, SplitRounds
<1>5. CASE ResponseWhole
  BY <1>1, <1>2, <1>5, SplitWhole
<1>6. CASE SaveWhole \/ CancelSave
  <2>1. /\ UNCHANGED <<output, prior, received, caller>> /\ pc' \in {"background", "over"}
        /\ SaveDone(output') \/ db' = [db EXCEPT !.done = TRUE, !.output = output']
    <3>1. CASE SaveWhole
      BY <3>1 DEF SaveWhole, Goto, items, reading
    <3>2. CASE CancelSave
      <4>1. UNCHANGED <<output, prior, received, caller>> /\ pc' = "over" /\ SaveDone(output)
        BY <3>2 DEF CancelSave, Goto, items, reading
      <4> QED BY <4>1
    <3> QED BY <1>6, <3>1, <3>2
  <2>2. WordsKept(output', output)
    BY <2>1, WordsKeptItself
  <2> QED BY <1>1, <1>2, <2>1, <2>2, SplitSaves
<1>7. CASE Save
  <2>1. /\ UNCHANGED <<prior, received, caller>> /\ pc' = "background" /\ SaveDone(output')
    BY <1>7 DEF Save, Goto, reading
  <2>2. WordsKept(output', output)
    BY <1>1, <1>7, SaveLists
  <2> QED BY <1>1, <1>2, <2>1, <2>2, SplitSaves
<1>8. ASSUME NEW chunk \in Chunk, TextDelta(chunk) PROVE SplitInv'
  BY <1>1, <1>2, <1>8, SplitText
<1>9. CASE ReasoningDelta
  BY <1>1, <1>2, <1>9, SplitReasoning
<1>10. ASSUME NEW i \in DOMAIN response, EventDelta(i) PROVE SplitInv'
  BY <1>1, <1>2, <1>10, SplitDelta
<1>11. ASSUME NEW i \in DOMAIN response, EventDone(i) PROVE SplitInv'
  BY <1>1, <1>2, <1>11, SplitDone
<1>12. CASE EventCompleted
  BY <1>1, <1>2, <1>12, SplitCompleted
<1>13. CASE StreamEnds
  BY <1>1, <1>2, <1>13, SplitEnds
<1>14. CASE ToolRequest
  BY <1>1, <1>2, <1>14, SplitTools
<1> QED BY <1>3, <1>4, <1>5, <1>6, <1>7, <1>8, <1>9, <1>10, <1>11, <1>12, <1>13, <1>14
        DEF GenerationNext, Progress, Deltas, Events

\* NothingReceivedIsLost: what is stored as done has, after the rounds before it
\* that are put aside (none, unless the last round was cut short), every word
\* received, once and in order, whatever tool and code rounds, tags and
\* cancellations there were (middleware.py:4426, 4600, 4668).
THEOREM StoredAnswersAreWhole == GenerationSpec => []NothingReceivedIsLost
<1> DEFINE Inv == TypeInv /\ AlignInv /\ SplitInv
<1>1. GenerationInit => Inv
  BY TypeInit, AlignInit, SplitInit
<1>2. Inv /\ [GenerationNext]_generationVars => Inv'
  <2>1. TypeInv => AnswerInv
    BY DEF TypeInv
  <2>2. Inv /\ [GenerationNext]_generationVars => TypeInv' /\ AlignInv'
    BY <2>1, TypeStep, AlignStep
  <2> QED BY <2>2, SplitStep
<1>3. Inv => NothingReceivedIsLost
  <2> SUFFICES ASSUME TypeInv, SplitInv, Over, db.done, ~realtime, Aligned
               PROVE  Hold(prior \o db.output, received, 0, Len(received), style = "chat")
    BY DEF NothingReceivedIsLost
  <2>1. ItemList(prior) /\ ItemList(db.output)
    BY DEF TypeInv, ListsInv, Listed, TypedList
  <2>2. Len(received) \in Nat /\ DifferentWords(received, 0, Len(received))
    BY LenProperties DEF TypeInv, ReadInv
  <2>3. SplitsAt(prior, db.output, received, style = "chat")
    BY DEF SplitInv
  <2>4. PICK c : c = prior \o db.output
    OBVIOUS
  <2>5. Joined(c, prior, db.output)
    BY <2>1, <2>4, ConcatJoins
  <2> QED BY <2>1, <2>2, <2>3, <2>4, <2>5, SplitsJoined
<1> HIDE DEF Inv
<1> QED BY <1>1, <1>2, <1>3, PTL DEF GenerationSpec

-----------------------------------------------------------------------------
(* The words that are saved as they arrive                                 *)

\* The text that is read is made of tags and of words received, and what has
\* been saved of it has its words.
SavedInv ==
  /\ pc = "stream" => tokens \in Seq(Tag \cup Range(received))
  /\ RealtimeSaved

\* What has been saved has the first n words, and the text has no other ones.
SavedUpto(n, out, words, text) ==
  Hold(out, words, 0, n, TRUE) /\ Range(text) \ Tag \subseteq {words[i] : i \in 1..n}

\* What has been saved has all words of the text.
IsSaved(out, words, text) == \E n \in 0..Len(words) : SavedUpto(n, out, words, text)

\* A sequence over a set is one over every larger set.
LEMMA SeqWider ==
  ASSUME NEW S, NEW T, S \subseteq T, NEW s \in Seq(S)
  PROVE  s \in Seq(T)
<1>1. Len(s) \in Nat /\ s \in [1..Len(s) -> S]
  BY LenProperties
<1>2. s \in [1..Len(s) -> T]
  BY <1>1
<1> QED BY <1>1, <1>2, SeqDef

\* The elements of a sequence.
LEMMA RangeOf ==
  ASSUME NEW S, NEW s \in Seq(S)
  PROVE  /\ Range(s) = {s[i] : i \in 1..Len(s)} /\ Range(s) \subseteq S /\ s \in Seq(Range(s))
         /\ Len(s) \in Nat /\ DOMAIN s = 1..Len(s)
<1>1. Len(s) \in Nat /\ s \in [1..Len(s) -> S] /\ DOMAIN s = 1..Len(s)
  BY LenProperties
<1>2. Range(s) = {s[i] : i \in 1..Len(s)} /\ Range(s) \subseteq S
  BY <1>1 DEF Range
<1>3. s \in [1..Len(s) -> Range(s)]
  BY <1>1 DEF Range
<1> QED BY <1>1, <1>2, <1>3, SeqDef

\* The elements of a sequence and one more.
LEMMA RangeAppend ==
  ASSUME NEW S, NEW s \in Seq(S), NEW w, NEW new, new = Append(s, w)
  PROVE  Range(new) = Range(s) \cup {w}
<1>1. s \in Seq(S \cup {w}) /\ w \in S \cup {w}
  BY SeqWider
<1>2. Len(s) \in Nat /\ Len(new) = Len(s) + 1 /\ new \in Seq(S \cup {w})
      /\ new[Len(s) + 1] = w /\ \A i \in 1..Len(s) : new[i] = s[i]
  BY <1>1, AppendProperties, LenProperties
<1>3. Range(new) = {new[i] : i \in 1..Len(new)} /\ Range(s) = {s[i] : i \in 1..Len(s)}
  <2>1. Range(new) = {new[i] : i \in 1..Len(new)}
    <3>1. PICK T : new \in Seq(T)
      BY <1>2
    <3>2. DOMAIN new = 1..Len(new)
      BY <3>1, LenProperties
    <3> QED BY <3>2 DEF Range
  <2>2. Range(s) = {s[i] : i \in 1..Len(s)}
    BY RangeOf
  <2> QED BY <2>1, <2>2
<1>4. \A i \in 1..Len(new) : i \in 1..Len(s) \/ i = Len(s) + 1
  BY <1>2
<1>5. \A i \in 1..Len(s) : i \in 1..Len(new)
  BY <1>2
<1>6. Len(s) + 1 \in 1..Len(new)
  BY <1>2
<1>7. ASSUME NEW x \in Range(new) PROVE x \in Range(s) \cup {w}
  BY <1>2, <1>3, <1>4
<1>8. ASSUME NEW x \in Range(s) PROVE x \in Range(new)
  BY <1>2, <1>3, <1>5
<1>9. w \in Range(new)
  BY <1>2, <1>3, <1>6
<1> QED BY <1>7, <1>8, <1>9

\* SavedInv holds at the start.
LEMMA SavedInit == GenerationInit => SavedInv
BY DEF GenerationInit, SavedInv, RealtimeSaved

\* A stream starts with no text.
LEMMA SavedNothing ==
  ASSUME tokens' = <<>> \/ pc' # "stream"
  PROVE  SavedInv'
<1>1. pc' = "stream" => tokens' \in Seq(Tag \cup Range(received'))
  BY EmptySeq
<1> QED BY <1>1 DEF SavedInv, RealtimeSaved

\* Nothing is read.
LEMMA SavedQuiet ==
  ASSUME SavedInv, UNCHANGED <<pc, tokens, received, db, style, realtime>>
  PROVE  SavedInv'
BY DEF SavedInv, RealtimeSaved

\* A word is read that is not part of the text.
LEMMA SavedReads ==
  ASSUME SavedInv, ReadInv, UNCHANGED <<pc, tokens, db, style, realtime>>, received' = Append(received, NextWord)
  PROVE  SavedInv'
<1>1. PICK more : more = Append(received, NextWord)
  OBVIOUS
<1>2. PICK S : received \in Seq(S)
  BY DEF ReadInv
<1>3. Range(more) = Range(received) \cup {NextWord}
  BY <1>1, <1>2, RangeAppend
<1>4. pc' = "stream" => tokens' \in Seq(Tag \cup Range(received'))
  BY <1>1, <1>3, SeqWider DEF SavedInv
<1>5. Len(received) \in Nat /\ Len(more) = Len(received) + 1 /\ \A m \in 1..Len(received) : more[m] = received[m]
  <2>1. received \in Seq(S \cup {NextWord}) /\ NextWord \in S \cup {NextWord}
    BY <1>2, SeqWider
  <2> QED BY <1>1, <2>1, AppendProperties, LenProperties
<1>6. ASSUME realtime, style = "chat", pc = "stream", tokens # <<>>
      PROVE  IsSaved(db.output, more, tokens)
  <2>1. PICK n \in 0..Len(received) : /\ Hold(db.output, received, 0, n, TRUE)
                                      /\ Range(tokens) \ Tag \subseteq {received[i] : i \in 1..n}
    BY <1>6 DEF SavedInv, RealtimeSaved
  <2>2. n \in 0..Len(more) /\ \A i \in 1..n : i \in 1..Len(received)
    BY <1>5
  <2>3. \A i \in 0+1..n : i \in 1..Len(received)
    BY <1>5
  <2>4. Hold(db.output, more, 0, n, TRUE)
    BY <1>5, <2>1, <2>3, HoldAgrees
  <2>5. {received[i] : i \in 1..n} \subseteq {more[i] : i \in 1..n}
    BY <1>5, <2>2
  <2> QED BY <2>1, <2>2, <2>4, <2>5 DEF IsSaved, SavedUpto
<1>7. RealtimeSaved'
  <2>1. received' = more /\ db'.output = db.output /\ tokens' = tokens
    BY <1>1
  <2>2. realtime' /\ style' = "chat" /\ pc' = "stream" /\ tokens' # <<>> => IsSaved(db'.output, received', tokens')
    BY <1>6, <2>1
  <2>3. RealtimeSaved' <=> (realtime' /\ style' = "chat" /\ pc' = "stream" /\ tokens' # <<>> =>
                             IsSaved(db'.output, received', tokens'))
    BY DEF RealtimeSaved, IsSaved, SavedUpto
  <2> QED BY <2>2, <2>3
<1> QED BY <1>4, <1>7 DEF SavedInv

\* Text is read and, with the option, saved.
LEMMA SavedText ==
  ASSUME ReadInv, ReadInv', ListsInv, ListsInv', SavedInv, SplitInv', UNCHANGED <<style, realtime>>,
         NEW chunk \in Chunk, TextDelta(chunk)
  PROVE  SavedInv'
<1>1. /\ pc = "stream" /\ style = "chat" /\ tokens' = tokens \o chunk /\ prior' = prior
      /\ received' = (IF NextWord \in Range(chunk) THEN Append(received, NextWord) ELSE received)
      /\ pc' \in {"ended", "stream"} /\ (pc' = "stream" => SaveRealtime(output'))
  BY DEF TextDelta, Goto
<1> SUFFICES ASSUME pc' = "stream" PROVE SavedInv'
  BY <1>1 DEF SavedInv, RealtimeSaved
<1>2. PICK more : more = received'
  OBVIOUS
<1>3. PICK S : received \in Seq(S)
  BY DEF ReadInv
<1>4. PICK T : T = Tag \cup Range(more)
  OBVIOUS
<1>5. Range(received) \subseteq Range(more) /\ (NextWord \in Range(chunk) => NextWord \in Range(more))
  <2>1. CASE NextWord \in Range(chunk)
    <3>1. Range(more) = Range(received) \cup {NextWord}
      BY <1>1, <1>2, <1>3, <2>1, RangeAppend
    <3> QED BY <3>1
  <2>2. CASE NextWord \notin Range(chunk)
    BY <1>1, <1>2, <2>2
  <2> QED BY <2>1, <2>2
<1>6. tokens \in Seq(T)
  <2>1. tokens \in Seq(Tag \cup Range(received)) /\ Tag \cup Range(received) \subseteq T
    BY <1>1, <1>4, <1>5 DEF SavedInv
  <2> QED BY <2>1, SeqWider
<1>7. chunk \in Seq(T)
  <2>1. chunk \in Seq(Range(chunk)) /\ Range(chunk) \subseteq Tag \cup {NextWord}
    BY ChunkIs, RangeOf
  <2>2. Range(chunk) \subseteq T
    BY <1>4, <1>5, <2>1
  <2> QED BY <2>1, <2>2, SeqWider
<1>8. PICK text : text = tokens \o chunk
  OBVIOUS
<1>9. text \in Seq(T)
  BY <1>6, <1>7, <1>8, ConcatProperties
<1>10. tokens' \in Seq(Tag \cup Range(received'))
  BY <1>1, <1>2, <1>4, <1>8, <1>9
<1>11. ASSUME realtime PROVE IsSaved(db'.output, more, text)
  <2>1. Range(text) \ Tag \subseteq Range(more)
    BY <1>4, <1>9, RangeOf
  <2>2. more \in Seq(Range(Vocabulary) \cup {Earlier}) /\ DifferentWords(more, 0, Len(more))
    BY <1>2 DEF ReadInv
  <2>3. Range(more) = {more[i] : i \in 1..Len(more)} /\ Len(more) \in Nat
    BY <2>2, RangeOf
  <2>4. DbIs
    BY DEF ListsInv
  <2>5. db'.output = prior \o output'
    BY <1>1, <1>11, <2>4, DbSaves
  <2>6. ItemList(prior) /\ ItemList(output')
    BY <1>1 DEF ListsInv, Listed, TypedList
  <2>7. PICK c : c = prior \o output'
    OBVIOUS
  <2>8. Joined(c, prior, output')
    BY <2>6, <2>7, ConcatJoins
  <2>9. Aligned'
    BY <1>1 DEF Aligned
  <2>10. SplitsAt(prior, output', more, TRUE)
    <3>1. SplitsAt(prior', output', received', (style = "chat")')
      BY <2>9 DEF SplitInv
    <3>2. (style = "chat")' = TRUE
      BY <1>1
    <3> QED BY <1>1, <1>2, <3>1, <3>2
  <2>11. Hold(c, more, 0, Len(more), TRUE)
    BY <2>2, <2>3, <2>6, <2>8, <2>10, SplitsJoined
  <2>12. Len(more) \in 0..Len(more)
    BY <2>3
  <2>13. SavedUpto(Len(more), c, more, text)
    BY <2>1, <2>3, <2>11 DEF SavedUpto
  <2> QED BY <2>5, <2>7, <2>12, <2>13 DEF IsSaved
<1>12. RealtimeSaved'
  <2>1. received' = more /\ tokens' = text /\ realtime' = realtime
    BY <1>1, <1>2, <1>8
  <2>2. realtime' /\ style' = "chat" /\ pc' = "stream" /\ tokens' # <<>> => IsSaved(db'.output, received', tokens')
    BY <1>11, <2>1
  <2>3. RealtimeSaved' <=> (realtime' /\ style' = "chat" /\ pc' = "stream" /\ tokens' # <<>> =>
                             IsSaved(db'.output, received', tokens'))
    BY DEF RealtimeSaved, IsSaved, SavedUpto
  <2> QED BY <2>2, <2>3
<1> QED BY <1>10, <1>12 DEF SavedInv

\* Every step keeps SavedInv.
LEMMA SavedStep ==
  TypeInv /\ TypeInv' /\ SplitInv' /\ SavedInv /\ [GenerationNext]_generationVars => SavedInv'
<1> SUFFICES ASSUME TypeInv, TypeInv', SplitInv', SavedInv, [GenerationNext]_generationVars PROVE SavedInv'
  OBVIOUS
<1>1. AnswerInv /\ ReadInv /\ ReadInv' /\ ListsInv /\ ListsInv'
  BY DEF TypeInv
<1>2. UNCHANGED <<style, realtime>>
  BY ConfigKept
<1>3. CASE CallDelta \/ \E type \in {"message", "reasoning", "call"} : EventAdded(type)
  <2>1. UNCHANGED <<pc, tokens, received, db>>
    BY <1>3 DEF CallDelta, EventAdded, control
  <2> QED BY <1>2, <2>1, SavedQuiet
<1>4. CASE RunTool \/ UNCHANGED generationVars
  <2>1. UNCHANGED <<pc, tokens, received, db>>
    BY <1>4 DEF RunTool, generationVars, control, reading
  <2> QED BY <1>2, <2>1, SavedQuiet
<1>5. CASE ReasoningDelta
  <2>1. UNCHANGED <<pc, tokens, db>> /\ received' = Append(received, NextWord)
    BY <1>5 DEF ReasoningDelta, control
  <2> QED BY <1>1, <1>2, <2>1, SavedReads
<1>6. ASSUME NEW i \in DOMAIN response, EventDelta(i) PROVE SavedInv'
  <2>1. UNCHANGED <<pc, tokens, db>> /\ received' = Append(received, NextWord)
    BY <1>6 DEF EventDelta, control
  <2> QED BY <1>1, <1>2, <2>1, SavedReads
<1>7. ASSUME NEW i \in DOMAIN response, EventDone(i) PROVE SavedInv'
  <2>1. UNCHANGED <<pc, tokens, received, db>>
    BY <1>7 DEF EventDone, control
  <2> QED BY <1>2, <2>1, SavedQuiet
<1>8. ASSUME NEW chunk \in Chunk, TextDelta(chunk) PROVE SavedInv'
  BY <1>1, <1>2, <1>8, SavedText
<1>9. CASE ResponseStreams
  <2>1. tokens' = <<>>
    BY <1>1, <1>9 DEF ResponseStreams, reading, ReadInv
  <2> QED BY <2>1, SavedNothing
<1>10. CASE ToolRequest \/ CodeRequest
  <2>1. tokens' = <<>>
    BY <1>10 DEF ToolRequest, CodeRequest
  <2> QED BY <2>1, SavedNothing
<1>11. CASE StreamFails
  <2>1. caller \in {"first", "tools", "code"}
    BY <1>1, <1>11 DEF StreamFails, AnswerInv, StreamInv
  <2>2. pc' # "stream"
    BY <1>11, <2>1 DEF StreamFails, Goto
  <2> QED BY <2>2, SavedNothing
<1>12. CASE \/ PayloadFails \/ ResponseWhole \/ SaveWhole \/ EventCompleted \/ StreamEnds
            \/ ToolRound \/ ToolsOver \/ ResultFails \/ ToolResults \/ ToolRequestFails
            \/ CodeRound \/ CodeResult \/ CodeRequestFails
            \/ Save \/ BackgroundEnds \/ BackgroundFails \/ CancelSave \/ CancelGeneration
  <2>1. pc' # "stream"
    BY <1>12 DEF PayloadFails, ResponseWhole, SaveWhole, EventCompleted, StreamEnds,
       ToolRound, ToolsOver, ResultFails, ToolResults, ToolRequestFails, CodeRound, CodeResult, CodeRequestFails,
       Save, BackgroundEnds, BackgroundFails, CancelSave, CancelGeneration, Goto
  <2> QED BY <2>1, SavedNothing
<1> QED BY <1>3, <1>4, <1>5, <1>6, <1>7, <1>8, <1>9, <1>10, <1>11, <1>12
        DEF GenerationNext, Progress, Deltas, Events

\* The invariant of the words that are received and stored.
WholeInv == TypeInv /\ AlignInv /\ SplitInv /\ SavedInv

\* WholeInv holds at the start ...
LEMMA WholeInit == GenerationInit => WholeInv
BY TypeInit, AlignInit, SplitInit, SavedInit DEF WholeInv

\* ... and every step keeps it.
LEMMA WholeStep == WholeInv /\ [GenerationNext]_generationVars => WholeInv'
<1>1. TypeInv => AnswerInv
  BY DEF TypeInv
<1>2. WholeInv /\ [GenerationNext]_generationVars => TypeInv' /\ AlignInv'
  BY <1>1, TypeStep, AlignStep DEF WholeInv
<1>3. WholeInv /\ [GenerationNext]_generationVars => SplitInv'
  BY <1>2, SplitStep DEF WholeInv
<1>4. WholeInv /\ [GenerationNext]_generationVars => SavedInv'
  BY <1>2, <1>3, SavedStep DEF WholeInv
<1> QED BY <1>2, <1>3, <1>4 DEF WholeInv

\* RealtimeSaved: with ENABLE_REALTIME_CHAT_SAVE the stored items hold, in order,
\* all words up to the last text that was read, after any number of rounds
\* (middleware.py:3945).
THEOREM TextIsSavedAsItArrives == GenerationSpec => []RealtimeSaved
<1>1. WholeInv => RealtimeSaved
  BY DEF WholeInv, SavedInv
<1> QED BY WholeInit, WholeStep, <1>1, PTL DEF GenerationSpec

-----------------------------------------------------------------------------
(* The kinds of the items in which the words are                           *)

\* What words a list has in items of a kind, the new one has too.
KindsKept(new, out) ==
  \A word, type : word \notin Tag /\ HasWord(out, word, type) => HasWord(new, word, type)

\* Keeping words and their kinds is transitive ...
LEMMA KindsKeptFurther ==
  ASSUME NEW a, NEW b, NEW c, KindsKept(b, a), KindsKept(c, b)
  PROVE  KindsKept(c, a)
BY DEF KindsKept

\* ... and reflexive.
LEMMA KindsKeptItself == \A out : KindsKept(out, out)
BY DEF KindsKept

\* A list has each word of its items ...
LEMMA HasWordAt ==
  ASSUME NEW out, TypedList(out), NEW j \in 1..Len(out), NEW k \in 1..Len(out[j].text)
  PROVE  HasWord(out, out[j].text[k], out[j].type)
<1>1. out[j].text \in Seq(Token)
  BY DEF TypedList, TypedItem
<1>2. DOMAIN out[j].text = 1..Len(out[j].text)
  BY <1>1, LenProperties
<1>3. out[j].text[k] \in Range(out[j].text)
  BY <1>2 DEF Range
<1> QED BY <1>3 DEF HasWord

\* ... and no other one.
LEMMA HasWordSomewhere ==
  ASSUME NEW out, TypedList(out), NEW word, NEW type, HasWord(out, word, type)
  PROVE  \E j \in 1..Len(out) : out[j].type = type /\ \E k \in 1..Len(out[j].text) : out[j].text[k] = word
<1>1. PICK j \in 1..Len(out) : out[j].type = type /\ word \in Range(out[j].text)
  BY DEF HasWord
<1>2. out[j].text \in Seq(Token)
  BY DEF TypedList, TypedItem
<1>3. DOMAIN out[j].text = 1..Len(out[j].text)
  BY <1>2, LenProperties
<1>4. \E k \in 1..Len(out[j].text) : out[j].text[k] = word
  BY <1>1, <1>3 DEF Range
<1> QED BY <1>1, <1>4

\* Only the last item differs, or items follow it.
LEMMA LastKinds ==
  ASSUME NEW out, TypedList(out), NEW new, TypedList(new),
         out # <<>>, \A i \in 1..Len(out) - 1 : i \in 1..Len(new) /\ new[i] = out[i],
         \A k \in 1..Len(out[Len(out)].text) : out[Len(out)].text[k] \notin Tag =>
           HasWord(new, out[Len(out)].text[k], out[Len(out)].type)
  PROVE  KindsKept(new, out)
<1>1. ASSUME NEW word, NEW type, word \notin Tag, HasWord(out, word, type) PROVE HasWord(new, word, type)
  <2>1. PICK j \in 1..Len(out) : out[j].type = type /\ \E k \in 1..Len(out[j].text) : out[j].text[k] = word
    BY <1>1, HasWordSomewhere
  <2>2. PICK k \in 1..Len(out[j].text) : out[j].text[k] = word
    BY <2>1
  <2>3. Len(out) \in Nat
    BY ListIs DEF TypedList
  <2>4. CASE j = Len(out)
    BY <1>1, <2>1, <2>2, <2>4
  <2>5. CASE j # Len(out)
    <3>1. j \in 1..Len(out) - 1
      BY <2>3, <2>5
    <3>2. j \in 1..Len(new) /\ new[j] = out[j]
      BY <3>1
    <3>3. HasWord(new, new[j].text[k], new[j].type)
      BY <3>2, HasWordAt
    <3> QED BY <2>1, <2>2, <3>2, <3>3
  <2> QED BY <2>4, <2>5
<1> QED BY <1>1 DEF KindsKept

\* The same texts in items of the same types, and items after them.
LEMMA SameKinds ==
  ASSUME NEW out, TypedList(out), NEW new, TypedList(new),
         \A i \in 1..Len(out) : i \in 1..Len(new) /\ new[i].text = out[i].text /\ new[i].type = out[i].type
  PROVE  KindsKept(new, out)
<1>1. ASSUME NEW word, NEW type, word \notin Tag, HasWord(out, word, type) PROVE HasWord(new, word, type)
  <2>1. PICK j \in 1..Len(out) : out[j].type = type /\ \E k \in 1..Len(out[j].text) : out[j].text[k] = word
    BY <1>1, HasWordSomewhere
  <2>2. PICK k \in 1..Len(out[j].text) : out[j].text[k] = word
    BY <2>1
  <2>3. j \in 1..Len(new) /\ new[j].text = out[j].text /\ new[j].type = out[j].type
    OBVIOUS
  <2>4. HasWord(new, new[j].text[k], new[j].type)
    BY <2>3, HasWordAt
  <2> QED BY <2>1, <2>2, <2>3, <2>4
<1> QED BY <1>1 DEF KindsKept

\* A new item leaves the words where they are, ...
LEMMA AppendKinds ==
  ASSUME NEW out, TypedList(out), NEW r, IsItem(r), TypedItem(r)
  PROVE  KindsKept(Append(out, r), out)
<1>1. PICK new : new = Append(out, r)
  OBVIOUS
<1>2. TypedList(new) /\ Len(new) = Len(out) + 1 /\ \A i \in 1..Len(out) : new[i] = out[i]
  BY <1>1, AppendTyped
<1>3. Len(out) \in Nat
  BY ListIs DEF TypedList
<1>4. \A i \in 1..Len(out) : i \in 1..Len(new) /\ new[i].text = out[i].text /\ new[i].type = out[i].type
  BY <1>2, <1>3
<1> QED BY <1>1, <1>2, <1>4, SameKinds

\* ... and so does completing the last one.
LEMMA CompleteKinds ==
  ASSUME NEW out, TypedList(out), out # <<>>
  PROVE  KindsKept(Complete(out), out)
<1>1. PICK new : new = Complete(out)
  OBVIOUS
<1>2. PICK n : n = Len(out)
  OBVIOUS
<1>3. /\ TypedList(new) /\ Len(new) = n /\ n \in Nat \ {0}
      /\ new[n].text = out[n].text /\ new[n].type = out[n].type
      /\ \A i \in 1..n - 1 : new[i] = out[i]
  BY <1>1, <1>2, CompleteTyped
<1>4. ASSUME NEW i \in 1..n PROVE i \in 1..Len(new) /\ new[i].text = out[i].text /\ new[i].type = out[i].type
  <2>1. i = n \/ i \in 1..n - 1
    BY <1>3
  <2> QED BY <1>3, <2>1
<1> QED BY <1>1, <1>2, <1>3, <1>4, SameKinds

\* The modes in which a text is read.
Mode == {"message", "reasoning", "code"}

\* The mode in which a list is read on.
ModeIs(out, mode) ==
  IF mode = "message"
  THEN /\ ~InsideTagBlock(out)
       /\ LastType(out) = "message" => {"<think>", "<code>"} \cap Range(Last(out).text) = {}
  ELSE /\ InsideTagBlock(out) /\ LastType(out) = mode /\ EndTag(mode) \notin Range(Last(out).text)

\* A list whose last item gets the text that is read in this mode.
Opens(text, mode) ==
  IF mode = "message" THEN "<think>" \notin Range(text) /\ "<code>" \notin Range(text)
  ELSE EndTag(mode) \notin Range(text)

\* The last item of the list is the one that is read on in this mode.
Ready(base, mode) ==
  /\ TypedList(base) /\ base # <<>> /\ base[Len(base)].type = mode /\ Opens(base[Len(base)].text, mode)
  /\ mode # "message" => base[Len(base)].status = "in_progress" /\ ~base[Len(base)].native

\* The text gets the chunk at its end.
TextGrows(u, t, chunk) ==
  /\ Len(u) = Len(t) + Len(chunk) /\ \A k \in 1..Len(t) : u[k] = t[k]
  /\ \A k \in 1..Len(chunk) : u[Len(t) + k] = chunk[k]

\* The text of the last item gets the chunk.
AddedTo(added, base, chunk) ==
  /\ TypedList(added) /\ Len(added) = Len(base) /\ \A i \in 1..Len(base) - 1 : added[i] = base[i]
  /\ added[Len(base)].type = base[Len(base)].type /\ added[Len(base)].status = base[Len(base)].status
  /\ added[Len(base)].native = base[Len(base)].native
  /\ TextGrows(added[Len(base)].text, base[Len(base)].text, chunk)

\* The last item and its type.
LEMMA LastTypeIs ==
  ASSUME NEW out, TypedList(out), out # <<>>
  PROVE  LastType(out) = out[Len(out)].type /\ Last(out) = out[Len(out)] /\ Len(out) \in 1..Len(out)
BY LastTyped DEF LastType

\* AddToLast gives the last text the chunk.
LEMMA LastAdded ==
  ASSUME NEW out, TypedList(out), out # <<>>, NEW w \in Token, NEW chunk, IsChunk(chunk, w)
  PROVE  AddedTo(AddToLast(out, chunk), out, chunk)
<1>1. PICK t : t = Last(out).text
  OBVIOUS
<1>2. t \in Seq(Token) /\ t = out[Len(out)].text
  BY <1>1, LastTyped
<1>3. PICK u : u = t \o chunk
  OBVIOUS
<1>4. u \in Seq(Token) /\ TextGrows(u, t, chunk)
  BY <1>2, <1>3, TextWithChunk DEF TextGrows
<1>5. PICK new : new = SetText(out, u)
  OBVIOUS
<1>6. /\ TypedList(new) /\ Len(new) = Len(out)
      /\ new[Len(out)].text = u /\ new[Len(out)].type = out[Len(out)].type
      /\ new[Len(out)].status = out[Len(out)].status /\ new[Len(out)].native = out[Len(out)].native
      /\ \A i \in 1..Len(out) - 1 : new[i] = out[i]
  BY <1>4, <1>5, SetTextTyped
<1>7. AddToLast(out, chunk) = new
  BY <1>1, <1>3, <1>5 DEF AddToLast
<1> QED BY <1>2, <1>4, <1>6, <1>7 DEF AddedTo

\* A new message for the chunk, as if it were added to a blank one.
LEMMA MessageAdded ==
  ASSUME NEW out, TypedList(out), NEW w \in Token, NEW chunk, IsChunk(chunk, w)
  PROVE  /\ AddedTo(Append(out, MessageItem(chunk)), Append(out, MessageItem(<<>>)), chunk)
         /\ Ready(Append(out, MessageItem(<<>>)), "message")
         /\ KindsKept(Append(out, MessageItem(<<>>)), out)
<1>1. PICK blank : blank = <<>>
  OBVIOUS
<1>2. blank \in Seq(Token) /\ chunk \in Seq(Token) /\ Len(blank) = 0
  <2>1. chunk \in Seq(Tag \cup {w}) /\ Tag \cup {w} \subseteq Token
    BY DEF IsChunk, Token
  <2> QED BY <1>1, <2>1, SeqWider, EmptySeq
<1>3. PICK r, s : r = MessageItem(blank) /\ s = MessageItem(chunk)
  OBVIOUS
<1>4. /\ IsItem(r) /\ TypedItem(r) /\ r.text = blank /\ IsItem(s) /\ TypedItem(s) /\ s.text = chunk
      /\ r.type = "message" /\ s.type = "message"
  <2>1. IsItem(r) /\ IsItem(s) /\ r.type = "message" /\ s.type = "message"
    BY <1>3, NewItems
  <2>2. TypedItem(r) /\ TypedItem(s) /\ r.text = blank /\ s.text = chunk
    BY <1>2, <1>3, TypedNew
  <2> QED BY <2>1, <2>2
<1>5. r.status = s.status /\ r.native = s.native
  BY <1>3 DEF MessageItem, Item
<1>6. PICK base, added : base = Append(out, r) /\ added = Append(out, s)
  OBVIOUS
<1>7. PICK n : n = Len(out)
  OBVIOUS
<1>8. /\ TypedList(base) /\ Len(base) = n + 1 /\ base[n + 1] = r /\ \A i \in 1..n : base[i] = out[i]
      /\ TypedList(added) /\ Len(added) = n + 1 /\ added[n + 1] = s /\ \A i \in 1..n : added[i] = out[i]
  BY <1>4, <1>6, <1>7, AppendTyped
<1>9. n \in Nat
  BY <1>7, ListIs DEF TypedList
<1>10. base # <<>>
  <2>1. Len(base) # 0
    BY <1>8, <1>9
  <2> QED BY <2>1, EmptySeq
<1>11. TextGrows(chunk, blank, chunk)
  <2>1. Len(chunk) \in Nat
    BY <1>2, LenProperties
  <2> QED BY <1>2, <2>1 DEF TextGrows
<1>12. AddedTo(added, base, chunk)
  <2>1. \A i \in 1..Len(base) - 1 : i \in 1..n
    BY <1>8, <1>9
  <2>2. \A i \in 1..Len(base) - 1 : added[i] = base[i]
    BY <1>8, <2>1
  <2>3. added[Len(base)] = s /\ base[Len(base)] = r
    BY <1>8
  <2> QED BY <1>4, <1>5, <1>8, <1>11, <2>2, <2>3 DEF AddedTo
<1>13. Ready(base, "message")
  <2>1. Range(blank) = {}
    BY <1>1, <1>2, EmptySeq DEF Range
  <2>2. Opens(blank, "message")
    BY <2>1 DEF Opens
  <2> QED BY <1>4, <1>8, <1>10, <2>2 DEF Ready
<1>14. KindsKept(base, out)
  BY <1>4, <1>6, AppendKinds
<1> QED BY <1>1, <1>3, <1>6, <1>12, <1>13, <1>14

\* What the chunk is added to.
LEMMA BaseIs ==
  ASSUME NEW out, TypedList(out), NEW mode \in Mode, ModeIs(out, mode),
         NEW w \in Token, NEW chunk, IsChunk(chunk, w)
  PROVE  \E base : Ready(base, mode) /\ KindsKept(base, out) /\ AddedTo(AddValue(out, chunk), base, chunk)
<1>1. CASE mode # "message"
  <2>1. /\ LastType(out) = mode /\ LastType(out) \in {"reasoning", "code"}
        /\ Last(out).status = "in_progress" /\ ~Last(out).native /\ EndTag(mode) \notin Range(Last(out).text)
    BY <1>1 DEF ModeIs, InsideTagBlock
  <2>2. out # <<>>
    BY <2>1 DEF LastType
  <2>3. CloseNative(out) = out
    BY <2>1 DEF CloseNative
  <2>4. AddValue(out, chunk) = AddToLast(out, chunk)
    BY <2>1, <2>3 DEF AddValue, InsideTagBlock
  <2>5. Ready(out, mode)
    BY <1>1, <2>1, <2>2, LastTypeIs DEF Ready, Opens
  <2>6. AddedTo(AddToLast(out, chunk), out, chunk)
    BY <2>2, LastAdded
  <2> QED BY <2>4, <2>5, <2>6, KindsKeptItself
<1>2. CASE mode = "message" /\ LastType(out) = "message"
  <2>1. out # <<>> /\ "<think>" \notin Range(Last(out).text) /\ "<code>" \notin Range(Last(out).text)
    BY <1>2 DEF LastType, ModeIs
  <2>2. CloseNative(out) = out
    BY <1>2 DEF CloseNative
  <2>3. AddValue(out, chunk) = AddToLast(out, chunk)
    BY <1>2, <2>2 DEF AddValue
  <2>4. Ready(out, mode)
    BY <1>2, <2>1, LastTypeIs DEF Ready, Opens
  <2>5. AddedTo(AddToLast(out, chunk), out, chunk)
    BY <2>1, LastAdded
  <2> QED BY <2>3, <2>4, <2>5, KindsKeptItself
<1>3. CASE mode = "message" /\ LastType(out) = "reasoning" /\ Last(out).native
  <2>1. out # <<>>
    BY <1>3 DEF LastType
  <2>2. PICK done : done = Complete(out)
    OBVIOUS
  <2>3. TypedList(done) /\ KindsKept(done, out)
    BY <2>1, <2>2, CompleteTyped, CompleteKinds
  <2>4. PICK base : base = Append(done, MessageItem(<<>>))
    OBVIOUS
  <2>5. Ready(base, "message") /\ KindsKept(base, done)
    BY <2>3, <2>4, MessageAdded
  <2>6. CloseNative(out) = base
    BY <1>3, <2>2, <2>4 DEF CloseNative
  <2>7. LastType(base) = "message"
    BY <2>5, LastTypeIs DEF Ready
  <2>8. AddValue(out, chunk) = AddToLast(base, chunk)
    BY <2>6, <2>7 DEF AddValue
  <2>9. AddedTo(AddToLast(base, chunk), base, chunk)
    BY <2>5, LastAdded DEF Ready
  <2>10. KindsKept(base, out)
    BY <2>3, <2>5, KindsKeptFurther
  <2> QED BY <1>3, <2>5, <2>8, <2>9, <2>10
<1>4. CASE mode = "message" /\ LastType(out) # "message" /\ ~(LastType(out) = "reasoning" /\ Last(out).native)
  <2>1. CloseNative(out) = out /\ ~InsideTagBlock(out)
    BY <1>4 DEF CloseNative, ModeIs
  <2>2. AddValue(out, chunk) = Append(out, MessageItem(chunk))
    BY <1>4, <2>1 DEF AddValue
  <2>3. PICK base : base = Append(out, MessageItem(<<>>))
    OBVIOUS
  <2>4. AddedTo(Append(out, MessageItem(chunk)), base, chunk) /\ Ready(base, "message") /\ KindsKept(base, out)
    BY <2>3, MessageAdded
  <2> QED BY <1>4, <2>2, <2>4
<1> QED BY <1>1, <1>2, <1>3, <1>4

-----------------------------------------------------------------------------
(* A delta and its tag                                                     *)

\* The tag of a chunk is its e-th token, or there is none.
TagAt(chunk, e) ==
  /\ e \in 1..Len(chunk) + 1 /\ (e \in 1..Len(chunk) => chunk[e] \in Tag)
  /\ \A k \in 1..Len(chunk) : k # e => chunk[k] \notin Tag

\* The mode after a chunk whose tag is its e-th token.
NextAt(mode, chunk, e) == IF e \in 1..Len(chunk) THEN NextMode(mode, chunk[e]) ELSE mode

\* The chunk has been read into the items its tags say.
Parsed(new, out, chunk, e, mode) ==
  /\ KindsKept(new, out) /\ ModeIs(new, NextAt(mode, chunk, e))
  /\ \A k \in 1..Len(chunk) : k < e => HasWord(new, chunk[k], mode)
  /\ \A k \in 1..Len(chunk) : k > e => HasWord(new, chunk[k], NextAt(mode, chunk, e))

\* The list with the tags in its last text handled.
Tagged(out) == TagOutput("code", TagOutput("reasoning", out).out)

\* The tokens of a text are those at its positions.
LEMMA TokenOf ==
  ASSUME NEW text \in Seq(Token)
  PROVE  /\ \A x \in Range(text) : \E k \in 1..Len(text) : text[k] = x
         /\ \A k \in 1..Len(text) : text[k] \in Range(text)
         /\ Len(text) \in Nat
<1>1. DOMAIN text = 1..Len(text) /\ Len(text) \in Nat
  BY LenProperties
<1> QED BY <1>1 DEF Range

\* The tokens of a text with a chunk.
LEMMA GrownTokens ==
  ASSUME NEW u, NEW t \in Seq(Token), NEW chunk, Len(chunk) \in Nat, TextGrows(u, t, chunk)
  PROVE  /\ Len(t) \in Nat /\ Len(u) = Len(t) + Len(chunk)
         /\ \A k \in 1..Len(u) : k \in 1..Len(t) \/ k - Len(t) \in 1..Len(chunk)
         /\ \A k \in 1..Len(t) : k \in 1..Len(u) /\ u[k] = t[k]
         /\ \A k \in 1..Len(chunk) : Len(t) + k \in 1..Len(u) /\ u[Len(t) + k] = chunk[k]
         /\ \A k \in 1..Len(u) : k - Len(t) \in 1..Len(chunk) => u[k] = chunk[k - Len(t)]
<1>1. Len(t) \in Nat
  BY LenProperties
<1>2. Len(u) = Len(t) + Len(chunk) /\ \A k \in 1..Len(t) : u[k] = t[k]
  BY DEF TextGrows
<1>3. \A k \in 1..Len(chunk) : u[Len(t) + k] = chunk[k]
  BY DEF TextGrows
<1>4. ASSUME NEW k \in 1..Len(u), k - Len(t) \in 1..Len(chunk) PROVE u[k] = chunk[k - Len(t)]
  <2>1. u[Len(t) + (k - Len(t))] = chunk[k - Len(t)]
    BY <1>3, <1>4
  <2>2. Len(t) + (k - Len(t)) = k
    BY <1>1
  <2> QED BY <2>1, <2>2
<1>5. \A k \in 1..Len(u) : k \in 1..Len(t) \/ k - Len(t) \in 1..Len(chunk)
  BY <1>1, <1>2
<1>6. \A k \in 1..Len(t) : k \in 1..Len(u)
  BY <1>1, <1>2
<1>7. \A k \in 1..Len(chunk) : Len(t) + k \in 1..Len(u)
  BY <1>1, <1>2
<1> QED BY <1>1, <1>2, <1>3, <1>4, <1>5, <1>6, <1>7

\* The list with the chunk: all of it is in an item of the mode.
LEMMA AddedIs ==
  ASSUME NEW base, NEW mode, Ready(base, mode), NEW chunk, Len(chunk) \in Nat, NEW added, AddedTo(added, base, chunk)
  PROVE  /\ TypedList(added) /\ added # <<>> /\ Len(added) = Len(base) /\ added[Len(base)].type = mode
         /\ added[Len(base)].text \in Seq(Token) /\ base[Len(base)].text \in Seq(Token)
         /\ Len(base) \in 1..Len(base)
         /\ KindsKept(added, base) /\ \A k \in 1..Len(chunk) : HasWord(added, chunk[k], mode)
<1>1. PICK n : n = Len(base)
  OBVIOUS
<1>2. PICK t, u : t = base[n].text /\ u = added[n].text
  OBVIOUS
<1>3. TypedList(base) /\ base # <<>> /\ TypedList(added) /\ Len(added) = n /\ n \in 1..n /\ n \in Nat
  BY <1>1, LastTypeIs DEF Ready, AddedTo
<1>4. t \in Seq(Token) /\ u \in Seq(Token)
  BY <1>1, <1>2, <1>3 DEF TypedList, TypedItem
<1>5. TextGrows(u, t, chunk)
  BY <1>1, <1>2 DEF AddedTo
<1>6. /\ \A k \in 1..Len(t) : k \in 1..Len(u) /\ u[k] = t[k]
      /\ \A k \in 1..Len(chunk) : Len(t) + k \in 1..Len(u) /\ u[Len(t) + k] = chunk[k]
  BY <1>4, <1>5, GrownTokens
<1>7. added[n].type = mode /\ base[n].type = mode
  BY <1>1 DEF AddedTo, Ready
<1>8. \A k \in 1..Len(u) : HasWord(added, u[k], mode)
  BY <1>2, <1>3, <1>7, HasWordAt
<1>9. \A k \in 1..Len(chunk) : HasWord(added, chunk[k], mode)
  BY <1>6, <1>8
<1>10. \A k \in 1..Len(t) : HasWord(added, t[k], mode)
  BY <1>6, <1>8
<1>11. \A i \in 1..n - 1 : i \in 1..n /\ added[i] = base[i]
  BY <1>1, <1>3 DEF AddedTo
<1>12. KindsKept(added, base)
  BY <1>1, <1>2, <1>3, <1>7, <1>10, <1>11, LastKinds
<1>13. added # <<>>
  <2>1. Len(added) # 0
    BY <1>3
  <2> QED BY <2>1, EmptySeq
<1> QED BY <1>1, <1>2, <1>3, <1>4, <1>7, <1>9, <1>12, <1>13

\* No tag that means something in this mode.
LEMMA IdleParsed ==
  ASSUME NEW base, NEW mode \in Mode, Ready(base, mode), NEW chunk, Len(chunk) \in Nat,
         NEW added, AddedTo(added, base, chunk), NEW e, TagAt(chunk, e), NextAt(mode, chunk, e) = mode
  PROVE  Tagged(added).out = added /\ Parsed(added, base, chunk, e, mode)
<1>1. PICK n : n = Len(base)
  OBVIOUS
<1>2. PICK t, u : t = base[n].text /\ u = added[n].text
  OBVIOUS
<1>3. /\ TypedList(added) /\ added # <<>> /\ Len(added) = n /\ added[n].type = mode
      /\ u \in Seq(Token) /\ t \in Seq(Token)
      /\ KindsKept(added, base) /\ \A k \in 1..Len(chunk) : HasWord(added, chunk[k], mode)
  BY <1>1, <1>2, AddedIs
<1>4. TextGrows(u, t, chunk) /\ added[n].status = base[n].status /\ added[n].native = base[n].native
  BY <1>1, <1>2 DEF AddedTo
<1>5. /\ \A k \in 1..Len(u) : k \in 1..Len(t) \/ k - Len(t) \in 1..Len(chunk)
      /\ \A k \in 1..Len(t) : k \in 1..Len(u) /\ u[k] = t[k]
      /\ \A k \in 1..Len(u) : k - Len(t) \in 1..Len(chunk) => u[k] = chunk[k - Len(t)]
  BY <1>3, <1>4, GrownTokens
<1>6. ASSUME NEW tag \in Tag, tag \notin Range(t), e \in 1..Len(chunk) => chunk[e] # tag
      PROVE  tag \notin Range(u)
  <2>1. ASSUME NEW k \in 1..Len(u) PROVE u[k] # tag
    <3>1. CASE k \in 1..Len(t)
      BY <1>3, <1>5, <1>6, <3>1, TokenOf
    <3>2. CASE k - Len(t) \in 1..Len(chunk)
      <4>1. \A j \in 1..Len(chunk) : chunk[j] # tag
        BY <1>6 DEF TagAt
      <4> QED BY <1>5, <3>2, <4>1
    <3> QED BY <1>5, <3>1, <3>2
  <2> QED BY <1>3, <2>1, TokenOf
<1>7. Opens(t, mode) /\ (mode # "message" => base[n].status = "in_progress" /\ ~base[n].native)
  BY <1>1, <1>2 DEF Ready
<1>8. Opens(u, mode)
  <2>1. CASE mode = "message"
    <3>1. "<think>" \notin Range(t) /\ "<code>" \notin Range(t)
      BY <1>7, <2>1 DEF Opens
    <3>2. e \in 1..Len(chunk) => chunk[e] # "<think>" /\ chunk[e] # "<code>"
      BY <2>1 DEF NextAt, NextMode
    <3>3. "<think>" \notin Range(u) /\ "<code>" \notin Range(u)
      BY <1>6, <3>1, <3>2, KindTags
    <3> QED BY <2>1, <3>3 DEF Opens
  <2>2. CASE mode # "message"
    <3>1. EndTag(mode) \notin Range(t) /\ EndTag(mode) \in Tag
      BY <1>7, <2>2, KindTags DEF Opens
    <3>2. e \in 1..Len(chunk) => chunk[e] # EndTag(mode)
      BY <2>2 DEF NextAt, NextMode, Mode
    <3>3. EndTag(mode) \notin Range(u)
      BY <1>6, <3>1, <3>2
    <3> QED BY <2>2, <3>3 DEF Opens
  <2> QED BY <2>1, <2>2
<1>9. LastType(added) = mode /\ Last(added) = added[n] /\ Last(added).text = u
  BY <1>2, <1>3, LastTypeIs
<1>10. TagOutput("reasoning", added).out = added /\ TagOutput("code", added).out = added
  <2>1. CASE mode = "message"
    <3>1. StartTag("reasoning") \notin Range(Last(added).text) /\ StartTag("code") \notin Range(Last(added).text)
      BY <1>8, <1>9, <2>1, KindTags DEF Opens
    <3> QED BY <1>9, <2>1, <3>1 DEF TagOutput
  <2>2. CASE mode # "message"
    <3>1. EndTag(mode) \notin Range(Last(added).text)
      BY <1>8, <1>9, <2>2 DEF Opens
    <3>2. EndBlock(mode, added).out = added
      BY <3>1, EndBlockNot
    <3> QED BY <1>9, <2>2, <3>2 DEF TagOutput, Mode
  <2> QED BY <2>1, <2>2
<1>11. Tagged(added).out = added
  BY <1>10 DEF Tagged
<1>12. ModeIs(added, mode)
  <2>1. CASE mode = "message"
    <3>1. {"<think>", "<code>"} \cap Range(Last(added).text) = {}
      BY <1>8, <1>9, <2>1 DEF Opens
    <3>2. ~InsideTagBlock(added)
      BY <1>9, <2>1 DEF InsideTagBlock
    <3> QED BY <2>1, <3>1, <3>2 DEF ModeIs
  <2>2. CASE mode # "message"
    <3>1. EndTag(mode) \notin Range(Last(added).text)
      BY <1>8, <1>9, <2>2 DEF Opens
    <3>2. InsideTagBlock(added)
      BY <1>4, <1>7, <1>9, <2>2 DEF InsideTagBlock, Mode
    <3> QED BY <1>9, <2>2, <3>1, <3>2 DEF ModeIs
  <2> QED BY <2>1, <2>2
<1> QED BY <1>3, <1>11, <1>12 DEF Parsed

\* Only the tag of the chunk is one that the text has not had.
LEMMA OnlyTag ==
  ASSUME NEW u, NEW t \in Seq(Token), NEW chunk, Len(chunk) \in Nat, TextGrows(u, t, chunk),
         NEW e, TagAt(chunk, e), NEW tag \in Tag, tag \notin Range(t)
  PROVE  \A k \in 1..Len(u) : u[k] = tag => k = Len(t) + e /\ e \in 1..Len(chunk) /\ chunk[e] = tag
<1>1. ASSUME NEW k \in 1..Len(u), u[k] = tag PROVE k = Len(t) + e /\ e \in 1..Len(chunk) /\ chunk[e] = tag
  <2>1. /\ \A j \in 1..Len(u) : j \in 1..Len(t) \/ j - Len(t) \in 1..Len(chunk)
        /\ \A j \in 1..Len(t) : j \in 1..Len(u) /\ u[j] = t[j]
        /\ \A j \in 1..Len(u) : j - Len(t) \in 1..Len(chunk) => u[j] = chunk[j - Len(t)]
        /\ Len(t) \in Nat
    BY GrownTokens
  <2>2. k \notin 1..Len(t)
    BY <1>1, <2>1, TokenOf
  <2>3. k - Len(t) \in 1..Len(chunk) /\ chunk[k - Len(t)] = tag
    BY <1>1, <2>1, <2>2
  <2>4. k - Len(t) = e
    BY <2>3 DEF TagAt
  <2>5. k = Len(t) + e
    BY <2>1, <2>4
  <2> QED BY <2>3, <2>4, <2>5
<1> QED BY <1>1

\* The text around the tag of a chunk.
Around(u, t, chunk, e, before, after) ==
  /\ before \in Seq(Token) /\ after \in Seq(Token)
  /\ \A k \in 1..Len(t) : k \in 1..Len(before) /\ before[k] = t[k]
  /\ \A k \in 1..Len(chunk) : k < e => Len(t) + k \in 1..Len(before) /\ before[Len(t) + k] = chunk[k]
  /\ \A k \in 1..Len(chunk) : k > e => k - e \in 1..Len(after) /\ after[k - e] = chunk[k]
  /\ \A x \in Range(after) : x \notin Tag
  /\ Len(t) + e = 1 => Len(before) = 0

\* A text is cut around the tag of its chunk.
LEMMA AroundTag ==
  ASSUME NEW u \in Seq(Token), NEW t \in Seq(Token), NEW chunk, Len(chunk) \in Nat, TextGrows(u, t, chunk),
         NEW e \in 1..Len(chunk), TagAt(chunk, e), NEW s, s = Len(t) + e
  PROVE  Around(u, t, chunk, e, SubSeq(u, 1, s - 1), SubSeq(u, s + 1, Len(u)))
<1>1. /\ Len(t) \in Nat /\ Len(u) = Len(t) + Len(chunk)
      /\ \A k \in 1..Len(t) : k \in 1..Len(u) /\ u[k] = t[k]
      /\ \A k \in 1..Len(chunk) : Len(t) + k \in 1..Len(u) /\ u[Len(t) + k] = chunk[k]
  BY GrownTokens
<1>2. PICK before, after : before = SubSeq(u, 1, s - 1) /\ after = SubSeq(u, s + 1, Len(u))
  OBVIOUS
<1>3. s \in Nat /\ s <= Len(u) /\ s - 1 \in Nat /\ s - 1 <= Len(u)
  BY <1>1
<1>6. before \in Seq(Token) /\ Len(before) = s - 1 /\ \A k \in 1..s - 1 : before[k] = u[k]
  BY <1>2, <1>3, HeadIs
<1>11. after \in Seq(Token) /\ Len(after) = Len(u) - s /\ \A k \in 1..Len(u) - s : after[k] = u[s + k]
  BY <1>2, <1>3, RestIs
<1>12. Len(u) - s = Len(chunk) - e
  BY <1>1
<1>13. ASSUME NEW k \in 1..Len(chunk) - e PROVE after[k] = chunk[e + k] /\ e + k \in 1..Len(chunk)
  <2>1. after[k] = u[s + k] /\ s + k = Len(t) + (e + k) /\ e + k \in 1..Len(chunk)
    BY <1>1, <1>11, <1>12
  <2> QED BY <1>1, <2>1
<1>14. ASSUME NEW x \in Range(after) PROVE x \notin Tag
  <2>1. PICK k \in 1..Len(after) : after[k] = x
    BY <1>11, TokenOf
  <2>2. k \in 1..Len(chunk) - e
    BY <1>11, <1>12, <2>1
  <2>3. x = chunk[e + k] /\ e + k \in 1..Len(chunk) /\ e + k # e
    BY <1>13, <2>1, <2>2
  <2> QED BY <2>3 DEF TagAt
<1>15. ASSUME NEW k \in 1..Len(t) PROVE k \in 1..Len(before) /\ before[k] = t[k]
  <2>1. k \in 1..s - 1
    BY <1>1
  <2> QED BY <1>1, <1>6, <2>1
<1>16. ASSUME NEW k \in 1..Len(chunk), k < e
       PROVE  Len(t) + k \in 1..Len(before) /\ before[Len(t) + k] = chunk[k]
  <2>1. Len(t) + k \in 1..s - 1
    BY <1>1, <1>16
  <2> QED BY <1>1, <1>6, <2>1
<1>17. ASSUME NEW k \in 1..Len(chunk), k > e
       PROVE  k - e \in 1..Len(after) /\ after[k - e] = chunk[k]
  <2>1. k - e \in 1..Len(chunk) - e /\ e + (k - e) = k
    BY <1>17
  <2>2. after[k - e] = chunk[e + (k - e)]
    BY <1>13, <2>1
  <2> QED BY <1>11, <1>12, <2>1, <2>2
<1>18. Len(t) + e = 1 => Len(before) = 0
  BY <1>6
<1> QED BY <1>2, <1>6, <1>11, <1>14, <1>15, <1>16, <1>17, <1>18 DEF Around

\* The words of a text and of the chunk after it that are before a tag, and
\* those after it.
WordsAround(t, chunk, e, before, after) ==
  /\ before \in Seq(Token) /\ after \in Seq(Token)
  /\ \A k \in 1..Len(t) : t[k] \notin Tag => t[k] \in Range(before)
  /\ \A k \in 1..Len(chunk) : k < e => chunk[k] \in Range(before)
  /\ \A k \in 1..Len(chunk) : k > e => chunk[k] \in Range(after)

\* Which words are before the tag, and which after it.
LEMMA AroundWords ==
  ASSUME NEW u, NEW t, NEW chunk, NEW e, NEW before, NEW after, Around(u, t, chunk, e, before, after)
  PROVE  WordsAround(t, chunk, e, before, after)
<1>1. before \in Seq(Token) /\ after \in Seq(Token)
  BY DEF Around
<1>2. \A k \in 1..Len(before) : before[k] \in Range(before)
  BY <1>1, TokenOf
<1>3. \A k \in 1..Len(after) : after[k] \in Range(after)
  BY <1>1, TokenOf
<1>4. /\ \A k \in 1..Len(t) : k \in 1..Len(before) /\ before[k] = t[k]
      /\ \A k \in 1..Len(chunk) : k < e => Len(t) + k \in 1..Len(before) /\ before[Len(t) + k] = chunk[k]
      /\ \A k \in 1..Len(chunk) : k > e => k - e \in 1..Len(after) /\ after[k - e] = chunk[k]
  BY DEF Around
<1>5. \A k \in 1..Len(t) : t[k] \in Range(before)
  BY <1>2, <1>4
<1>6. \A k \in 1..Len(chunk) : k < e => chunk[k] \in Range(before)
  BY <1>2, <1>4
<1>7. \A k \in 1..Len(chunk) : k > e => chunk[k] \in Range(after)
  BY <1>3, <1>4
<1> QED BY <1>1, <1>5, <1>6, <1>7 DEF WordsAround

\* A text that is split at a tag: the words before it stay in an item of one
\* kind, those after it are in the last item.
SplitAt(new, base, t, chunk, e, before, after, kind) ==
  /\ TypedList(new) /\ new # <<>> /\ Len(base) \in Nat \ {0}
  /\ base[Len(base)].text = t /\ base[Len(base)].type = kind
  /\ \A i \in 1..Len(base) - 1 : i \in 1..Len(new) /\ new[i] = base[i]
  /\ Len(before) # 0 => Len(base) \in 1..Len(new) /\ new[Len(base)].text = before /\ new[Len(base)].type = kind
  /\ new[Len(new)].text = after

\* Where the words are after the split.
LEMMA SplitHas ==
  ASSUME NEW base, TypedList(base), base # <<>>, NEW t, NEW chunk, NEW e,
         NEW before, NEW after, WordsAround(t, chunk, e, before, after), NEW new, NEW kind,
         SplitAt(new, base, t, chunk, e, before, after, kind)
  PROVE  /\ KindsKept(new, base)
         /\ \A k \in 1..Len(chunk) : k < e => HasWord(new, chunk[k], kind)
         /\ \A k \in 1..Len(chunk) : k > e => HasWord(new, chunk[k], new[Len(new)].type)
<1>1. PICK n, m : n = Len(base) /\ m = Len(new)
  OBVIOUS
<1>2. /\ TypedList(new) /\ new # <<>> /\ n \in Nat \ {0} /\ base[n].text = t /\ base[n].type = kind
      /\ \A i \in 1..n - 1 : i \in 1..m /\ new[i] = base[i]
  BY <1>1 DEF SplitAt
<1>3. Len(before) # 0 => n \in 1..m /\ new[n].text = before /\ new[n].type = kind
  BY <1>1 DEF SplitAt
<1>4. new[m].text = after /\ m \in 1..m
  BY <1>1, <1>2, LastTypeIs DEF SplitAt
<1>5. before \in Seq(Token) /\ after \in Seq(Token)
  BY DEF WordsAround
<1>6. ASSUME NEW x \in Range(before) PROVE HasWord(new, x, kind)
  <2>1. PICK k \in 1..Len(before) : before[k] = x
    BY <1>5, TokenOf
  <2>2. Len(before) # 0
    <3>1. Len(before) \in Nat
      BY <1>5, LenProperties
    <3> QED BY <2>1, <3>1
  <2>3. n \in 1..Len(new) /\ new[n].text = before /\ new[n].type = kind
    BY <1>1, <1>3, <2>2
  <2> QED BY <1>2, <2>1, <2>3, HasWordAt
<1>7. ASSUME NEW x \in Range(after) PROVE HasWord(new, x, new[m].type)
  <2>1. PICK k \in 1..Len(after) : after[k] = x
    BY <1>5, TokenOf
  <2> QED BY <1>1, <1>2, <1>4, <2>1, HasWordAt
<1>8. \A k \in 1..Len(t) : t[k] \notin Tag => HasWord(new, t[k], kind)
  BY <1>6 DEF WordsAround
<1>9. KindsKept(new, base)
  <2>1. \A i \in 1..Len(base) - 1 : i \in 1..Len(new) /\ new[i] = base[i]
    BY <1>1, <1>2
  <2>2. \A k \in 1..Len(base[Len(base)].text) : base[Len(base)].text[k] \notin Tag =>
           HasWord(new, base[Len(base)].text[k], base[Len(base)].type)
    BY <1>1, <1>2, <1>8
  <2> QED BY <1>2, <2>1, <2>2, LastKinds
<1>10. \A k \in 1..Len(chunk) : k < e => HasWord(new, chunk[k], kind)
  BY <1>6 DEF WordsAround
<1>11. \A k \in 1..Len(chunk) : k > e => HasWord(new, chunk[k], new[m].type)
  BY <1>7 DEF WordsAround
<1> QED BY <1>1, <1>9, <1>10, <1>11

\* A start tag opens a block in which the rest of the chunk is.
LEMMA StartParsed ==
  ASSUME NEW base, Ready(base, "message"), NEW chunk, Len(chunk) \in Nat, NEW added, AddedTo(added, base, chunk),
         NEW e \in 1..Len(chunk), TagAt(chunk, e), NEW kind \in {"reasoning", "code"}, chunk[e] = StartTag(kind)
  PROVE  Parsed(Tagged(added).out, base, chunk, e, "message")
<1>1. PICK n : n = Len(base)
  OBVIOUS
<1>2. PICK t, u : t = base[n].text /\ u = added[n].text
  OBVIOUS
<1>3. /\ TypedList(added) /\ added # <<>> /\ Len(added) = n /\ added[n].type = "message"
      /\ u \in Seq(Token) /\ t \in Seq(Token) /\ n \in 1..n
  BY <1>1, <1>2, AddedIs
<1>4. /\ TextGrows(u, t, chunk) /\ TypedList(base) /\ base # <<>> /\ base[n].type = "message"
      /\ \A i \in 1..n - 1 : added[i] = base[i]
  BY <1>1, <1>2 DEF AddedTo, Ready
<1>5. "<think>" \notin Range(t) /\ "<code>" \notin Range(t)
  BY <1>1, <1>2 DEF Ready, Opens
<1>6. StartTag(kind) \notin Range(t) /\ StartTag(kind) \in Tag
  BY <1>5, KindTags
<1>7. PICK s : s = Len(t) + e
  OBVIOUS
<1>8. s \in 1..Len(u) /\ u[s] = StartTag(kind)
  <2>1. \A k \in 1..Len(chunk) : Len(t) + k \in 1..Len(u) /\ u[Len(t) + k] = chunk[k]
    BY <1>3, <1>4, GrownTokens
  <2> QED BY <1>7, <2>1
<1>9. \A k \in 1..Len(u) : u[k] = StartTag(kind) => k = s
  BY <1>3, <1>4, <1>6, <1>7, OnlyTag
<1>10. LastType(added) = "message" /\ Last(added).text = u
  BY <1>2, <1>3, LastTypeIs
<1>11. StartTag(kind) \in Range(Last(added).text)
  BY <1>3, <1>8, <1>10, TokenOf
<1>12. PICK new : new = Opened(kind, added)
  OBVIOUS
<1>13. FirstIn(u, StartTag(kind)) = s
  <2>1. FirstIn(u, StartTag(kind)) \in 1..Len(u) /\ u[FirstIn(u, StartTag(kind))] = StartTag(kind)
    BY <1>3, <1>10, <1>11, OpenedIs
  <2> QED BY <1>9, <2>1
<1>14. PICK before, after : before = SubSeq(u, 1, s - 1) /\ after = SubSeq(u, s + 1, Len(u))
  OBVIOUS
<1>15. /\ TypedList(new) /\ Last(new) = Item(kind, after)
       /\ \A i \in 1..n - 1 : new[i] = added[i]
       /\ s = 1 => Len(new) = n
       /\ s # 1 => Len(new) = n + 1 /\ new[n].type = "message" /\ new[n].text = before
  BY <1>3, <1>10, <1>11, <1>12, <1>13, <1>14, OpenedIs
<1>16. Around(u, t, chunk, e, before, after)
  BY <1>3, <1>4, <1>7, <1>14, AroundTag
<1>17. new # <<>> /\ Len(new) \in {n, n + 1} /\ n \in Nat \ {0}
  <2>1. n \in Nat \ {0} /\ Len(new) \in {n, n + 1}
    BY <1>3, <1>15
  <2>2. Len(new) # 0
    BY <2>1
  <2> QED BY <2>1, <2>2, EmptySeq
<1>18. PICK r : r = Item(kind, after)
  OBVIOUS
<1>19. r.type = kind /\ r.text = after /\ r.status = "in_progress" /\ r.native = FALSE
  BY <1>18 DEF Item
<1>20. Last(new) = r /\ new[Len(new)] = r /\ LastType(new) = kind
  BY <1>15, <1>17, <1>18, <1>19, LastTypeIs
<1>21. SplitAt(new, base, t, chunk, e, before, after, "message")
  <2>1. \A i \in 1..n - 1 : i \in 1..Len(new) /\ new[i] = base[i]
    BY <1>4, <1>15, <1>17
  <2>2. Len(before) # 0 => s # 1
    BY <1>7, <1>16 DEF Around
  <2>3. Len(before) # 0 => n \in 1..Len(new) /\ new[n].text = before /\ new[n].type = "message"
    BY <1>15, <1>17, <2>2
  <2> QED BY <1>1, <1>2, <1>4, <1>15, <1>17, <1>19, <1>20, <2>1, <2>3 DEF SplitAt
<1>22. /\ KindsKept(new, base)
       /\ \A k \in 1..Len(chunk) : k < e => HasWord(new, chunk[k], "message")
       /\ \A k \in 1..Len(chunk) : k > e => HasWord(new, chunk[k], new[Len(new)].type)
  BY <1>4, <1>16, <1>21, AroundWords, SplitHas
<1>23. NextAt("message", chunk, e) = kind
  BY KindTags DEF NextAt, NextMode
<1>24. EndTag(kind) \notin Range(after) /\ "<think>" \notin Range(after) /\ "<code>" \notin Range(after)
  BY <1>16, KindTags DEF Around
<1>25. ModeIs(new, kind)
  BY <1>19, <1>20, <1>24 DEF ModeIs, InsideTagBlock
<1>26. TagOutput(kind, added).out = new
  <2>1. TagOutput(kind, added) = StartBlock(kind, added)
    BY <1>10, <1>11 DEF TagOutput
  <2>2. EndBlock(kind, new).out = new
    BY <1>19, <1>20, <1>24, EndBlockNot
  <2>3. StartBlock(kind, added).out \in {new, EndBlock(kind, new).out}
    BY <1>12, StartBlockIs
  <2> QED BY <2>1, <2>2, <2>3
<1>27. Tagged(added).out = new
  <2>1. CASE kind = "reasoning"
    <3>1. TagOutput("code", new).out = new
      BY <1>20, <2>1 DEF TagOutput
    <3> QED BY <1>26, <2>1, <3>1 DEF Tagged
  <2>2. CASE kind = "code"
    <3>1. "<think>" \notin Range(u)
      <4>1. \A k \in 1..Len(u) : u[k] = "<think>" => chunk[e] = "<think>"
        BY <1>3, <1>4, <1>5, KindTags, OnlyTag
      <4>2. chunk[e] # "<think>"
        BY <2>2, KindTags
      <4> QED BY <1>3, <4>1, <4>2, TokenOf
    <3>2. TagOutput("reasoning", added).out = added
      BY <1>10, <3>1, KindTags DEF TagOutput
    <3> QED BY <1>26, <2>2, <3>2 DEF Tagged
  <2> QED BY <2>1, <2>2
<1> QED BY <1>20, <1>19, <1>22, <1>23, <1>25, <1>27 DEF Parsed

\* A text before and after a position.
Halves(text, x, before, after) ==
  before = SubSeq(text, 1, x - 1) /\ after = SubSeq(text, x + 1, Len(text))

\* What the two halves are.
AreHalves(text, x, before, after) ==
  /\ before \in Seq(Token) /\ after \in Seq(Token) /\ Len(text) \in Nat
  /\ Len(before) = x - 1 /\ \A k \in 1..x - 1 : before[k] = text[k]
  /\ Len(after) = Len(text) - x /\ \A k \in 1..Len(text) - x : after[k] = text[x + k]

\* They are that.
LEMMA HalvesAre ==
  ASSUME NEW text \in Seq(Token), NEW x \in 1..Len(text), NEW before, NEW after, Halves(text, x, before, after)
  PROVE  AreHalves(text, x, before, after)
<1>1. Len(text) \in Nat
  BY LenProperties
<1>2. x \in Nat /\ x <= Len(text) /\ x - 1 \in Nat /\ x - 1 <= Len(text)
  BY <1>1
<1>3. before \in Seq(Token) /\ Len(before) = x - 1 /\ \A k \in 1..x - 1 : before[k] = text[k]
  BY <1>2, HeadIs DEF Halves
<1>4. after \in Seq(Token) /\ Len(after) = Len(text) - x /\ \A k \in 1..Len(text) - x : after[k] = text[x + k]
  BY <1>2, RestIs DEF Halves
<1> QED BY <1>1, <1>3, <1>4 DEF AreHalves

\* The text of a block without its start tags, around its end tag.
LEMMA AroundEnd ==
  ASSUME NEW u \in Seq(Token), NEW t \in Seq(Token), NEW chunk, Len(chunk) \in Nat, TextGrows(u, t, chunk),
         NEW e \in 1..Len(chunk), TagAt(chunk, e), NEW start \in Tag, NEW end \in Tag, start # end,
         chunk[e] = end, end \notin Range(t),
         NEW text, text = Omit(u, start), NEW x \in 1..Len(text), text[x] = end,
         NEW before, NEW after, Halves(text, x, before, after)
  PROVE  /\ WordsAround(t, chunk, e, before, after) /\ (\A y \in Range(after) : y \notin Tag)
         /\ (x = 1 => Len(before) = 0)
<1>1. /\ Len(t) \in Nat /\ Len(u) = Len(t) + Len(chunk)
      /\ \A k \in 1..Len(u) : k \in 1..Len(t) \/ k - Len(t) \in 1..Len(chunk)
      /\ \A k \in 1..Len(t) : k \in 1..Len(u) /\ u[k] = t[k]
      /\ \A k \in 1..Len(chunk) : Len(t) + k \in 1..Len(u) /\ u[Len(t) + k] = chunk[k]
      /\ \A k \in 1..Len(u) : k - Len(t) \in 1..Len(chunk) => u[k] = chunk[k - Len(t)]
  <2>1. Len(t) \in Nat /\ Len(u) = Len(t) + Len(chunk)
    BY GrownTokens
  <2>2. \A k \in 1..Len(u) : k \in 1..Len(t) \/ k - Len(t) \in 1..Len(chunk)
    BY GrownTokens
  <2>3. \A k \in 1..Len(t) : k \in 1..Len(u) /\ u[k] = t[k]
    BY GrownTokens
  <2>4. \A k \in 1..Len(chunk) : Len(t) + k \in 1..Len(u) /\ u[Len(t) + k] = chunk[k]
    BY GrownTokens
  <2>5. \A k \in 1..Len(u) : k - Len(t) \in 1..Len(chunk) => u[k] = chunk[k - Len(t)]
    BY GrownTokens
  <2> QED BY <2>1, <2>2, <2>3, <2>4, <2>5
<1>2. text \in Seq(Token) /\ Len(text) \in Nat
  BY OmitIs, LenProperties
<1>3. PICK kept : /\ PartOf(text, u, kept)
                  /\ \A k \in 1..Len(u) : u[k] # start => \E l \in 1..Len(text) : kept[l] = k
  BY OmitIs
<1>4. /\ \A k \in 1..Len(text) : kept[k] \in 1..Len(u) /\ u[kept[k]] = text[k]
      /\ \A k, l \in 1..Len(text) : k < l => kept[k] < kept[l]
  BY <1>3 DEF PartOf
<1>5. PICK s : s = Len(t) + e
  OBVIOUS
<1>6. kept[x] = s /\ s \in Nat
  <2>1. kept[x] \in 1..Len(u) /\ u[kept[x]] = end
    BY <1>4
  <2>2. kept[x] = Len(t) + e
    BY <2>1, OnlyTag
  <2> QED BY <1>1, <1>5, <2>2
<1>7. PICK b : b = x - 1
  OBVIOUS
<1>8. b \in Nat /\ x = b + 1 /\ x \in Nat
  BY <1>2, <1>7
<1>9. AreHalves(text, x, before, after)
  BY <1>2, HalvesAre
<1>10. before \in Seq(Token) /\ Len(before) = b /\ \A k \in 1..b : before[k] = text[k]
  BY <1>7, <1>9 DEF AreHalves
<1>11. after \in Seq(Token)
  BY <1>9 DEF AreHalves
<1>12. Len(after) = Len(text) - x
  BY <1>9 DEF AreHalves
<1>13. \A k \in 1..Len(text) - x : after[k] = text[x + k]
  BY <1>9 DEF AreHalves
<1>14. /\ Len(after) = Len(text) - x
       /\ \A k \in 1..Len(text) - x : after[k] = text[x + k] /\ x + k \in 1..Len(text) /\ x < x + k
  <2>1. \A k \in 1..Len(text) - x : x + k \in 1..Len(text) /\ x < x + k
    BY <1>2, <1>8
  <2> QED BY <1>12, <1>13, <2>1
<1>15. ASSUME NEW p \in 1..Len(u), u[p] \notin Tag, p < s PROVE u[p] \in Range(before)
  <2>1. PICK l \in 1..Len(text) : kept[l] = p
    BY <1>3, <1>15
  <2>2. l < x
    <3>1. l = x \/ x < l \/ l < x
      BY <1>8
    <3>2. l # x
      BY <1>6, <1>15, <2>1
    <3>3. ~(x < l)
      <4>1. x < l => kept[x] < kept[l]
        BY <1>4
      <4> QED BY <1>6, <1>15, <2>1, <4>1
    <3> QED BY <3>1, <3>2, <3>3
  <2>3. l \in 1..b
    BY <1>8, <2>2
  <2>4. before[l] = u[p]
    BY <1>4, <1>10, <2>1, <2>3
  <2> QED BY <1>10, <2>3, <2>4, TokenOf
<1>16. ASSUME NEW p \in 1..Len(u), u[p] \notin Tag, p > s PROVE u[p] \in Range(after)
  <2>1. PICK l \in 1..Len(text) : kept[l] = p
    BY <1>3, <1>16
  <2>2. x < l
    <3>1. l = x \/ x < l \/ l < x
      BY <1>8
    <3>2. l # x
      BY <1>6, <1>16, <2>1
    <3>3. ~(l < x)
      <4>1. l < x => kept[l] < kept[x]
        BY <1>4
      <4> QED BY <1>6, <1>16, <2>1, <4>1
    <3> QED BY <3>1, <3>2, <3>3
  <2>3. l - x \in 1..Len(text) - x /\ x + (l - x) = l
    BY <1>2, <1>8, <2>2
  <2>4. after[l - x] = text[x + (l - x)] /\ l - x \in 1..Len(after)
    BY <1>14, <2>3
  <2>5. after[l - x] = u[p]
    BY <1>4, <2>1, <2>3, <2>4
  <2> QED BY <1>11, <2>4, <2>5, TokenOf
<1>17. ASSUME NEW y \in Range(after) PROVE y \notin Tag
  <2>1. PICK k \in 1..Len(after) : after[k] = y
    BY <1>11, TokenOf
  <2>2. k \in 1..Len(text) - x
    BY <1>14
  <2>3. PICK l : l = x + k
    OBVIOUS
  <2>4. y = text[l] /\ l \in 1..Len(text) /\ x < l
    BY <1>14, <2>1, <2>2, <2>3
  <2>5. kept[l] \in 1..Len(u) /\ u[kept[l]] = y /\ s < kept[l]
    BY <1>4, <1>6, <2>4
  <2>6. PICK p : p = kept[l]
    OBVIOUS
  <2>7. p \in 1..Len(u) /\ u[p] = y /\ Len(t) + e < p
    BY <1>5, <2>5, <2>6
  <2>8. p - Len(t) \in 1..Len(chunk) /\ p - Len(t) # e
    <3>1. p \notin 1..Len(t)
      BY <1>1, <2>7
    <3>2. p - Len(t) # e
      BY <1>1, <2>7
    <3> QED BY <1>1, <2>7, <3>1, <3>2
  <2>9. y = chunk[p - Len(t)]
    BY <1>1, <2>7, <2>8
  <2> QED BY <2>8, <2>9 DEF TagAt
<1>18. ASSUME NEW k \in 1..Len(t), t[k] \notin Tag PROVE t[k] \in Range(before)
  <2>1. k \in 1..Len(u) /\ u[k] = t[k] /\ k < s
    BY <1>1, <1>5
  <2> QED BY <1>15, <1>18, <2>1
<1>19. ASSUME NEW k \in 1..Len(chunk), k < e PROVE chunk[k] \in Range(before)
  <2>1. PICK p : p = Len(t) + k
    OBVIOUS
  <2>2. p \in 1..Len(u) /\ u[p] = chunk[k] /\ p < s
    BY <1>1, <1>5, <1>19, <2>1
  <2>3. chunk[k] \notin Tag
    BY <1>19 DEF TagAt
  <2> QED BY <1>15, <2>2, <2>3
<1>20. ASSUME NEW k \in 1..Len(chunk), k > e PROVE chunk[k] \in Range(after)
  <2>1. PICK p : p = Len(t) + k
    OBVIOUS
  <2>2. p \in 1..Len(u) /\ u[p] = chunk[k] /\ p > s
    BY <1>1, <1>5, <1>20, <2>1
  <2>3. chunk[k] \notin Tag
    BY <1>20 DEF TagAt
  <2> QED BY <1>16, <2>2, <2>3
<1>21. x = 1 => Len(before) = 0
  BY <1>8, <1>10
<1>22. before \in Seq(Token) /\ after \in Seq(Token)
  BY <1>10, <1>11
<1>23. WordsAround(t, chunk, e, before, after)
  BY <1>18, <1>19, <1>20, <1>22 DEF WordsAround
<1> QED BY <1>17, <1>21, <1>23

\* The end tag of the chunk ends the block in which the text is.
LEMMA EndFound ==
  ASSUME NEW base, NEW kind \in {"reasoning", "code"}, Ready(base, kind), NEW chunk, Len(chunk) \in Nat,
         NEW added, AddedTo(added, base, chunk), NEW e \in 1..Len(chunk), chunk[e] = EndTag(kind)
  PROVE  /\ EndTag(kind) \in Range(Last(added).text) /\ LastType(added) = kind /\ added # <<>>
         /\ TypedList(added) /\ EndTag(kind) \notin Range(base[Len(base)].text)
<1>1. PICK n : n = Len(base)
  OBVIOUS
<1>2. PICK t, u : t = base[n].text /\ u = added[n].text
  OBVIOUS
<1>3. /\ TypedList(added) /\ added # <<>> /\ Len(added) = n /\ added[n].type = kind
      /\ u \in Seq(Token) /\ t \in Seq(Token)
  BY <1>1, <1>2, AddedIs
<1>4. TextGrows(u, t, chunk)
  BY <1>1, <1>2 DEF AddedTo
<1>5. LastType(added) = kind /\ Last(added).text = u
  BY <1>2, <1>3, LastTypeIs
<1>6. EndTag(kind) \in Range(u)
  <2>1. \A k \in 1..Len(chunk) : Len(t) + k \in 1..Len(u) /\ u[Len(t) + k] = chunk[k]
    BY <1>3, <1>4, GrownTokens
  <2>2. Len(t) + e \in 1..Len(u) /\ u[Len(t) + e] = EndTag(kind)
    BY <2>1
  <2>3. PICK p : p = Len(t) + e
    OBVIOUS
  <2>4. p \in 1..Len(u) /\ u[p] = EndTag(kind)
    BY <2>2, <2>3
  <2> QED BY <1>3, <2>4, TokenOf
<1>7. EndTag(kind) \notin Range(t)
  BY <1>1, <1>2 DEF Ready, Opens
<1> QED BY <1>1, <1>2, <1>3, <1>5, <1>6, <1>7

\* At its end tag the code block ends, which ends the stream.
LEMMA CodeEnds ==
  ASSUME NEW base, Ready(base, "code"), NEW chunk, Len(chunk) \in Nat,
         NEW added, AddedTo(added, base, chunk), NEW e \in 1..Len(chunk), chunk[e] = "</code>"
  PROVE  Tagged(added).end = TRUE
<1>1. EndTag("code") \in Range(Last(added).text) /\ LastType(added) = "code" /\ added # <<>> /\ TypedList(added)
  BY EndFound, KindTags
<1>2. TagOutput("reasoning", added).out = added
  BY <1>1 DEF TagOutput
<1>3. TagOutput("code", added) = EndBlock("code", added)
  BY <1>1 DEF TagOutput
<1>4. EndBlock("code", added).end = TRUE
  BY <1>1, EndBlockIs
<1> QED BY <1>2, <1>3, <1>4 DEF Tagged

\* At its end tag the reasoning ends, and the rest of the chunk is a message.
LEMMA EndParsed ==
  ASSUME NEW base, Ready(base, "reasoning"), NEW chunk, Len(chunk) \in Nat,
         NEW added, AddedTo(added, base, chunk), NEW e \in 1..Len(chunk), TagAt(chunk, e), chunk[e] = "</think>"
  PROVE  Parsed(Tagged(added).out, base, chunk, e, "reasoning")
<1>1. PICK n : n = Len(base)
  OBVIOUS
<1>2. PICK t, u : t = base[n].text /\ u = added[n].text
  OBVIOUS
<1>3. PICK start, tag : start = StartTag("reasoning") /\ tag = EndTag("reasoning")
  OBVIOUS
<1>4. start \in Tag /\ tag \in Tag /\ start # tag /\ chunk[e] = tag
  BY <1>3, KindTags
<1>5. tag \in Range(Last(added).text) /\ LastType(added) = "reasoning" /\ tag \notin Range(t)
  BY <1>1, <1>2, <1>3, EndFound, KindTags
<1>6. /\ TypedList(added) /\ added # <<>> /\ Len(added) = n /\ added[n].type = "reasoning"
      /\ u \in Seq(Token) /\ t \in Seq(Token) /\ n \in 1..n
  BY <1>1, <1>2, AddedIs
<1>7. /\ TextGrows(u, t, chunk) /\ TypedList(base) /\ base # <<>> /\ base[n].type = "reasoning"
      /\ \A i \in 1..n - 1 : added[i] = base[i]
  BY <1>1, <1>2 DEF AddedTo, Ready
<1>8. Last(added).text = u
  BY <1>2, <1>6, LastTypeIs
<1>9. PICK text : text = BlockText("reasoning", added)
  OBVIOUS
<1>10. text = Omit(u, start)
  BY <1>3, <1>8, <1>9 DEF BlockText
<1>11. PICK x : x = FirstIn(text, tag)
  OBVIOUS
<1>12. x \in 1..Len(text) /\ text[x] = tag /\ Len(text) \in Nat
  BY <1>3, <1>5, <1>6, <1>9, <1>11, BlockEnds
<1>13. PICK before, after : before = SubSeq(text, 1, x - 1) /\ after = SubSeq(text, x + 1, Len(text))
  OBVIOUS
<1>14. Halves(text, x, before, after)
  BY <1>13 DEF Halves
<1>15. /\ WordsAround(t, chunk, e, before, after) /\ (\A y \in Range(after) : y \notin Tag)
       /\ (x = 1 => Len(before) = 0)
  BY <1>4, <1>5, <1>6, <1>7, <1>10, <1>12, <1>14, AroundEnd
<1>16. PICK new : new = EndBlock("reasoning", added).out
  OBVIOUS
<1>17. /\ TypedList(new) /\ Last(new) = MessageItem(after)
       /\ \A i \in 1..n - 1 : new[i] = added[i]
       /\ x = 1 => Len(new) = n
       /\ x # 1 => Len(new) = n + 1 /\ new[n].type = "reasoning" /\ new[n].text = before
  BY <1>3, <1>5, <1>6, <1>9, <1>11, <1>13, <1>16, EndBlockIs
<1>18. new # <<>> /\ Len(new) \in {n, n + 1} /\ n \in Nat \ {0}
  <2>1. n \in Nat \ {0} /\ Len(new) \in {n, n + 1}
    BY <1>6, <1>17
  <2>2. Len(new) # 0
    BY <2>1
  <2> QED BY <2>1, <2>2, EmptySeq
<1>19. PICK r : r = MessageItem(after)
  OBVIOUS
<1>20. r.type = "message" /\ r.text = after
  BY <1>19 DEF MessageItem, Item
<1>21. Last(new) = r /\ new[Len(new)] = r /\ LastType(new) = "message"
  BY <1>17, <1>18, <1>19, <1>20, LastTypeIs
<1>22. SplitAt(new, base, t, chunk, e, before, after, "reasoning")
  <2>1. \A i \in 1..n - 1 : i \in 1..Len(new) /\ new[i] = base[i]
    BY <1>7, <1>17, <1>18
  <2>2. Len(before) # 0 => x # 1
    BY <1>15
  <2>3. Len(before) # 0 => n \in 1..Len(new) /\ new[n].text = before /\ new[n].type = "reasoning"
    BY <1>17, <1>18, <2>2
  <2> QED BY <1>1, <1>2, <1>7, <1>17, <1>18, <1>20, <1>21, <2>1, <2>3 DEF SplitAt
<1>23. /\ KindsKept(new, base)
       /\ \A k \in 1..Len(chunk) : k < e => HasWord(new, chunk[k], "reasoning")
       /\ \A k \in 1..Len(chunk) : k > e => HasWord(new, chunk[k], new[Len(new)].type)
  BY <1>7, <1>15, <1>22, SplitHas
<1>24. NextAt("reasoning", chunk, e) = "message"
  BY KindTags DEF NextAt, NextMode
<1>25. "<think>" \notin Range(after) /\ "<code>" \notin Range(after)
  BY <1>15, KindTags
<1>26. ModeIs(new, "message")
  BY <1>20, <1>21, <1>25 DEF ModeIs, InsideTagBlock
<1>27. TagOutput("reasoning", added).out = new
  BY <1>5, <1>16 DEF TagOutput
<1>28. TagOutput("code", new).out = new
  BY <1>20, <1>21, <1>25, KindTags DEF TagOutput
<1>29. Tagged(added).out = new
  BY <1>27, <1>28 DEF Tagged
<1> QED BY <1>20, <1>21, <1>23, <1>24, <1>26, <1>29 DEF Parsed

\* A delta with at most one tag: where the tag is.
LEMMA TagFound ==
  ASSUME NEW chunk, Len(chunk) \in Nat, DOMAIN chunk = 1..Len(chunk), AtMostOne(chunk, Tag)
  PROVE  \E e : TagAt(chunk, e)
<1>1. CASE \E e \in 1..Len(chunk) : chunk[e] \in Tag
  <2>1. PICK e \in 1..Len(chunk) : chunk[e] \in Tag
    BY <1>1
  <2>2. e \in 1..Len(chunk) + 1
    OBVIOUS
  <2>3. \A k \in 1..Len(chunk) : k # e => chunk[k] \notin Tag
    BY <2>1 DEF AtMostOne
  <2>4. TagAt(chunk, e)
    BY <2>1, <2>2, <2>3 DEF TagAt
  <2> QED BY <2>4
<1>2. CASE \A e \in 1..Len(chunk) : chunk[e] \notin Tag
  <2>1. PICK e : e = Len(chunk) + 1
    OBVIOUS
  <2>2. e \in 1..Len(chunk) + 1 /\ e \notin 1..Len(chunk)
    BY <2>1
  <2>3. TagAt(chunk, e)
    BY <1>2, <2>2 DEF TagAt
  <2> QED BY <2>3
<1> QED BY <1>1, <1>2

\* What was so for the list before holds for the list that text is added to.
LEMMA ParsedFurther ==
  ASSUME NEW out, NEW base, KindsKept(base, out), NEW new, NEW chunk, NEW e, NEW mode, Parsed(new, base, chunk, e, mode)
  PROVE  Parsed(new, out, chunk, e, mode)
<1>1. KindsKept(new, out)
  BY KindsKeptFurther DEF Parsed
<1> QED BY <1>1 DEF Parsed

\* A delta with at most one tag is read as its tag says, unless it ends the
\* stream.
LEMMA ValueParsed ==
  ASSUME NEW out, TypedList(out), NEW mode \in Mode, ModeIs(out, mode),
         NEW w \in Token, NEW chunk, IsChunk(chunk, w), Len(chunk) \in Nat, DOMAIN chunk = 1..Len(chunk),
         AtMostOne(chunk, Tag), Value(out, chunk).end = FALSE
  PROVE  \E e : TagAt(chunk, e) /\ Parsed(Value(out, chunk).out, out, chunk, e, mode)
<1>1. PICK e : TagAt(chunk, e)
  BY TagFound
<1>2. PICK base : Ready(base, mode) /\ KindsKept(base, out) /\ AddedTo(AddValue(out, chunk), base, chunk)
  BY BaseIs
<1>3. PICK added : added = AddValue(out, chunk)
  OBVIOUS
<1>4. AddedTo(added, base, chunk)
  BY <1>2, <1>3
<1>5. PICK read : read = Tagged(added)
  OBVIOUS
<1>6. Value(out, chunk) = read
  BY <1>3, <1>5 DEF Value, Tagged
<1>7. Parsed(read.out, base, chunk, e, mode)
  <2>1. CASE NextAt(mode, chunk, e) = mode
    <3>1. Tagged(added).out = added /\ Parsed(added, base, chunk, e, mode)
      BY <1>1, <1>2, <1>4, <2>1, IdleParsed
    <3> QED BY <1>5, <3>1
  <2>2. CASE NextAt(mode, chunk, e) # mode
    <3>1. e \in 1..Len(chunk) /\ NextMode(mode, chunk[e]) # mode
      BY <2>2 DEF NextAt
    <3>2. CASE mode = "message"
      <4>1. \E kind \in {"reasoning", "code"} : chunk[e] = StartTag(kind)
        BY <3>1, <3>2, KindTags DEF NextMode
      <4>2. PICK kind \in {"reasoning", "code"} : chunk[e] = StartTag(kind)
        BY <4>1
      <4>3. Ready(base, "message")
        BY <1>2, <3>2
      <4>4. Parsed(Tagged(added).out, base, chunk, e, "message")
        BY <1>1, <1>4, <3>1, <4>2, <4>3, StartParsed
      <4> QED BY <1>5, <3>2, <4>4
    <3>3. CASE mode = "reasoning"
      <4>1. chunk[e] = "</think>"
        BY <3>1, <3>3, KindTags DEF NextMode
      <4>2. Ready(base, "reasoning")
        BY <1>2, <3>3
      <4>3. Parsed(Tagged(added).out, base, chunk, e, "reasoning")
        BY <1>1, <1>4, <3>1, <4>1, <4>2, EndParsed
      <4> QED BY <1>5, <3>3, <4>3
    <3>4. CASE mode = "code"
      <4>1. chunk[e] = "</code>"
        BY <3>1, <3>4, KindTags DEF NextMode
      <4>2. Ready(base, "code")
        BY <1>2, <3>4
      <4>3. Tagged(added).end = TRUE
        BY <1>4, <3>1, <4>1, <4>2, CodeEnds
      <4> QED BY <1>5, <1>6, <4>3
    <3> QED BY <3>2, <3>3, <3>4 DEF Mode
  <2> QED BY <2>1, <2>2
<1>8. Parsed(read.out, out, chunk, e, mode)
  BY <1>2, <1>7, ParsedFurther
<1> QED BY <1>1, <1>6, <1>8

\* Native reasoning outside a block.
LEMMA ReasoningParsed ==
  ASSUME NEW out, TypedList(out), ModeIs(out, "message"), NEW w \in Token
  PROVE  KindsKept(AddReasoning(out, w), out) /\ ModeIs(AddReasoning(out, w), "message")
<1>1. PICK chunk : chunk = <<w>>
  OBVIOUS
<1>2. IsChunk(chunk, w) /\ chunk \in Seq(Token) /\ Len(chunk) \in Nat
  <2>1. chunk \in Seq({w}) /\ {w} \subseteq Token /\ {w} \subseteq Tag \cup {w} /\ Len(chunk) = 1
    BY <1>1
  <2>2. chunk \in Seq(Token) /\ chunk \in Seq(Tag \cup {w})
    BY <2>1, SeqWider
  <2>3. DOMAIN chunk = {1}
    BY <1>1
  <2>4. AtMostOne(chunk, {w})
    BY <2>3 DEF AtMostOne
  <2> QED BY <2>1, <2>2, <2>4 DEF IsChunk
<1>3. CASE LastType(out) = "reasoning"
  <2>1. out # <<>> /\ Last(out) = out[Len(out)] /\ out[Len(out)].type = "reasoning"
        /\ Len(out) \in 1..Len(out)
    <3>1. out # <<>>
      BY <1>3 DEF LastType
    <3> QED BY <1>3, <3>1, LastTypeIs
  <2>2. PICK new : new = AddToLast(out, chunk)
    OBVIOUS
  <2>3. AddReasoning(out, w) = new
    BY <1>1, <1>3, <2>2 DEF AddReasoning
  <2>4. AddedTo(new, out, chunk)
    BY <1>2, <2>1, <2>2, LastAdded
  <2>5. PICK n : n = Len(out)
    OBVIOUS
  <2>6. PICK t, u : t = out[n].text /\ u = new[n].text
    OBVIOUS
  <2>7. /\ TypedList(new) /\ Len(new) = n /\ new[n].type = "reasoning" /\ TextGrows(u, t, chunk)
        /\ new[n].status = out[n].status /\ new[n].native = out[n].native
        /\ \A i \in 1..n - 1 : new[i] = out[i]
    BY <2>1, <2>4, <2>5, <2>6 DEF AddedTo
  <2>8. t \in Seq(Token)
    BY <2>1, <2>5, <2>6 DEF TypedList, TypedItem
  <2>9. \A k \in 1..Len(t) : k \in 1..Len(u) /\ u[k] = t[k]
    BY <1>2, <2>7, <2>8, GrownTokens
  <2>10. n \in 1..n
    BY <2>1, <2>5
  <2>11. \A k \in 1..Len(u) : HasWord(new, u[k], "reasoning")
    BY <2>6, <2>7, <2>10, HasWordAt
  <2>12. \A k \in 1..Len(t) : HasWord(new, t[k], "reasoning")
    BY <2>9, <2>11
  <2>13. \A i \in 1..n - 1 : i \in 1..n
    BY <2>10
  <2>14. KindsKept(new, out)
    BY <2>1, <2>5, <2>6, <2>7, <2>12, <2>13, LastKinds
  <2>15. new # <<>>
    <3>1. Len(new) # 0
      BY <2>7, <2>10
    <3> QED BY <3>1, EmptySeq
  <2>16. LastType(new) = "reasoning" /\ Last(new) = new[n]
    BY <2>7, <2>15, LastTypeIs
  <2>17. ~InsideTagBlock(new)
    <3>1. ~InsideTagBlock(out)
      BY DEF ModeIs
    <3> QED BY <1>3, <2>1, <2>5, <2>7, <2>16, <3>1 DEF InsideTagBlock
  <2>18. ModeIs(new, "message")
    BY <2>16, <2>17 DEF ModeIs
  <2> QED BY <2>3, <2>14, <2>18
<1>4. CASE LastType(out) # "reasoning"
  <2>1. PICK r : r = Native(chunk)
    OBVIOUS
  <2>2. IsItem(r) /\ TypedItem(r) /\ r.type = "reasoning" /\ r.native = TRUE
    <3>1. IsItem(r) /\ r.type = "reasoning"
      BY <2>1, NewItems
    <3>2. TypedItem(r)
      BY <1>2, <2>1, TypedNew
    <3>3. r.native = TRUE
      BY <2>1 DEF Native, Item
    <3> QED BY <3>1, <3>2, <3>3
  <2>3. PICK new : new = Append(out, r)
    OBVIOUS
  <2>4. AddReasoning(out, w) = new
    BY <1>1, <1>4, <2>1, <2>3 DEF AddReasoning
  <2>5. KindsKept(new, out)
    BY <2>2, <2>3, AppendKinds
  <2>6. TypedList(new) /\ Len(new) = Len(out) + 1 /\ new[Len(out) + 1] = r
    BY <2>2, <2>3, AppendTyped
  <2>7. new # <<>>
    <3>1. Len(out) \in Nat
      BY ListIs DEF TypedList
    <3>2. Len(new) # 0
      BY <2>6, <3>1
    <3> QED BY <3>2, EmptySeq
  <2>8. LastType(new) = "reasoning" /\ Last(new) = r
    BY <2>2, <2>6, <2>7, LastTypeIs
  <2>9. ModeIs(new, "message")
    BY <2>2, <2>8 DEF ModeIs, InsideTagBlock
  <2> QED BY <2>4, <2>5, <2>9
<1> QED BY <1>3, <1>4

-----------------------------------------------------------------------------
(* The modes of the whole text                                             *)

\* The items hold the words of a text in the modes of its tokens, and are read
\* on in the mode after its last one.
ReadIn(modes, out, text) ==
  /\ IsModes(modes, text) /\ ModeIs(out, modes[Len(text)])
  /\ \A i \in 1..Len(text) : text[i] \notin Tag => HasWord(out, text[i], modes[i - 1])

\* There are such modes.
InModes(out, text) == \E modes \in [0..Len(text) -> Mode] : ReadIn(modes, out, text)

\* A word does not change the mode; a tag gives another mode or the same.
LEMMA NextModeIs ==
  /\ \A mode, x : x \notin Tag => NextMode(mode, x) = mode
  /\ \A mode \in Mode : \A x : NextMode(mode, x) \in Mode
<1>1. ASSUME NEW mode, NEW x, x \notin Tag PROVE NextMode(mode, x) = mode
  <2>1. mode \in {"reasoning", "code"} => EndTag(mode) \in Tag
    BY KindTags
  <2>2. "<think>" \in Tag /\ "<code>" \in Tag
    BY KindTags
  <2> QED BY <1>1, <2>1, <2>2 DEF NextMode
<1>2. ASSUME NEW mode \in Mode, NEW x PROVE NextMode(mode, x) \in Mode
  BY DEF NextMode, Mode
<1> QED BY <1>1, <1>2

\* A stream starts outside any block.
LEMMA ModesStart ==
  ASSUME NEW out, ModeIs(out, "message"), NEW text, text = <<>>
  PROVE  InModes(out, text)
<1>1. Len(text) = 0
  OBVIOUS
<1>2. PICK modes : modes = [i \in 0..Len(text) |-> "message"]
  OBVIOUS
<1>3. modes \in [0..Len(text) -> Mode] /\ modes[0] = "message" /\ modes[Len(text)] = "message"
  BY <1>1, <1>2 DEF Mode
<1>4. IsModes(modes, text)
  BY <1>1, <1>3 DEF IsModes, Mode
<1>5. ReadIn(modes, out, text)
  BY <1>1, <1>3, <1>4 DEF ReadIn
<1> QED BY <1>3, <1>5 DEF InModes

\* A chunk follows a text.
Follows(all, text, chunk) ==
  /\ Len(text) \in Nat /\ Len(chunk) \in Nat /\ Len(all) = Len(text) + Len(chunk)
  /\ \A i \in 1..Len(text) : all[i] = text[i]
  /\ \A k \in 1..Len(chunk) : all[Len(text) + k] = chunk[k]

\* The modes of a text and of a chunk that has been parsed.
LEMMA ModesRead ==
  ASSUME NEW out, NEW text, NEW chunk, NEW all, Follows(all, text, chunk),
         NEW modes \in [0..Len(text) -> Mode], ReadIn(modes, out, text),
         NEW e, TagAt(chunk, e), NEW new, Parsed(new, out, chunk, e, modes[Len(text)])
  PROVE  InModes(new, all)
<1>1. PICK L, M : L = Len(text) /\ M = Len(chunk)
  OBVIOUS
<1>2. PICK mode, next : mode = modes[L] /\ next = NextAt(mode, chunk, e)
  OBVIOUS
<1>3. /\ L \in Nat /\ M \in Nat /\ Len(all) = L + M
      /\ \A i \in 1..L : all[i] = text[i]
      /\ \A k \in 1..M : all[L + k] = chunk[k]
  BY <1>1 DEF Follows
<1>4. mode \in Mode /\ next \in Mode
  <2>1. mode \in Mode
    BY <1>1, <1>2, <1>3
  <2> QED BY <1>2, <2>1, NextModeIs DEF NextAt
<1>5. e \in 1..M + 1 /\ (e \in 1..M => chunk[e] \in Tag) /\ \A k \in 1..M : k # e => chunk[k] \notin Tag
  <2>1. e \in 1..M + 1
    BY <1>1 DEF TagAt
  <2>2. e \in 1..M => chunk[e] \in Tag
    BY <1>1 DEF TagAt
  <2>3. \A k \in 1..M : k # e => chunk[k] \notin Tag
    BY <1>1 DEF TagAt
  <2> QED BY <2>1, <2>2, <2>3
<1>6. /\ KindsKept(new, out) /\ ModeIs(new, next)
      /\ \A k \in 1..M : k < e => HasWord(new, chunk[k], mode)
      /\ \A k \in 1..M : k > e => HasWord(new, chunk[k], next)
  BY <1>1, <1>2 DEF Parsed
<1>7. PICK more : more = [i \in 0..L + M |-> IF i <= L THEN modes[i] ELSE IF i - L < e THEN mode ELSE next]
  OBVIOUS
<1>8. more \in [0..L + M -> Mode]
  <2>1. \A i \in 0..L + M : i <= L => i \in 0..L
    BY <1>3
  <2>2. \A i \in 0..L : modes[i] \in Mode
    BY <1>1
  <2> QED BY <1>4, <1>7, <2>1, <2>2
<1>9. \A i \in 0..L : more[i] = modes[i]
  <2>1. \A i \in 0..L : i \in 0..L + M /\ i <= L
    BY <1>3
  <2> QED BY <1>7, <2>1
<1>10. ASSUME NEW k \in 1..M PROVE more[L + k] = IF k < e THEN mode ELSE next
  <2>1. L + k \in 0..L + M /\ ~(L + k <= L) /\ (L + k) - L = k
    BY <1>3
  <2> QED BY <1>7, <2>1
<1>11. ASSUME NEW k \in 1..M PROVE more[L + k - 1] = IF k <= e THEN mode ELSE next
  <2>1. CASE k = 1
    <3>1. L + k - 1 = L /\ L \in 0..L /\ k <= e
      BY <1>3, <1>5, <2>1
    <3> QED BY <1>2, <1>9, <3>1
  <2>2. CASE k # 1
    <3>1. PICK j : j = k - 1
      OBVIOUS
    <3>2. j \in 1..M /\ L + k - 1 = L + j /\ (j < e <=> k <= e)
      BY <1>3, <1>5, <2>2, <3>1
    <3>3. more[L + j] = IF j < e THEN mode ELSE next
      BY <1>10, <3>2
    <3> QED BY <3>2, <3>3
  <2> QED BY <2>1, <2>2
<1>12. \A i \in 1..L + M : i \in 1..L \/ \E k \in 1..M : i = L + k
  <2>1. ASSUME NEW i \in 1..L + M, i \notin 1..L PROVE \E k \in 1..M : i = L + k
    <3>1. i - L \in 1..M /\ i = L + (i - L)
      BY <1>3, <2>1
    <3> QED BY <3>1
  <2> QED BY <2>1
<1>13. ASSUME NEW i \in 1..L + M PROVE more[i] = NextMode(more[i - 1], all[i])
  <2>1. CASE i \in 1..L
    <3>1. i - 1 \in 0..L /\ i \in 0..L
      BY <1>3, <2>1
    <3>2. modes[i] = NextMode(modes[i - 1], text[i])
      BY <1>1, <2>1 DEF ReadIn, IsModes
    <3> QED BY <1>3, <1>9, <2>1, <3>1, <3>2
  <2>2. ASSUME NEW k \in 1..M, i = L + k PROVE more[i] = NextMode(more[i - 1], all[i])
    <3>1. more[i] = (IF k < e THEN mode ELSE next) /\ more[i - 1] = (IF k <= e THEN mode ELSE next) /\ all[i] = chunk[k]
      BY <1>3, <1>10, <1>11, <2>2
    <3>2. CASE k < e
      <4>1. k <= e /\ k # e
        BY <1>5, <3>2
      <4> QED BY <1>5, <3>1, <3>2, <4>1, NextModeIs
    <3>3. CASE k = e
      <4>1. k <= e /\ ~(k < e) /\ e \in 1..M
        BY <1>5, <3>3
      <4>2. next = NextMode(mode, chunk[e])
        BY <1>1, <1>2, <4>1 DEF NextAt
      <4> QED BY <3>1, <3>3, <4>1, <4>2
    <3>4. CASE k > e
      <4>1. ~(k <= e) /\ ~(k < e) /\ k # e
        BY <1>5, <3>4
      <4> QED BY <1>5, <3>1, <4>1, NextModeIs
    <3>5. k < e \/ k = e \/ k > e
      BY <1>5
    <3> QED BY <3>2, <3>3, <3>4, <3>5
  <2> QED BY <1>12, <2>1, <2>2
<1>14. IsModes(more, all)
  <2>1. more[0] = "message"
    <3>1. modes[0] = "message" /\ 0 \in 0..L
      BY <1>3 DEF ReadIn, IsModes
    <3> QED BY <1>9, <3>1
  <2> QED BY <1>3, <1>8, <1>13, <2>1 DEF IsModes, Mode
<1>15. ASSUME NEW i \in 1..L + M, all[i] \notin Tag PROVE HasWord(new, all[i], more[i - 1])
  <2>1. CASE i \in 1..L
    <3>1. i - 1 \in 0..L
      BY <1>3, <2>1
    <3>2. text[i] \notin Tag => HasWord(out, text[i], modes[i - 1])
      BY <1>1, <2>1 DEF ReadIn
    <3>3. HasWord(out, all[i], more[i - 1])
      BY <1>3, <1>9, <1>15, <2>1, <3>1, <3>2
    <3> QED BY <1>6, <1>15, <3>3 DEF KindsKept
  <2>2. ASSUME NEW k \in 1..M, i = L + k PROVE HasWord(new, all[i], more[i - 1])
    <3>1. more[i - 1] = (IF k <= e THEN mode ELSE next) /\ all[i] = chunk[k]
      BY <1>3, <1>11, <2>2
    <3>2. k # e
      BY <1>5, <1>15, <3>1
    <3>3. CASE k < e
      <4>1. k <= e
        BY <1>5, <3>3
      <4> QED BY <1>6, <3>1, <3>3, <4>1
    <3>4. CASE k > e
      <4>1. ~(k <= e)
        BY <1>5, <3>4
      <4> QED BY <1>6, <3>1, <3>4, <4>1
    <3>5. k < e \/ k > e
      BY <1>5, <3>2
    <3> QED BY <3>3, <3>4, <3>5
  <2> QED BY <1>12, <2>1, <2>2
<1>16. more[L + M] = next
  <2>1. CASE M = 0
    <3>1. L + M = L /\ L \in 0..L /\ e \notin 1..M
      BY <1>3, <2>1
    <3>2. next = mode
      BY <1>1, <1>2, <3>1 DEF NextAt
    <3> QED BY <1>2, <1>9, <3>1, <3>2
  <2>2. CASE M # 0
    <3>1. M \in 1..M
      BY <1>3, <2>2
    <3>2. more[L + M] = IF M < e THEN mode ELSE next
      BY <1>10, <3>1
    <3>3. M < e => next = mode
      <4>1. M < e => e \notin 1..M
        BY <1>5
      <4> QED BY <1>1, <1>2, <4>1 DEF NextAt
    <3> QED BY <3>2, <3>3
  <2> QED BY <2>1, <2>2
<1>17. ReadIn(more, new, all)
  BY <1>3, <1>6, <1>14, <1>15, <1>16 DEF ReadIn
<1> QED BY <1>3, <1>8, <1>17 DEF InModes

\* A response is read from outside any block, and its words are in the modes of
\* its tokens as long as its deltas are plain.
ParsedInv ==
  /\ pc \in {"payload", "ask"} => ModeIs(output, "message")
  /\ pc = "stream" /\ style = "chat" /\ plain => InModes(output, tokens)

\* ParsedInv holds at the start.
LEMMA ParsedInit == GenerationInit => ParsedInv
<1> SUFFICES ASSUME GenerationInit PROVE ParsedInv
  OBVIOUS
<1>1. pc = "payload"
  BY DEF GenerationInit
<1>2. CASE output = <<>>
  <2>1. LastType(output) = "none"
    BY <1>2 DEF LastType
  <2> QED BY <1>1, <2>1 DEF ParsedInv, ModeIs, InsideTagBlock
<1>3. CASE output # <<>>
  <2>1. PICK r : r = MessageItem(received) /\ output = <<r>> /\ received = <<Earlier>>
    BY <1>3 DEF GenerationInit
  <2>2. LastType(output) = "message" /\ Last(output) = r
    <3>1. r.type = "message"
      BY <2>1 DEF MessageItem, Item
    <3>2. Len(output) = 1 /\ output[1] = r
      BY <2>1
    <3>3. Last(output) = r
      BY <3>2 DEF Last
    <3> QED BY <1>3, <3>1, <3>3 DEF LastType
  <2>3. r.text = <<Earlier>>
    BY <2>1 DEF MessageItem, Item
  <2>4. Range(<<Earlier>>) = {Earlier}
    BY DEF Range
  <2>5. Earlier \notin Tag
    BY GenerationAssumption
  <2>6. {"<think>", "<code>"} \cap Range(Last(output).text) = {}
    BY <2>2, <2>3, <2>4, <2>5, KindTags
  <2>7. ModeIs(output, "message")
    BY <2>2, <2>6 DEF ModeIs, InsideTagBlock
  <2> QED BY <1>1, <2>7 DEF ParsedInv
<1> QED BY <1>2, <1>3

\* Nothing is read, or no longer.
LEMMA ParsedQuiet ==
  ASSUME ParsedInv, UNCHANGED <<pc, style, plain, output, tokens>>
  PROVE  ParsedInv'
BY DEF ParsedInv

\* Where ParsedInv says nothing.
LEMMA ParsedNothing ==
  ASSUME pc' \notin {"payload", "ask", "stream"} \/ (pc' = "stream" /\ style' # "chat")
  PROVE  ParsedInv'
BY DEF ParsedInv

\* A stream starts.
LEMMA ParsedStarts ==
  ASSUME pc' = "stream", ModeIs(output', "message"), tokens' = <<>>
  PROVE  ParsedInv'
<1>1. PICK out, text : out = output' /\ text = tokens'
  OBVIOUS
<1>2. InModes(out, text)
  BY <1>1, ModesStart
<1> QED BY <1>1, <1>2 DEF ParsedInv

\* Whether the stream has ended.
LEMMA EndIsKnown ==
  ASSUME NEW out, NEW chunk, Value(out, chunk).end # TRUE
  PROVE  Value(out, chunk).end = FALSE
<1>1. ASSUME NEW kind, NEW o, EndBlock(kind, o).end # TRUE PROVE EndBlock(kind, o).end = FALSE
  <2>1. PICK longer : EndBlock(kind, o) = [out |-> o, end |-> FALSE] \/ EndBlock(kind, o) = [out |-> longer, end |-> TRUE]
    BY DEF EndBlock
  <2>2. [out |-> o, end |-> FALSE].end = FALSE /\ [out |-> longer, end |-> TRUE].end = TRUE
    OBVIOUS
  <2> QED BY <1>1, <2>1, <2>2
<1>2. ASSUME NEW kind, NEW o, StartBlock(kind, o).end # TRUE PROVE StartBlock(kind, o).end = FALSE
  <2>1. PICK new : StartBlock(kind, o) = [out |-> new, end |-> FALSE] \/ StartBlock(kind, o) = EndBlock(kind, new)
    BY DEF StartBlock
  <2>2. [out |-> new, end |-> FALSE].end = FALSE
    OBVIOUS
  <2> QED BY <1>1, <1>2, <2>1, <2>2
<1>3. PICK o : Value(out, chunk) = TagOutput("code", o)
  BY DEF Value
<1>4. TagOutput("code", o) \in {StartBlock("code", o), EndBlock("code", o), [out |-> o, end |-> FALSE]}
  BY DEF TagOutput
<1>5. [out |-> o, end |-> FALSE].end = FALSE
  OBVIOUS
<1>6. TagOutput("code", o).end # TRUE
  BY <1>3
<1>7. TagOutput("code", o).end = FALSE
  BY <1>1, <1>2, <1>4, <1>5, <1>6
<1> QED BY <1>3, <1>7

\* A text delta is read.
LEMMA ParsedText ==
  ASSUME AnswerInv, ReadInv, ListsInv, SavedInv, ParsedInv, UNCHANGED style, NEW chunk \in Chunk, TextDelta(chunk)
  PROVE  ParsedInv'
<1>1. PICK read : read = Value(output, chunk)
  OBVIOUS
<1>2. /\ pc = "stream" /\ style = "chat" /\ sent + Len(chunk) <= MaxSent
      /\ pc' = (IF read.end THEN "ended" ELSE "stream")
      /\ output' = read.out /\ tokens' = tokens \o chunk
      /\ plain' = (plain /\ AtMostOne(chunk, Tag))
  BY <1>1 DEF TextDelta, Goto
<1>3. CASE pc' # "stream"
  <2>1. pc' = "ended"
    BY <1>2, <1>3
  <2> QED BY <2>1, ParsedNothing
<1>4. CASE ~plain'
  <2>1. pc' \notin {"payload", "ask"}
    BY <1>2
  <2> QED BY <1>4, <2>1 DEF ParsedInv
<1>5. ASSUME pc' = "stream", plain' PROVE ParsedInv'
  <2>1. plain /\ AtMostOne(chunk, Tag)
    BY <1>2, <1>5
  <2>2. ~read.end
    BY <1>2, <1>5
  <2>3. read.end = FALSE
    <3>1. read.end # TRUE
      BY <2>2
    <3> QED BY <1>1, <3>1, EndIsKnown
  <2>4. /\ IsChunk(chunk, NextWord) /\ Len(chunk) \in Nat \ {0} /\ DOMAIN chunk = 1..Len(chunk)
        /\ chunk \in Seq(Tag \cup {NextWord})
    BY ChunkIs
  <2>5. caller # "none"
    BY <1>2 DEF AnswerInv, StreamInv
  <2>6. sent < MaxSent
    <3>1. sent \in Nat /\ MaxSent \in Nat
      BY GenerationAssumption DEF ReadInv
    <3> QED BY <1>2, <2>4, <3>1
  <2>7. PICK w : w = NextWord
    OBVIOUS
  <2>8. w \in Token /\ IsChunk(chunk, w)
    BY <2>4, <2>5, <2>6, <2>7, NextWordIs
  <2>9. PICK out, text : out = output /\ text = tokens
    OBVIOUS
  <2>10. TypedList(out)
    BY <2>9 DEF ListsInv, Listed
  <2>11. PICK modes \in [0..Len(text) -> Mode] : ReadIn(modes, out, text)
    BY <1>2, <2>1, <2>9 DEF ParsedInv, InModes
  <2>12. text \in Seq(Tag \cup Range(received))
    BY <1>2, <2>9 DEF SavedInv
  <2>13. PICK all : all = text \o chunk
    OBVIOUS
  <2>14. Follows(all, text, chunk)
    <3>1. PICK T : T = Tag \cup Range(received) \cup {NextWord}
      OBVIOUS
    <3>2. text \in Seq(T) /\ chunk \in Seq(T)
      BY <2>4, <2>12, <3>1, SeqWider
    <3>3. Len(text) \in Nat /\ Len(chunk) \in Nat
      BY <3>2, LenProperties
    <3>4. Len(all) = Len(text) + Len(chunk) /\ \A i \in 1..Len(all) :
            all[i] = IF i <= Len(text) THEN text[i] ELSE chunk[i - Len(text)]
      BY <2>13, <3>2, ConcatProperties
    <3>5. \A i \in 1..Len(text) : i \in 1..Len(all) /\ i <= Len(text)
      BY <3>3, <3>4
    <3>6. \A k \in 1..Len(chunk) : /\ Len(text) + k \in 1..Len(all) /\ ~(Len(text) + k <= Len(text))
                                   /\ (Len(text) + k) - Len(text) = k
      BY <3>3, <3>4
    <3>7. \A k \in 1..Len(chunk) : all[Len(text) + k] = chunk[k]
      BY <3>4, <3>6
    <3>8. \A i \in 1..Len(text) : all[i] = text[i]
      BY <3>4, <3>5
    <3> QED BY <3>3, <3>4, <3>7, <3>8 DEF Follows
  <2>15. PICK mode : mode = modes[Len(text)]
    OBVIOUS
  <2>16. mode \in Mode /\ ModeIs(out, mode)
    <3>1. Len(text) \in 0..Len(text)
      BY <2>14 DEF Follows
    <3> QED BY <2>11, <2>15, <3>1 DEF ReadIn
  <2>17. \E e : TagAt(chunk, e) /\ Parsed(Value(out, chunk).out, out, chunk, e, mode)
    <3>1. Value(out, chunk).end = FALSE
      BY <1>1, <2>3, <2>9
    <3>2. Len(chunk) \in Nat
      BY <2>4
    <3> QED BY <2>1, <2>4, <2>8, <2>10, <2>16, <3>1, <3>2, ValueParsed
  <2>18. PICK e : TagAt(chunk, e) /\ Parsed(read.out, out, chunk, e, mode)
    BY <1>1, <2>9, <2>17
  <2>19. InModes(read.out, all)
    BY <2>11, <2>14, <2>15, <2>18, ModesRead
  <2>20. output' = read.out /\ tokens' = all
    BY <1>2, <2>9, <2>13
  <2> QED BY <1>5, <2>19, <2>20 DEF ParsedInv
<1> QED BY <1>3, <1>4, <1>5

\* Native reasoning is read; inside a block the deltas are no longer plain.
LEMMA ParsedReasoning ==
  ASSUME AnswerInv, ReadInv, ListsInv, ParsedInv, UNCHANGED style, ReasoningDelta
  PROVE  ParsedInv'
<1>1. /\ pc = "stream" /\ style = "chat" /\ sent < MaxSent /\ pc' = pc /\ tokens' = tokens
      /\ output' = AddReasoning(output, NextWord)
      /\ plain' = (plain /\ ~InsideTagBlock(output))
  BY DEF ReasoningDelta, control
<1>2. CASE ~plain'
  BY <1>1, <1>2 DEF ParsedInv
<1>3. ASSUME plain' PROVE ParsedInv'
  <2>1. plain /\ ~InsideTagBlock(output)
    BY <1>1, <1>3
  <2>2. caller # "none"
    BY <1>1 DEF AnswerInv, StreamInv
  <2>3. PICK w : w = NextWord
    OBVIOUS
  <2>4. w \in Token
    BY <1>1, <2>2, <2>3, NextWordIs
  <2>5. PICK out, text : out = output /\ text = tokens
    OBVIOUS
  <2>6. TypedList(out) /\ ~InsideTagBlock(out)
    BY <2>1, <2>5 DEF ListsInv, Listed
  <2>7. PICK modes \in [0..Len(text) -> Mode] : ReadIn(modes, out, text)
    BY <1>1, <2>1, <2>5 DEF ParsedInv, InModes
  <2>8. modes[Len(text)] = "message" /\ ModeIs(out, "message")
    BY <2>6, <2>7 DEF ReadIn, ModeIs
  <2>9. PICK new : new = AddReasoning(out, w)
    OBVIOUS
  <2>10. KindsKept(new, out) /\ ModeIs(new, "message")
    BY <2>4, <2>6, <2>8, <2>9, ReasoningParsed
  <2>11. \A i \in 1..Len(text) : text[i] \notin Tag => HasWord(new, text[i], modes[i - 1])
    BY <2>7, <2>10 DEF ReadIn, KindsKept
  <2>12. ReadIn(modes, new, text)
    BY <2>7, <2>8, <2>10, <2>11 DEF ReadIn
  <2>13. output' = new /\ tokens' = text
    BY <1>1, <2>3, <2>5, <2>9
  <2>14. InModes(new, text)
    BY <2>12 DEF InModes
  <2> QED BY <1>1, <1>3, <2>13, <2>14 DEF ParsedInv
<1> QED BY <1>2, <1>3

\* A list without items, or whose last one is a blank message, is read from
\* outside any block.
LEMMA BlankMode ==
  /\ ModeIs(<<>>, "message")
  /\ \A out : TypedList(out) => ModeIs(Append(out, MessageItem(<<>>)), "message")
<1>1. ModeIs(<<>>, "message")
  <2>1. LastType(<<>>) = "none"
    BY DEF LastType
  <2> QED BY <2>1 DEF ModeIs, InsideTagBlock
<1>2. ASSUME NEW out, TypedList(out) PROVE ModeIs(Append(out, MessageItem(<<>>)), "message")
  <2>1. PICK base : base = Append(out, MessageItem(<<>>))
    OBVIOUS
  <2>2. PICK r : r = MessageItem(<<>>)
    OBVIOUS
  <2>3. IsItem(r) /\ TypedItem(r) /\ r.type = "message" /\ r.text = <<>>
    BY <2>2, NewItems, TypedNew, EmptySeq
  <2>4. TypedList(base) /\ Len(base) = Len(out) + 1 /\ base[Len(out) + 1] = r
    BY <1>2, <2>1, <2>2, <2>3, AppendTyped
  <2>5. base # <<>>
    <3>1. Len(out) \in Nat
      BY <1>2, ListIs DEF TypedList
    <3>2. Len(base) # 0
      BY <2>4, <3>1
    <3> QED BY <3>2, EmptySeq
  <2>6. LastType(base) = "message" /\ Last(base) = r
    BY <2>3, <2>4, <2>5, LastTypeIs
  <2>7. Range(r.text) = {}
    BY <2>3 DEF Range
  <2> QED BY <2>1, <2>6, <2>7 DEF ModeIs, InsideTagBlock
<1> QED BY <1>1, <1>2

\* Every step keeps ParsedInv.
LEMMA ParsedStep ==
  TypeInv /\ SavedInv /\ ParsedInv /\ [GenerationNext]_generationVars => ParsedInv'
<1> SUFFICES ASSUME TypeInv, SavedInv, ParsedInv, [GenerationNext]_generationVars PROVE ParsedInv'
  OBVIOUS
<1>1. AnswerInv /\ ReadInv /\ ListsInv
  BY DEF TypeInv
<1>2. UNCHANGED style
  BY ConfigKept
<1>3. CASE CallDelta \/ UNCHANGED generationVars
  <2>1. UNCHANGED <<pc, style, plain, output, tokens>>
    BY <1>2, <1>3 DEF CallDelta, generationVars, control, items, reading
  <2> QED BY <2>1, ParsedQuiet
<1>4. CASE \E type \in {"message", "reasoning", "call"} : EventAdded(type)
  <2>1. pc' = "stream" /\ style' # "chat"
    BY <1>2, <1>4 DEF EventAdded, control
  <2> QED BY <2>1, ParsedNothing
<1>5. ASSUME NEW i \in DOMAIN response, EventDelta(i) \/ EventDone(i) PROVE ParsedInv'
  <2>1. pc' = "stream" /\ style' # "chat"
    BY <1>2, <1>5 DEF EventDelta, EventDone, control
  <2> QED BY <2>1, ParsedNothing
<1>6. CASE ReasoningDelta
  BY <1>1, <1>2, <1>6, ParsedReasoning
<1>7. ASSUME NEW chunk \in Chunk, TextDelta(chunk) PROVE ParsedInv'
  BY <1>1, <1>2, <1>7, ParsedText
<1>8. CASE ResponseStreams
  <2>1. pc' = "stream" /\ tokens' = <<>> /\ ModeIs(output, "message") /\ output' = output
    BY <1>1, <1>8 DEF ResponseStreams, reading, items, ReadInv, ParsedInv
  <2> QED BY <2>1, ParsedStarts
<1>9. CASE ToolRequest
  <2>1. pc' = "stream" /\ tokens' = <<>> /\ output' = <<>>
    BY <1>9 DEF ToolRequest
  <2>2. ModeIs(output', "message")
    BY <2>1, BlankMode
  <2> QED BY <2>1, <2>2, ParsedStarts
<1>10. CASE CodeRequest
  <2>1. pc' = "stream" /\ tokens' = <<>> /\ ModeIs(output, "message") /\ output' = output
    BY <1>10 DEF CodeRequest, items, ParsedInv
  <2> QED BY <2>1, ParsedStarts
<1>11. CASE CodeResult
  <2>1. output # <<>> /\ TypedList(output)
    BY <1>1, <1>11 DEF CodeResult, AnswerInv, RoundInv, ListsInv, Listed
  <2>2. PICK done : done = Complete(output) /\ output' = Append(done, MessageItem(<<>>))
    BY <1>11 DEF CodeResult
  <2>3. TypedList(done)
    BY <2>1, <2>2, CompleteTyped
  <2>4. ModeIs(output', "message") /\ pc' = "ask"
    BY <1>11, <2>2, <2>3, BlankMode DEF CodeResult, Goto
  <2> QED BY <2>4 DEF ParsedInv
<1>12. CASE StreamFails
  <2>1. caller \in {"first", "tools", "code"}
    BY <1>1, <1>12 DEF StreamFails, AnswerInv, StreamInv
  <2>2. pc' \in {"over", "code", "save"}
    BY <1>12, <2>1 DEF StreamFails, Goto
  <2> QED BY <2>2, ParsedNothing
<1>13. CASE \/ PayloadFails \/ ResponseWhole \/ SaveWhole \/ EventCompleted \/ StreamEnds
            \/ ToolRound \/ ToolsOver \/ ResultFails \/ ToolResults \/ ToolRequestFails
            \/ CodeRound \/ CodeRequestFails
            \/ Save \/ BackgroundEnds \/ BackgroundFails \/ CancelSave \/ CancelGeneration
  <2>1. pc' \notin {"payload", "ask", "stream"}
    BY <1>13 DEF PayloadFails, ResponseWhole, SaveWhole, EventCompleted, StreamEnds,
       ToolRound, ToolsOver, ResultFails, ToolResults, ToolRequestFails, CodeRound, CodeRequestFails,
       Save, BackgroundEnds, BackgroundFails, CancelSave, CancelGeneration, Goto
  <2> QED BY <2>1, ParsedNothing
<1>14. CASE RunTool
  <2>1. pc' = "calling"
    BY <1>14 DEF RunTool, control
  <2> QED BY <2>1, ParsedNothing
<1> QED BY <1>3, <1>4, <1>5, <1>6, <1>7, <1>8, <1>9, <1>10, <1>11, <1>12, <1>13, <1>14
        DEF GenerationNext, Progress, Deltas, Events

\* The invariant of where the words are.
ReadingInv == WholeInv /\ ParsedInv

\* ReadingInv holds at the start ...
LEMMA ReadingInit == GenerationInit => ReadingInv
BY WholeInit, ParsedInit DEF ReadingInv

\* ... and every step keeps it.
LEMMA ReadingStep == ReadingInv /\ [GenerationNext]_generationVars => ReadingInv'
<1>1. WholeInv => TypeInv /\ SavedInv
  BY DEF WholeInv
<1> QED BY <1>1, WholeStep, ParsedStep DEF ReadingInv

\* ParsedAsTagged: however the provider cuts the text into deltas, each word is
\* in an item of the kind its tags say, as long as a delta holds one tag at most
\* and native reasoning does not come inside a block (middleware.py:3856-3940).
THEOREM WordsAreWhereTheirTagsSay == GenerationSpec => []ParsedAsTagged
<1>1. ReadingInv => ParsedAsTagged
  <2> SUFFICES ASSUME ReadingInv, pc = "stream", style = "chat", plain PROVE HoldsAsTagged(output, tokens)
    BY DEF ParsedAsTagged
  <2>1. PICK modes \in [0..Len(tokens) -> Mode] : ReadIn(modes, output, tokens)
    BY DEF ReadingInv, ParsedInv, InModes
  <2>2. modes \in [0..Len(tokens) -> {"message", "reasoning", "code"}]
    BY <2>1 DEF Mode
  <2> QED BY <2>1, <2>2 DEF HoldsAsTagged, ReadIn
<1> QED BY ReadingInit, ReadingStep, <1>1, PTL DEF GenerationSpec

=============================================================================
