-------------------------- MODULE RetrievalProofs --------------------------
(* What a question cites was there to be cited, for any knowledge bases,     *)
(* documents, chunks, questions and bounds; and the algorithms on the way to *)
(* it keep the text: its sections and chunks, the batches they are embedded  *)
(* in, the context that is quoted, and the data filter, on any input.        *)
EXTENDS RagRetrieval, PureFunctions, FiniteSetTheorems, WellFoundedInduction, TLAPS

\* The steps of questions and of owners in any order.
RetrievalSpec == RetrievalInit /\ [][RetrievalNext]_ragQVars

Finding   == {"lexical", "select", "sections"}
Searching == {"embed", "dense"} \cup Finding
Running   == Searching \cup {"answer"}
Citing    == {"answer", "answered", "insufficient"}
Question0 == Ask \cup Answered \cup {Unasked, [pc |-> "refused"]}

(* What is known of a question is known of its record a, the documents S that *)
(* were ready since it began, the documents M that were indexed between its   *)
(* searches, and the status st and the index ix of the documents.             *)

\* A chunk of a document ready since the question began, of a base of it.
Served(a, S, c) == c.doc \in S /\ BaseOf[c.doc] \in a.bases

\* Two chunks of a document that was not indexed between the searches.
SameIndex(M, c, e) == c.doc = e.doc /\ c.doc \notin M => c.index = e.index

\* Chunks of different sections, as many as were asked for at most.
Distinct(C) ==
    /\ \A c, e \in C : SectionOf(c) = SectionOf(e) => c = e
    /\ Cardinality(C) <= TopK

\* Chunks to be cited.
Citable(a, S, M, C) ==
    /\ \A c \in C : Served(a, S, c)
    /\ \A c, e \in C : SameIndex(M, c, e)

\* Between the searches the chunks found are those of the index that is there,
\* unless the document was indexed again or is gone for good.
Current(M, st, ix, C) ==
    \A c \in C : c.doc \in M \/ c.index = ix[c.doc] \/ st[c.doc] = "gone"

ChunksOf(a) == {s.chunk : s \in a.sources}

QuestionOK(a, S, M, st, ix) ==
    /\ a \in Question0 /\ S \subseteq Doc /\ M \subseteq Doc
    /\ a.pc \in Running => \A d \in Doc : st[d] = "ready" => d \in S
    /\ a.pc \in Searching => a.sources = {}
    /\ a.pc \in Finding => Citable(a, S, M, a.found)
    /\ a.pc = "lexical" => Current(M, st, ix, a.found)
    /\ a.pc = "sections" => Distinct(a.found)
    /\ a.pc \in Citing => Citable(a, S, M, ChunksOf(a)) /\ Distinct(ChunksOf(a))

StoredOK ==
    /\ kb \in [Base -> {"public", "private", "gone"}]
    /\ status \in [Doc -> {"ready", "indexing", "deleting", "gone"}]
    /\ index \in [Doc -> 0..MaxIndexes]
    /\ \A d \in Doc : status[d] = "ready" => index[d] > 0

QuestionDomains ==
    /\ ask = [q \in Question |-> ask[q]]
    /\ serving = [q \in Question |-> serving[q]]
    /\ moved = [q \in Question |-> moved[q]]

\* The inductive invariant.
RetrievalIInv ==
    /\ StoredOK /\ QuestionDomains
    /\ \A q \in Question : QuestionOK(ask[q], serving[q], moved[q], status, index)

----------------------------------------------------------------------------
(* What changes for one question.                                           *)

\* The record of a question by its step.
LEMMA RecordFields ==
    ASSUME NEW a \in Question0
    PROVE  /\ a.pc \in Running => a \in Ask
           /\ a.pc \in {"answered", "insufficient"} => a \in Answered
           /\ a.pc \in Running \cup {"new", "refused", "answered", "insufficient"}
BY DEF Question0, Running, Searching, Finding, Ask, Answered, Unasked

\* A question that does nothing is not disturbed by documents that are
\* indexed, deleted or erased meanwhile.
LEMMA QuestionKept ==
    ASSUME NEW a, NEW S, NEW M, NEW st, NEW ix, QuestionOK(a, S, M, st, ix),
           NEW S2 \in SUBSET Doc, NEW M2 \in SUBSET Doc, NEW st2, NEW ix2,
           S \subseteq S2, M \subseteq M2,
           a.pc \in Running => \A d \in Doc : st2[d] = "ready" => d \in S2,
           \A d \in Doc : st[d] = "gone" => st2[d] = "gone",
           a.pc = "lexical" =>
               \A d \in Doc : d \in M2 \/ st2[d] = "gone" \/ ix2[d] = ix[d]
    PROVE  QuestionOK(a, S2, M2, st2, ix2)
<1>1. ASSUME NEW C, Citable(a, S, M, C) PROVE Citable(a, S2, M2, C)
  BY <1>1 DEF Citable, Served, SameIndex
<1>2. ASSUME a.pc = "lexical" PROVE Current(M2, st2, ix2, a.found)
  <2>1. a \in Ask
    BY <1>2, RecordFields DEF QuestionOK, Running, Searching, Finding
  <2>2. \A c \in a.found : c.doc \in Doc
    BY <2>1 DEF Ask, Chunk
  <2>3. QED
    BY <1>2, <2>2 DEF QuestionOK, Current
<1>3. QED
  BY <1>1, <1>2 DEF QuestionOK

\* A step of the owners.
LEMMA StoredStep ==
    ASSUME RetrievalIInv, StoredOK', UNCHANGED ask,
           serving' \in [Question -> SUBSET Doc],
           moved' \in [Question -> SUBSET Doc],
           \A q \in Question : serving[q] \subseteq serving'[q] /\ moved[q] \subseteq moved'[q],
           \A q \in Question : ask[q].pc \in Running =>
               \A d \in Doc : status'[d] = "ready" => d \in serving'[q],
           \A d \in Doc : status[d] = "gone" => status'[d] = "gone",
           \A q \in Question : ask[q].pc = "lexical" =>
               \A d \in Doc : d \in moved'[q] \/ status'[d] = "gone" \/ index'[d] = index[d]
    PROVE  RetrievalIInv'
<1>1. ASSUME NEW q \in Question
      PROVE  QuestionOK(ask'[q], serving'[q], moved'[q], status', index')
  <2>1. QuestionOK(ask[q], serving[q], moved[q], status, index)
    BY DEF RetrievalIInv
  <2>2. QuestionOK(ask[q], serving'[q], moved'[q], status', index')
    BY <2>1, QuestionKept
  <2>3. QED
    BY <2>2
<1>2. QuestionDomains'
  BY DEF RetrievalIInv, QuestionDomains
<1>3. QED
  BY <1>1, <1>2 DEF RetrievalIInv

\* A step of a question.
LEMMA QuestionStep ==
    ASSUME RetrievalIInv, NEW q \in Question, NEW a, UNCHANGED Stored,
           ask' = [ask EXCEPT ![q] = a],
           serving' = [serving EXCEPT ![q] = serving'[q]],
           moved' = [moved EXCEPT ![q] = moved'[q]],
           QuestionOK(a, serving'[q], moved'[q], status, index)
    PROVE  RetrievalIInv'
<1>1. StoredOK' /\ QuestionDomains'
  BY DEF RetrievalIInv, StoredOK, QuestionDomains, Stored
<1>2. ASSUME NEW p \in Question
      PROVE  QuestionOK(ask'[p], serving'[p], moved'[p], status', index')
  <2>1. UNCHANGED <<status, index>>
    BY DEF Stored
  <2>2. CASE p = q
    <3>1. ask'[p] = a
      BY <2>2 DEF RetrievalIInv, QuestionDomains
    <3>2. QED
      BY <2>1, <2>2, <3>1
  <2>3. CASE p # q
    <3>1. ask'[p] = ask[p] /\ serving'[p] = serving[p] /\ moved'[p] = moved[p]
      BY <2>3 DEF RetrievalIInv, QuestionDomains
    <3>2. QED
      BY <2>1, <3>1 DEF RetrievalIInv
  <2>4. QED
    BY <2>2, <2>3
<1>3. QED
  BY <1>1, <1>2 DEF RetrievalIInv

----------------------------------------------------------------------------
(* The owners and the indexing tasks.                                       *)

\* The running questions and their ready documents.
LEMMA ReadyServed ==
    ASSUME RetrievalIInv, NEW q \in Question, ask[q].pc \in Running, NEW d \in Doc,
           status[d] = "ready"
    PROVE  d \in serving[q]
BY DEF RetrievalIInv, QuestionOK

\* The types of the two histories.
LEMMA ServingTyped ==
    RetrievalIInv => /\ serving \in [Question -> SUBSET Doc]
                     /\ moved \in [Question -> SUBSET Doc]
BY DEF RetrievalIInv, QuestionDomains, QuestionOK

\* SetPublic (KnowledgeBaseService.update) keeps the invariant.
LEMMA SetPublicStep ==
    ASSUME RetrievalIInv, NEW b \in Base, SetPublic(b) PROVE RetrievalIInv'
<1>1. StoredOK'
  BY DEF SetPublic, RetrievalIInv, StoredOK
<1>2. QED
  BY <1>1, StoredStep, ReadyServed, ServingTyped DEF SetPublic

\* DeleteBase (KnowledgeBaseService.delete) keeps the invariant.
LEMMA DeleteBaseStep ==
    ASSUME RetrievalIInv, NEW b \in Base, DeleteBase(b) PROVE RetrievalIInv'
<1>1. StoredOK'
  BY DEF DeleteBase, RetrievalIInv, StoredOK
<1>2. \A d \in Doc : /\ status'[d] = "ready" => status[d] = "ready"
                     /\ status[d] = "gone" => status'[d] = "gone"
  BY DEF DeleteBase, RetrievalIInv, StoredOK
<1>3. QED
  BY <1>1, <1>2, StoredStep, ReadyServed, ServingTyped DEF DeleteBase

\* RetryDocument (DocumentService.retry) keeps the invariant.
LEMMA RetryDocumentStep ==
    ASSUME RetrievalIInv, NEW d \in Doc, RetryDocument(d) PROVE RetrievalIInv'
<1>1. StoredOK'
  BY DEF RetryDocument, RetrievalIInv, StoredOK
<1>2. \A e \in Doc : /\ status'[e] = "ready" => status[e] = "ready"
                     /\ status[e] = "gone" => status'[e] = "gone"
  BY DEF RetryDocument, RetrievalIInv, StoredOK
<1>3. QED
  BY <1>1, <1>2, StoredStep, ReadyServed, ServingTyped DEF RetryDocument

\* RequestDelete (DocumentService.delete) keeps the invariant.
LEMMA RequestDeleteStep ==
    ASSUME RetrievalIInv, NEW d \in Doc, RequestDelete(d) PROVE RetrievalIInv'
<1>1. StoredOK'
  BY DEF RequestDelete, RetrievalIInv, StoredOK
<1>2. \A e \in Doc : /\ status'[e] = "ready" => status[e] = "ready"
                     /\ status[e] = "gone" => status'[e] = "gone"
  BY DEF RequestDelete, RetrievalIInv, StoredOK
<1>3. QED
  BY <1>1, <1>2, StoredStep, ReadyServed, ServingTyped DEF RequestDelete

\* A document that becomes ready serves every running question, and one that
\* is between its searches knows that the document has moved.
LEMMA IndexDocumentStep ==
    ASSUME RetrievalIInv, NEW d \in Doc, IndexDocument(d) PROVE RetrievalIInv'
<1>1. StoredOK'
  BY RetrievalAssumption DEF IndexDocument, RetrievalIInv, StoredOK
<1>2. /\ serving' \in [Question -> SUBSET Doc] /\ moved' \in [Question -> SUBSET Doc]
      /\ \A q \in Question : serving[q] \subseteq serving'[q] /\ moved[q] \subseteq moved'[q]
      /\ \A q \in Question : ask[q].pc \in Running => d \in serving'[q]
      /\ \A q \in Question : ask[q].pc = "lexical" => d \in moved'[q]
  BY ServingTyped DEF IndexDocument, Asked, Under, Running, Searching, Finding
<1>3. \A e \in Doc : /\ status[e] = "gone" => status'[e] = "gone"
                     /\ e # d => status'[e] = status[e] /\ index'[e] = index[e]
  BY DEF IndexDocument, RetrievalIInv, StoredOK
<1>4. \A q \in Question : ask[q].pc \in Running =>
          \A e \in Doc : status'[e] = "ready" => e \in serving'[q]
  BY <1>2, <1>3, ReadyServed
<1>5. QED
  BY <1>1, <1>2, <1>3, <1>4, StoredStep DEF IndexDocument

\* EraseDocument (delete_document) keeps the invariant.
LEMMA EraseDocumentStep ==
    ASSUME RetrievalIInv, NEW d \in Doc, EraseDocument(d) PROVE RetrievalIInv'
<1>1. StoredOK'
  BY RetrievalAssumption DEF EraseDocument, RetrievalIInv, StoredOK
<1>2. \A e \in Doc : /\ status'[e] = "ready" => status[e] = "ready"
                     /\ status[e] = "gone" => status'[e] = "gone"
                     /\ status'[e] = "gone" \/ index'[e] = index[e]
  BY DEF EraseDocument, RetrievalIInv, StoredOK
<1>3. QED
  BY <1>1, <1>2, StoredStep, ReadyServed, ServingTyped DEF EraseDocument

----------------------------------------------------------------------------
(* The questions.                                                           *)

\* No chunks are of different sections.
LEMMA NothingCited == Distinct({})
BY FS_EmptySet, RetrievalAssumption DEF Distinct

\* The chunks of the searches are of documents that are ready.
LEMMA SearchableServed ==
    ASSUME RetrievalIInv, NEW q \in Question, ask[q].pc \in Running,
           NEW c \in Searchable(q)
    PROVE  Served(ask[q], serving[q], c) /\ c.index = index[c.doc] /\ c \in Chunk
           /\ status[c.doc] = "ready"
BY ReadyServed DEF Searchable, Served, Chunk

\* BeginAsk (QueryService._accessible_kb_ids) keeps the invariant.
LEMMA BeginAskStep ==
    ASSUME RetrievalIInv, NEW q \in Question, NEW bases \in SUBSET Base, BeginAsk(q, bases)
    PROVE  RetrievalIInv'
<1> DEFINE may == bases \cap Readable
           a   == IF may = {} THEN [pc |-> "refused"]
                  ELSE [pc |-> "embed", bases |-> may, found |-> {}, sources |-> {}]
<1>1. a \in Question0
  BY DEF Question0, Ask, Readable
<1>2. serving'[q] = {d \in Doc : status[d] = "ready"} /\ moved'[q] \in SUBSET Doc
  BY ServingTyped DEF BeginAsk
<1>3. a.pc \in {"refused", "embed"} /\ (a.pc = "embed" => a.sources = {})
  OBVIOUS
<1>4. QuestionOK(a, serving'[q], moved'[q], status, index)
  BY <1>1, <1>2, <1>3 DEF QuestionOK, Finding, Citing, Running, Searching
<1>5. /\ ask' = [ask EXCEPT ![q] = a] /\ UNCHANGED Stored
      /\ serving' = [serving EXCEPT ![q] = serving'[q]]
      /\ moved' = [moved EXCEPT ![q] = moved'[q]]
  BY ServingTyped DEF BeginAsk
<1>6. QED
  BY <1>4, <1>5, QuestionStep

\* A step of a question that changes its record only.
LEMMA RecordStep ==
    ASSUME RetrievalIInv, NEW q \in Question, NEW a,
           ask' = [ask EXCEPT ![q] = a], UNCHANGED <<Stored, serving, moved>>,
           QuestionOK(a, serving[q], moved[q], status, index)
    PROVE  RetrievalIInv'
<1>1. /\ serving' = [serving EXCEPT ![q] = serving'[q]]
      /\ moved' = [moved EXCEPT ![q] = moved'[q]]
  BY ServingTyped
<1>2. QED
  BY <1>1, QuestionStep

\* Embed (EmbeddingProvider.embed) keeps the invariant.
LEMMA EmbedQuestionStep ==
    ASSUME RetrievalIInv, NEW q \in Question, Embed(q) PROVE RetrievalIInv'
<1> DEFINE a == [ask[q] EXCEPT !.pc = "dense"]
<1>1. QuestionOK(ask[q], serving[q], moved[q], status, index) /\ ask[q] \in Ask
  BY RecordFields DEF RetrievalIInv, QuestionOK, Embed, Running, Searching
<1>2. a \in Ask /\ a.pc = "dense" /\ a.sources = ask[q].sources
  BY <1>1 DEF Ask
<1>3. QuestionOK(a, serving[q], moved[q], status, index)
  BY <1>1, <1>2 DEF Embed, QuestionOK, Question0, Finding, Citing, Running, Searching
<1>4. QED
  BY <1>3, RecordStep DEF Embed

\* AskFails (RerankProvider.rerank) keeps the invariant.
LEMMA AskFailsStep ==
    ASSUME RetrievalIInv, NEW q \in Question, AskFails(q) PROVE RetrievalIInv'
<1> DEFINE a == [pc |-> "refused"]
<1>1. QuestionOK(a, {}, {}, status, index)
  BY DEF QuestionOK, Question0, Finding, Citing, Running, Searching
<1>2. serving'[q] = {} /\ moved'[q] = {}
  BY ServingTyped DEF AskFails
<1>3. QED
  BY <1>1, <1>2, QuestionStep DEF AskFails

\* The first search finds chunks of the indexes that are there.
LEMMA DenseSearchStep ==
    ASSUME RetrievalIInv, NEW q \in Question, DenseSearch(q) PROVE RetrievalIInv'
<1>1. PICK hits \in SUBSET Searchable(q) :
          ask' = [ask EXCEPT ![q].pc = "lexical", ![q].found = hits]
  BY DEF DenseSearch
<1> DEFINE a == [ask[q] EXCEPT !.pc = "lexical", !.found = hits]
<1>2. /\ QuestionOK(ask[q], serving[q], moved[q], status, index)
      /\ ask[q] \in Ask /\ ask[q].pc = "dense"
  BY RecordFields DEF RetrievalIInv, QuestionOK, DenseSearch, Running, Searching
<1>3. \A c \in hits : /\ Served(ask[q], serving[q], c) /\ c.index = index[c.doc]
                      /\ c \in Chunk
  BY <1>2, SearchableServed DEF Running, Searching
<1>4. /\ a \in Ask /\ a.pc = "lexical" /\ a.found = hits
      /\ a.sources = ask[q].sources /\ a.bases = ask[q].bases
  BY <1>2, <1>3 DEF Ask
<1>5. Citable(a, serving[q], moved[q], hits) /\ Current(moved[q], status, index, hits)
  BY <1>3, <1>4 DEF Citable, Current, Served, SameIndex
<1> HIDE DEF a
<1>6. QuestionOK(a, serving[q], moved[q], status, index)
  BY <1>2, <1>4, <1>5 DEF QuestionOK, Question0, Finding, Citing, Running, Searching
<1>7. ask' = [ask EXCEPT ![q] = a]
  BY <1>1, <1>2 DEF a, RetrievalIInv, QuestionDomains
<1>8. QED
  BY <1>6, <1>7, RecordStep DEF DenseSearch

\* The second search adds chunks of the index that is there now: beside those
\* found before they are of the same index, or the document was indexed again.
LEMMA LexicalSearchStep ==
    ASSUME RetrievalIInv, NEW q \in Question, LexicalSearch(q) PROVE RetrievalIInv'
<1>1. PICK hits \in SUBSET Searchable(q) :
          ask' = [ask EXCEPT ![q].pc = "select", ![q].found = @ \cup hits]
  BY DEF LexicalSearch
<1> DEFINE a == [ask[q] EXCEPT !.pc = "select", !.found = ask[q].found \cup hits]
<1>2. /\ QuestionOK(ask[q], serving[q], moved[q], status, index)
      /\ ask[q] \in Ask /\ ask[q].pc = "lexical"
  BY RecordFields DEF RetrievalIInv, QuestionOK, LexicalSearch, Running, Searching, Finding
<1>3. \A c \in hits : /\ Served(ask[q], serving[q], c) /\ c.index = index[c.doc]
                      /\ c \in Chunk /\ status[c.doc] = "ready"
  BY <1>2, SearchableServed DEF Running, Searching, Finding
<1>4. /\ a \in Ask /\ a.pc = "select" /\ a.found = ask[q].found \cup hits
      /\ a.sources = ask[q].sources /\ a.bases = ask[q].bases
  BY <1>2, <1>3 DEF Ask
<1>5. Citable(ask[q], serving[q], moved[q], ask[q].found)
      /\ Current(moved[q], status, index, ask[q].found)
  BY <1>2 DEF QuestionOK, Finding
<1> HIDE DEF a
<1>6. Citable(a, serving[q], moved[q], ask[q].found \cup hits)
  <2>1. \A c \in ask[q].found \cup hits : Served(a, serving[q], c)
    BY <1>3, <1>4, <1>5 DEF Citable, Served
  <2>2. \A c, e \in ask[q].found \cup hits : SameIndex(moved[q], c, e)
    BY <1>3, <1>5 DEF Citable, Current, SameIndex
  <2>3. QED
    BY <2>1, <2>2 DEF Citable
<1>7. QuestionOK(a, serving[q], moved[q], status, index)
  BY <1>2, <1>4, <1>6 DEF QuestionOK, Question0, Finding, Citing, Running, Searching
<1>8. ask' = [ask EXCEPT ![q] = a]
  BY <1>1, <1>2 DEF a, RetrievalIInv, QuestionDomains
<1>9. QED
  BY <1>7, <1>8, RecordStep DEF LexicalSearch

\* SelectContext (QueryService._select_context_results) keeps the invariant.
LEMMA SelectContextStep ==
    ASSUME RetrievalIInv, NEW q \in Question, SelectContext(q) PROVE RetrievalIInv'
<1>1. PICK kept \in SUBSET ask[q].found :
          /\ Cardinality(kept) <= TopK
          /\ \A c, e \in kept : SectionOf(c) = SectionOf(e) => c = e
          /\ ask' = [ask EXCEPT ![q].pc = "sections", ![q].found = kept]
  BY DEF SelectContext
<1> DEFINE a == [ask[q] EXCEPT !.pc = "sections", !.found = kept]
<1>2. /\ QuestionOK(ask[q], serving[q], moved[q], status, index)
      /\ ask[q] \in Ask /\ ask[q].pc = "select"
  BY RecordFields DEF RetrievalIInv, QuestionOK, SelectContext, Running, Searching, Finding
<1>3. /\ a \in Ask /\ a.pc = "sections" /\ a.found = kept
      /\ a.sources = ask[q].sources /\ a.bases = ask[q].bases
  BY <1>1, <1>2 DEF Ask
<1> HIDE DEF a
<1>4. Citable(a, serving[q], moved[q], kept)
  BY <1>1, <1>2, <1>3 DEF QuestionOK, Citable, Served, SameIndex, Finding
<1>5. Distinct(kept)
  BY <1>1 DEF Distinct
<1>6. QuestionOK(a, serving[q], moved[q], status, index)
  BY <1>2, <1>3, <1>4, <1>5
     DEF QuestionOK, Question0, Finding, Citing, Running, Searching
<1>7. ask' = [ask EXCEPT ![q] = a]
  BY <1>1, <1>2 DEF a, RetrievalIInv, QuestionDomains
<1>8. QED
  BY <1>6, <1>7, RecordStep DEF SelectContext

\* The sources are the chunks that were kept.
LEMMA ReadSectionsStep ==
    ASSUME RetrievalIInv, NEW q \in Question, ReadSections(q) PROVE RetrievalIInv'
<1> DEFINE shown(c) == [chunk |-> c, text |-> IF c.index = index[c.doc] THEN "section" ELSE "chunk"]
           sources  == {shown(c) : c \in ask[q].found}
           a        == [ask[q] EXCEPT !.pc = "answer", !.found = {}, !.sources = sources]
<1>1. /\ QuestionOK(ask[q], serving[q], moved[q], status, index)
      /\ ask[q] \in Ask /\ ask[q].pc = "sections"
  BY RecordFields DEF RetrievalIInv, QuestionOK, ReadSections, Running, Searching, Finding
<1>2. sources \subseteq Source /\ {s.chunk : s \in sources} = ask[q].found
  <2>1. \A c \in ask[q].found : shown(c) \in Source /\ shown(c).chunk = c
    BY <1>1 DEF Ask, Source
  <2> HIDE DEF shown
  <2>2. sources \subseteq Source
    BY <2>1
  <2>3. {s.chunk : s \in sources} = ask[q].found
    BY <2>1
  <2>4. QED
    BY <2>2, <2>3
<1>3. ask' = [ask EXCEPT ![q] = a]
  BY <1>1 DEF ReadSections, RetrievalIInv, QuestionDomains
<1> HIDE DEF sources
<1>4. /\ a \in Ask /\ a.pc = "answer" /\ a.sources = sources /\ a.bases = ask[q].bases
  BY <1>1, <1>2 DEF Ask
<1> HIDE DEF a
<1>5. ChunksOf(a) = ask[q].found
  BY <1>2, <1>4 DEF ChunksOf
<1>6. Citable(a, serving[q], moved[q], ChunksOf(a)) /\ Distinct(ChunksOf(a))
  BY <1>1, <1>4, <1>5 DEF QuestionOK, Citable, Served, Finding
<1>7. QuestionOK(a, serving[q], moved[q], status, index)
  BY <1>1, <1>4, <1>6 DEF QuestionOK, Question0, Finding, Citing, Running, Searching
<1>8. QED
  BY <1>3, <1>7, RecordStep DEF ReadSections

\* Answer (QueryService.answer) keeps the invariant.
LEMMA AnswerStep ==
    ASSUME RetrievalIInv, NEW q \in Question, Answer(q) PROVE RetrievalIInv'
<1>1. /\ QuestionOK(ask[q], serving[q], moved[q], status, index)
      /\ ask[q] \in Ask /\ ask[q].pc = "answer"
  BY RecordFields DEF RetrievalIInv, QuestionOK, Answer, Running, Searching, Finding
<1>2. ASSUME NEW pc \in {"answered", "insufficient"}, NEW sources \in SUBSET ask[q].sources,
             sources \in {{}, ask[q].sources},
             ask' = [ask EXCEPT ![q] = [pc |-> pc, bases |-> ask[q].bases, sources |-> sources]]
      PROVE  RetrievalIInv'
  <2> DEFINE a == [pc |-> pc, bases |-> ask[q].bases, sources |-> sources]
  <2>1. a \in Answered
    BY <1>1 DEF Ask, Answered
  <2>2. a.pc = pc /\ a.bases = ask[q].bases /\ a.sources = sources
    OBVIOUS
  <2> HIDE DEF a
  <2>3. Citable(a, serving[q], moved[q], ChunksOf(a)) /\ Distinct(ChunksOf(a))
    <3>1. CASE sources = {}
      <4>1. ChunksOf(a) = {}
        BY <2>2, <3>1 DEF ChunksOf
      <4>2. QED
        BY <4>1, NothingCited DEF Citable
    <3>2. CASE sources = ask[q].sources
      <4>1. ChunksOf(a) = ChunksOf(ask[q])
        BY <2>2, <3>2 DEF ChunksOf
      <4>2. QED
        BY <1>1, <2>2, <4>1 DEF QuestionOK, Citable, Served, Citing
    <3>3. QED
      BY <1>2, <3>1, <3>2
  <2>4. QuestionOK(a, serving[q], moved[q], status, index)
    BY <1>1, <2>1, <2>2, <2>3
       DEF QuestionOK, Question0, Finding, Citing, Running, Searching
  <2>5. ask' = [ask EXCEPT ![q] = a]
    BY <1>2 DEF a
  <2>6. QED
    BY <2>4, <2>5, RecordStep DEF Answer
<1>3. QED
  BY <1>2 DEF Answer, RetrievalIInv, QuestionDomains

----------------------------------------------------------------------------

\* The initial state satisfies the invariant.
LEMMA RetrievalInitInv == RetrievalInit => RetrievalIInv
<1> SUFFICES ASSUME RetrievalInit PROVE RetrievalIInv
  OBVIOUS
<1>1. StoredOK /\ QuestionDomains
  BY RetrievalAssumption DEF RetrievalInit, StoredOK, QuestionDomains
<1>2. QuestionOK(Unasked, {}, {}, status, index)
  BY DEF QuestionOK, Question0, Unasked, Finding, Citing, Running, Searching
<1>3. QED
  BY <1>1, <1>2 DEF RetrievalInit, RetrievalIInv

\* Every step keeps it.
LEMMA RetrievalNextInv == RetrievalIInv /\ [RetrievalNext]_ragQVars => RetrievalIInv'
<1> SUFFICES ASSUME RetrievalIInv, [RetrievalNext]_ragQVars PROVE RetrievalIInv'
  OBVIOUS
<1>1. CASE UNCHANGED ragQVars
  BY <1>1 DEF ragQVars, RetrievalIInv, StoredOK, QuestionDomains
<1>2. QED
  BY <1>1, SetPublicStep, DeleteBaseStep, RetryDocumentStep, RequestDeleteStep,
     IndexDocumentStep, EraseDocumentStep, BeginAskStep, EmbedQuestionStep, AskFailsStep,
     DenseSearchStep, LexicalSearchStep, SelectContextStep, ReadSectionsStep, AnswerStep
     DEF RetrievalNext

\* What the record of a question holds is what it cites.
LEMMA CitedIsChunks ==
    ASSUME RetrievalIInv, NEW q \in Question
    PROVE  Citable(ask[q], serving[q], moved[q], Cited(q)) /\ Distinct(Cited(q))
<1>1. QuestionOK(ask[q], serving[q], moved[q], status, index)
  BY DEF RetrievalIInv
<1>2. CASE ask[q].pc \in Citing
  <2>1. Cited(q) = ChunksOf(ask[q])
    BY <1>1, <1>2, RecordFields DEF Cited, ChunksOf, Ask, Answered, QuestionOK, Citing, Running
  <2>2. QED
    BY <1>1, <1>2, <2>1 DEF QuestionOK
<1>3. CASE ask[q].pc \notin Citing
  <2>1. Cited(q) = {}
    BY <1>1, <1>3, RecordFields
       DEF Cited, QuestionOK, Citing, Running, Question0, Ask, Answered, Unasked
  <2>2. QED
    BY <2>1, NothingCited DEF Citable
<1>4. QED
  BY <1>2, <1>3

----------------------------------------------------------------------------

\* The inductive invariant holds in every reachable state.
THEOREM RetrievalInductive == RetrievalSpec => []RetrievalIInv
BY RetrievalInitInv, RetrievalNextInv, PTL DEF RetrievalSpec

\* However the statements of a question interleave with changes, deletions and
\* new indexes: it cites documents that were ready since it began, of bases the
\* asker could read, with chunks of one index unless the document was indexed
\* between the two searches, each section once and no more than asked for.
THEOREM RetrievalSafe == RetrievalSpec => []RetrievalInv
<1>1. RetrievalIInv => RetrievalInv
  <2> SUFFICES ASSUME RetrievalIInv PROVE RetrievalInv
    OBVIOUS
  <2>1. RetrievalTypeOK
    BY ServingTyped DEF RetrievalIInv, StoredOK, QuestionOK, Question0, RetrievalTypeOK
  <2>2. SourcesServed
    BY CitedIsChunks DEF SourcesServed, Citable, Served
  <2>3. OneIndexEach
    BY CitedIsChunks DEF OneIndexEach, Citable, SameIndex
  <2>4. SectionsOnce
    BY CitedIsChunks DEF SectionsOnce, Distinct
  <2>5. QED
    BY <2>1, <2>2, <2>3, <2>4 DEF RetrievalInv
<1>2. QED
  BY <1>1, RetrievalInductive, PTL

----------------------------------------------------------------------------
(* Loops, numbers and sequences.                                            *)

\* Induction on the numbers, for a set of them: there is no least one outside.
LEMMA SetInduction ==
    ASSUME NEW S, 0 \in S, \A n \in Nat : n \in S => n + 1 \in S
    PROVE  Nat \subseteq S
<1> DEFINE T == Nat \ S
<1> SUFFICES ASSUME T # {} PROVE FALSE
  OBVIOUS
<1> DEFINE Less == OpToRel(<, Nat)
<1>1. \A x, y \in Nat : x < y => <<x, y>> \in Less
  BY Zenon DEF OpToRel
<1>2. IsWellFoundedOn(Less, Nat)
  BY NatLessThanWellFounded, Zenon
<1> HIDE DEF Less
<1>3. PICK x \in T : \A y \in T : ~ (<<y, x>> \in Less)
  BY <1>2, WFMin
<1>4. x \in Nat /\ x # 0 /\ x \notin S
  OBVIOUS
<1>5. x - 1 \in Nat /\ x - 1 < x /\ (x - 1) + 1 = x
  BY <1>4
<1>6. x - 1 \notin S
  BY <1>4, <1>5
<1>7. <<x - 1, x>> \in Less
  BY <1>1, <1>4, <1>5
<1> QED
  BY <1>3, <1>5, <1>6, <1>7

\* The same for the rounds of a loop.
LEMMA LoopInduction ==
    ASSUME NEW n \in Nat, NEW S, 0 \in S, \A k \in 1..n : k - 1 \in S => k \in S
    PROVE  \A k \in 0..n : k \in S
<1> DEFINE T == S \cup {k \in Nat : k > n}
<1>1. ASSUME NEW k \in Nat, k \in T PROVE k + 1 \in T
  <2>1. CASE k + 1 > n
    BY <2>1
  <2>2. CASE k + 1 \in 1..n
    <3>1. (k + 1) - 1 = k /\ k \in S
      BY <1>1, <2>2
    <3> QED
      BY <2>2, <3>1
  <2> QED
    BY <2>1, <2>2
<1>2. 0 \in T
  OBVIOUS
<1> HIDE DEF T
<1>3. Nat \subseteq T
  BY <1>1, <1>2, SetInduction
<1> QED
  BY <1>3 DEF T

\* A loop of n rounds that starts at b and whose round k makes A[<<s, k>>] of s
\* has its states: the recursive function has the values its definition gives.
Rounds(A, S, n)     == A \in [S \X (1..n) -> S]
HasRun(A, S, n, b)  == \E g \in [0..n -> S] : g[0] = b /\ \A k \in 1..n : g[k] = A[<<g[k - 1], k>>]

\* If every round gives a state again, the loop has a run.
LEMMA LoopExists ==
    ASSUME NEW n \in Nat, NEW S, NEW b \in S, NEW A, Rounds(A, S, n)
    PROVE  HasRun(A, S, n, b)
<1> USE DEF Rounds, HasRun
<1> DEFINE Is(g, m) == g[0] = b /\ \A k \in 1..m : g[k] = A[<<g[k - 1], k>>]
           R == {m \in 0..n : \E g \in [0..n -> S] : Is(g, m)}
<1>1. 0 \in R
  <2> DEFINE c == [k \in 0..n |-> b]
  <2>1. c \in [0..n -> S] /\ Is(c, 0)
    OBVIOUS
  <2>2. 0 \in 0..n
    OBVIOUS
  <2> HIDE DEF c
  <2> QED
    BY <2>1, <2>2
<1>2. ASSUME NEW m \in 1..n, m - 1 \in R PROVE m \in R
  <2>1. PICK g \in [0..n -> S] : Is(g, m - 1)
    BY <1>2
  <2> DEFINE h == [g EXCEPT ![m] = A[<<g[m - 1], m>>]]
  <2>2. m - 1 \in 0..n /\ g[m - 1] \in S /\ A[<<g[m - 1], m>>] \in S
    OBVIOUS
  <2>3. h \in [0..n -> S] /\ h[m] = A[<<g[m - 1], m>>] /\ \A k \in 0..(m - 1) : h[k] = g[k]
    BY <2>2
  <2> HIDE DEF h
  <2>4. ASSUME NEW k \in 1..m PROVE h[k] = A[<<h[k - 1], k>>]
    <3>1. k - 1 \in 0..(m - 1)
      OBVIOUS
    <3>2. CASE k = m
      BY <2>3, <3>1, <3>2
    <3>3. CASE k \in 1..(m - 1)
      BY <2>1, <2>3, <3>1, <3>3
    <3> QED
      BY <3>2, <3>3
  <2>5. h[0] = b
    BY <2>1, <2>3
  <2> QED
    BY <2>3, <2>4, <2>5
<1> HIDE DEF R
<1>3. n \in R
  BY <1>1, <1>2, LoopInduction
<1> QED
  BY <1>3 DEF R

\* The smaller and the larger of two numbers.
LEMMA OfTwo ==
    ASSUME NEW a \in Int, NEW b \in Int
    PROVE  /\ Min({a, b}) = IF a <= b THEN a ELSE b
           /\ Max({a, b}) = IF a <= b THEN b ELSE a
<1> DEFINE c == IF a <= b THEN a ELSE b
           d == IF a <= b THEN b ELSE a
<1>1. c \in {a, b} /\ \A y \in {a, b} : c =< y
  OBVIOUS
<1>2. \A x \in {a, b} : (\A y \in {a, b} : x =< y) => x = c
  OBVIOUS
<1>3. d \in {a, b} /\ \A y \in {a, b} : d >= y
  OBVIOUS
<1>4. \A x \in {a, b} : (\A y \in {a, b} : x >= y) => x = d
  OBVIOUS
<1> HIDE DEF c, d
<1>5. Min({a, b}) = c
  BY <1>1, <1>2 DEF Min
<1>6. Max({a, b}) = d
  BY <1>3, <1>4 DEF Max
<1> QED
  BY <1>5, <1>6 DEF c, d

\* A set of numbers up to n has a least and a greatest one.
LEMMA LeastGreatest ==
    ASSUME NEW n \in Nat, NEW T \in SUBSET (0..n), T # {}
    PROVE  /\ Min(T) \in T /\ \A y \in T : Min(T) <= y
           /\ Max(T) \in T /\ \A y \in T : y <= Max(T)
<1> DEFINE Bounded(U) == \E a, b \in U : \A y \in U : a <= y /\ y <= b
           S == {m \in 0..n : \A U \in SUBSET (0..m) : U # {} => Bounded(U)}
<1>1. 0 \in S
  <2>1. 0 \in 0..n /\ 0 <= 0 /\ \A U \in SUBSET (0..0) : U # {} => U = {0}
    <3>1. 0..0 = {0}
      OBVIOUS
    <3>2. 0 \in 0..n /\ 0 <= 0
      OBVIOUS
    <3>3. ASSUME NEW U \in SUBSET (0..0), U # {} PROVE U = {0}
      BY <3>1, <3>3, Zenon
    <3> QED
      BY <3>2, <3>3, Zenon
  <2> QED
    BY <2>1
<1>2. ASSUME NEW m \in 1..n, m - 1 \in S PROVE m \in S
  <2>1. ASSUME NEW U \in SUBSET (0..m), U # {} PROVE Bounded(U)
    <3>1. \A y \in 0..m : y = m \/ y \in 0..(m - 1)
      OBVIOUS
    <3>2. CASE m \notin U
      <4>1. U \in SUBSET (0..(m - 1))
        BY <3>1, <3>2
      <4> QED
        BY <1>2, <2>1, <4>1
    <3>3. CASE U = {m}
      BY <3>3
    <3>4. CASE m \in U /\ U # {m}
      <4>1. U \ {m} \in SUBSET (0..(m - 1)) /\ U \ {m} # {}
        BY <3>1, <3>4
      <4>2. PICK a, b \in U \ {m} : \A y \in U \ {m} : a <= y /\ y <= b
        BY <1>2, <4>1
      <4>3. a \in 0..(m - 1) /\ a \in U /\ m \in U
        BY <3>1, <3>4
      <4>4. \A y \in U : a <= y /\ y <= m
        BY <4>2, <4>3
      <4> QED
        BY <4>3, <4>4
    <3> QED
      BY <3>2, <3>3, <3>4
  <2> QED
    BY <2>1
<1> HIDE DEF S
<1>3. \A m \in 0..n : m \in S
  BY <1>1, <1>2, LoopInduction
<1>4. n \in 0..n
  OBVIOUS
<1>5. PICK a, b \in T : \A y \in T : a <= y /\ y <= b
  BY <1>3, <1>4 DEF S
<1>6. Min(T) \in T /\ \A y \in T : Min(T) =< y
  BY <1>5 DEF Min
<1>7. Max(T) \in T /\ \A y \in T : Max(T) >= y
  BY <1>5 DEF Max
<1>8. \A x, y \in T : x >= y <=> y <= x
  OBVIOUS
<1> QED
  BY <1>6, <1>7, <1>8

\* Whole numbers divide with a remainder.
LEMMA Division ==
    ASSUME NEW a \in Nat, NEW d \in Nat \ {0}
    PROVE  a \div d \in Nat /\ (a \div d) * d <= a /\ a < (a \div d) * d + d
OBVIOUS

\* The numbers up to n in tiles of d.
LEMMA Tiles ==
    ASSUME NEW n \in Nat, NEW d \in Nat \ {0}
    PROVE  LET count == (n + d - 1) \div d IN
           /\ count \in Nat /\ count * d >= n
           /\ \A t \in 1..count : (t - 1) * d \in Nat /\ (t - 1) * d < n /\ t * d = (t - 1) * d + d
           /\ \A k \in 1..n : \E t \in 1..count : (t - 1) * d < k /\ k <= t * d
<1> DEFINE count == (n + d - 1) \div d
<1>1. n + d - 1 \in Nat
  OBVIOUS
<1>2. count \in Nat /\ count * d <= n + d - 1 /\ n + d - 1 < count * d + d
  BY <1>1, Division
<1> HIDE DEF count
<1>3. count * d \in Nat /\ count * d >= n
  BY <1>2
<1>4. ASSUME NEW t \in 1..count
      PROVE  (t - 1) * d \in Nat /\ (t - 1) * d < n /\ t * d = (t - 1) * d + d
  <2>1. t * d <= count * d
    BY <1>2
  <2>2. (t - 1) * d \in Nat /\ t * d \in Nat /\ t * d = (t - 1) * d + d
    BY <1>2
  <2> QED
    BY <1>2, <1>3, <2>1, <2>2
<1>5. ASSUME NEW k \in 1..n
      PROVE  \E t \in 1..count : (t - 1) * d < k /\ k <= t * d
  <2> DEFINE q == (k - 1) \div d
  <2>1. q \in Nat /\ q * d <= k - 1 /\ k - 1 < q * d + d
    BY Division
  <2> HIDE DEF q
  <2>2. (q + 1) - 1 = q /\ (q + 1) * d = q * d + d /\ q * d \in Nat
    BY <2>1
  <2>3. q < count
    <3>1. SUFFICES ASSUME q >= count PROVE FALSE
      BY <1>2, <2>1
    <3>2. q * d >= count * d
      BY <1>2, <2>1, <3>1
    <3> QED
      BY <1>3, <2>1, <2>2, <3>2
  <2>4. q + 1 \in 1..count /\ q * d < k /\ k <= (q + 1) * d
    BY <1>2, <2>1, <2>2, <2>3
  <2> QED
    BY <2>2, <2>4
<1> QED
  BY <1>2, <1>3, <1>4, <1>5 DEF count

\* A sequence is a function of its places.
LEMMA Places ==
    ASSUME NEW T, NEW s \in Seq(T)
    PROVE  /\ Len(s) \in Nat /\ DOMAIN s = 1..Len(s) /\ s \in [1..Len(s) -> T]
           /\ \A j \in 1..Len(s) : s[j] \in T
OBVIOUS

\* Two sequences are the same if their elements are.
LEMMA SameElements ==
    ASSUME NEW T, NEW s \in Seq(T), NEW t \in Seq(T), Len(s) = Len(t), \A j \in 1..Len(s) : s[j] = t[j]
    PROVE  s = t
<1>1. s \in [1..Len(s) -> T] /\ t \in [1..Len(s) -> T]
  BY Places
<1> QED
  BY <1>1

\* A sequence over a set is one over a wider set.
LEMMA WiderSequence ==
    ASSUME NEW S, NEW T, S \subseteq T, NEW s \in Seq(S)
    PROVE  s \in Seq(T)
<1>1. s \in [1..Len(s) -> S] /\ Len(s) \in Nat
  BY Places
<1>2. s \in [1..Len(s) -> T]
  BY <1>1
<1> QED
  BY <1>1, <1>2

\* A slice of a sequence.
LEMMA Slice ==
    ASSUME NEW T, NEW s \in Seq(T), NEW a \in Nat \ {0}, NEW b \in 0..Len(s)
    PROVE  LET t == SubSeq(s, a, b) l == IF a <= b THEN b - a + 1 ELSE 0 IN
           /\ t \in Seq(T) /\ Len(t) = l /\ l \in Nat
           /\ \A j \in 1..l : t[j] = s[a + j - 1]
OBVIOUS

\* A sequence cut in two makes it again.
LEMMA CutInTwo ==
    ASSUME NEW T, NEW s \in Seq(T), NEW h \in 0..Len(s)
    PROVE  LET l == SubSeq(s, 1, h) r == SubSeq(s, h + 1, Len(s)) IN
           /\ l \in Seq(T) /\ r \in Seq(T) /\ Len(l) = h /\ Len(r) = Len(s) - h
           /\ l \o r = s /\ ToSet(l) \cup ToSet(r) = ToSet(s)
<1> DEFINE n == Len(s)
           l == SubSeq(s, 1, h)
           r == SubSeq(s, h + 1, n)
           u == l \o r
<1>1. n \in Nat /\ h \in 0..n /\ DOMAIN s = 1..n /\ \A j \in 1..n : s[j] \in T
  OBVIOUS
<1>3. /\ l \in Seq(T) /\ Len(l) = h /\ DOMAIN l = 1..h /\ \A j \in 1..h : l[j] = s[j]
  BY <1>1
<1>4. /\ r \in Seq(T) /\ Len(r) = n - h /\ DOMAIN r = 1..(n - h) /\ \A j \in 1..(n - h) : r[j] = s[h + j]
  <2>1. h + 1 \in 1..(n + 1) /\ n \in 0..n /\ n - (h + 1) + 1 = n - h
    BY <1>1
  <2>2. r \in Seq(T) /\ Len(r) = n - h /\ \A j \in 1..(n - h) : r[j] = s[(h + 1) + j - 1]
    <3>1. h + 1 \in Nat \ {0} /\ n \in 0..Len(s)
      BY <1>1
    <3> HIDE DEF n
    <3>2. (IF h + 1 <= n THEN n - (h + 1) + 1 ELSE 0) = n - h
      <4>1. CASE h + 1 <= n
        BY <1>1, <4>1
      <4>2. CASE ~(h + 1 <= n)
        BY <1>1, <4>2
      <4> QED
        BY <4>1, <4>2
    <3> QED
      BY <3>1, <3>2, Slice
  <2>3. \A j \in 1..(n - h) : (h + 1) + j - 1 = h + j
    BY <1>1
  <2> HIDE DEF r
  <2> QED
    BY <2>2, <2>3, Places
<1> HIDE DEF l, r
<1>5. /\ u \in Seq(T) /\ Len(u) = Len(l) + Len(r)
      /\ \A j \in 1..Len(l) : u[j] = l[j]
      /\ \A j \in 1..Len(r) : u[Len(l) + j] = r[j]
  BY <1>3, <1>4
<1> HIDE DEF u, n
<1>6. \A j \in 1..n : j \in 1..h \/ (j - h \in 1..(n - h) /\ h + (j - h) = j)
  BY <1>1
<1>7. u = s
  <2>1. Len(u) = n
    BY <1>1, <1>3, <1>4, <1>5
  <2>2. ASSUME NEW j \in 1..n PROVE u[j] = s[j]
    <3>1. CASE j \in 1..h
      BY <1>3, <1>5, <3>1
    <3>2. CASE j - h \in 1..(n - h) /\ h + (j - h) = j
      BY <1>3, <1>4, <1>5, <3>2
    <3> QED
      BY <1>6, <3>1, <3>2
  <2> QED
    BY <1>5, <2>1, <2>2, SameElements DEF n
<1>8. ToSet(l) \cup ToSet(r) \subseteq ToSet(s)
  <2>1. \A j \in 1..h : j \in 1..n
    BY <1>1
  <2>2. \A j \in 1..(n - h) : h + j \in 1..n
    BY <1>1
  <2>3. ToSet(l) \subseteq ToSet(s)
    BY <1>1, <1>3, <2>1 DEF ToSet
  <2>4. ToSet(r) \subseteq ToSet(s)
    BY <1>1, <1>4, <2>2 DEF ToSet
  <2> QED
    BY <2>3, <2>4
<1>9. ToSet(s) \subseteq ToSet(l) \cup ToSet(r)
  <2> SUFFICES ASSUME NEW j \in 1..n PROVE s[j] \in ToSet(l) \cup ToSet(r)
    BY <1>1 DEF ToSet
  <2>1. CASE j \in 1..h
    BY <1>3, <2>1 DEF ToSet
  <2>2. CASE j - h \in 1..(n - h) /\ h + (j - h) = j
    BY <1>4, <2>2 DEF ToSet
  <2> QED
    BY <1>6, <2>1, <2>2
<1> QED
  BY <1>3, <1>4, <1>7, <1>8, <1>9 DEF u, l, r, n

\* One more element.
LEMMA Appended ==
    ASSUME NEW T, NEW s \in Seq(T), NEW x \in T
    PROVE  /\ Append(s, x) \in Seq(T) /\ Len(Append(s, x)) = Len(s) + 1
           /\ Append(s, x)[Len(s) + 1] = x /\ \A j \in 1..Len(s) : Append(s, x)[j] = s[j]
OBVIOUS

----------------------------------------------------------------------------
(* The data filter.                                                         *)

\* Without a rule the user has the other rules of his roles.
LEMMA WithoutRule ==
    ASSUME NEW q \in Questions, NEW d
    PROVE  /\ RulesFor(Without(q, d)) = RulesFor(q) \ {d}
           /\ Open(Without(q, d)) <=> Open(q)
           /\ Without(q, d).rule = q.rule
<1> DEFINE w == Without(q, d)
<1>1. q \in [superuser : BOOLEAN, roles : [FilterRole -> RoleForms], rule : [DataRule -> RuleForms]]
  BY DEF Questions
<1>2. w.superuser = q.superuser /\ w.rule = q.rule
  BY <1>1 DEF Without
<1>3. \A r \in FilterRole : w.roles[r] = [q.roles[r] EXCEPT !.rules = @ \ {d}]
  BY <1>1 DEF Without
<1>4. \A r \in FilterRole : q.roles[r] \in [status : BOOLEAN, filters : BOOLEAN, rules : SUBSET DataRule]
  BY <1>1 DEF RoleForms
<1> HIDE DEF w
<1>5. \A r \in FilterRole : /\ w.roles[r].status = q.roles[r].status
                            /\ w.roles[r].filters = q.roles[r].filters
                            /\ w.roles[r].rules = q.roles[r].rules \ {d}
  BY <1>3, <1>4
<1>6. RulesFor(w) = RulesFor(q) \ {d}
  BY <1>5 DEF RulesFor
<1>7. Open(w) <=> Open(q)
  BY <1>2, <1>5 DEF Open
<1> QED
  BY <1>2, <1>6, <1>7 DEF w

\* What a question draws from is typed; FilterInv follows for each of them.
LEMMA FilterSafe ==
    ASSUME asked \in {NoFilter} \cup Questions
    PROVE  FilterInv
<1> SUFFICES ASSUME asked # NoFilter, asked \in Questions PROVE OrRulesWiden /\ AndRulesNarrow
  BY DEF FilterInv, OrRulesWiden, AndRulesNarrow
<1>1. OrRulesWiden
  <2> SUFFICES ASSUME NEW d \in Joined(asked, RulesFor(asked), "OR"),
                      Restricted(Without(asked, d)) # {}, Visible(Without(asked, d))
               PROVE  Visible(asked)
    BY DEF OrRulesWiden
  <2> QED
    BY WithoutRule DEF Visible, Restricted, Combine, Joined, HoldsFor
<1>2. AndRulesNarrow
  <2> SUFFICES ASSUME NEW d \in Joined(asked, RulesFor(asked), "AND"),
                      Joined(Without(asked, d), RulesFor(Without(asked, d)), "AND") # {}, Visible(asked)
               PROVE  Visible(Without(asked, d))
    BY DEF AndRulesNarrow
  <2> QED
    BY WithoutRule DEF Visible, Combine, Joined, HoldsFor
<1> QED
  BY <1>1, <1>2

----------------------------------------------------------------------------
(* Sections.                                                                *)

Line    == {"h1", "h2", "h3", "page", "text"}
Section == [path : Seq(Nat), lines : Seq(Nat)]
Reading == [sections : Seq(Section), path : Seq(Nat), lines : Seq(Nat)]

\* The level of a line, and which lines are marks.
LEMMA LineLevel ==
    ASSUME NEW line \in Line
    PROVE  Level(line) \in 0..3 /\ (Marks(line) <=> Level(line) > 0)
BY DEF Line, Level, Marks

\* A mark at line i keeps the headings above its level.
LEMMA PathCut ==
    ASSUME NEW path \in Seq(Nat), NEW line \in Line, Marks(line), NEW i \in Nat
    PROVE  LET kept == IF Level(line) - 1 <= Len(path) THEN Level(line) - 1 ELSE Len(path)
               new  == HeadingPath(path, line, i)
           IN  /\ new \in Seq(Nat) /\ Len(new) = kept + 1 /\ new[kept + 1] = i
               /\ \A m \in 1..kept : new[m] = path[m]
<1> DEFINE kept == IF Level(line) - 1 <= Len(path) THEN Level(line) - 1 ELSE Len(path)
<1>1. Level(line) \in 1..3
  BY LineLevel
<1>2. Min({Level(line) - 1, Len(path)}) = kept /\ kept \in 0..Len(path)
  BY <1>1, OfTwo
<1>3. HeadingPath(path, line, i) = Append(SubSeq(path, 1, kept), i)
  BY <1>2 DEF HeadingPath
<1> HIDE DEF kept
<1>4. SubSeq(path, 1, kept) \in Seq(Nat) /\ Len(SubSeq(path, 1, kept)) = kept
  BY <1>2
<1>5. \A m \in 1..kept : SubSeq(path, 1, kept)[m] = path[m]
  BY <1>2
<1>6. Append(SubSeq(path, 1, kept), i) \in Seq(Nat)
  BY <1>4
<1> QED
  BY <1>2, <1>3, <1>4, <1>5, <1>6 DEF kept

\* The sections with the open one.
LEMMA ClosedTyped ==
    ASSUME NEW acc \in Reading
    PROVE  /\ ClosedSections(acc) \in Seq(Section)
           /\ [path |-> acc.path, lines |-> acc.lines] \in Section
<1> DEFINE open == [path |-> acc.path, lines |-> acc.lines]
<1>1. open \in Section
  BY DEF Reading, Section
<1>2. acc.sections \in Seq(Section)
  BY DEF Reading
<1> HIDE DEF open
<1>3. Append(acc.sections, open) \in Seq(Section)
  BY <1>1, <1>2
<1> QED
  BY <1>1, <1>2, <1>3 DEF ClosedSections, open

\* A line makes a state of the loop of one.
LEMMA LineTyped ==
    ASSUME NEW acc \in Reading, NEW line \in Line, NEW i \in Nat
    PROVE  AddLine(acc, line, i) \in Reading
<1>1. CASE Marks(line)
  <2>1. HeadingPath(acc.path, line, i) \in Seq(Nat)
    BY <1>1, PathCut DEF Reading
  <2>2. <<i>> \in Seq(Nat)
    OBVIOUS
  <2> QED
    BY <1>1, <2>1, <2>2, ClosedTyped DEF AddLine, Reading
<1>2. CASE ~Marks(line)
  <2>1. Append(acc.lines, i) \in Seq(Nat)
    BY DEF Reading
  <2> QED
    BY <1>2, <2>1 DEF AddLine, Reading
<1> QED
  BY <1>1, <1>2

\* The states of the loop over the lines of a text.
LEMMA SectionLoop ==
    ASSUME NEW text \in Seq(Line)
    PROVE  \E g \in [0..Len(text) -> Reading] :
               /\ g[0] = NoSections
               /\ \A k \in 1..Len(text) : g[k] = AddLine(g[k - 1], text[k], k)
               /\ SplitSections(text) = ClosedSections(g[Len(text)])
<1> DEFINE n == Len(text)
           A == [t \in Reading \X (1..n) |-> AddLine(t[1], text[t[2]], t[2])]
           F(g) == [k \in 0..n |-> IF k = 0 THEN NoSections ELSE AddLine(g[k - 1], text[k], k)]
           acc == CHOOSE g : g = F(g)
<1>1. n \in Nat /\ \A k \in 1..n : text[k] \in Line /\ k \in Nat
  OBVIOUS
<1>2. Rounds(A, Reading, n)
  BY <1>1, LineTyped DEF Rounds
<1>3. NoSections \in Reading
  BY DEF NoSections, Reading
<1>4. \A s \in Reading, k \in 1..n : A[<<s, k>>] = AddLine(s, text[k], k)
  OBVIOUS
<1> HIDE DEF A, n
<1>a. HasRun(A, Reading, n, NoSections)
  BY <1>1, <1>2, <1>3, LoopExists
<1>5. PICK g \in [0..n -> Reading] : g[0] = NoSections /\ \A k \in 1..n : g[k] = A[<<g[k - 1], k>>]
  BY <1>a DEF HasRun
<1>6. ASSUME NEW k \in 0..n
      PROVE  g[k] = IF k = 0 THEN NoSections ELSE AddLine(g[k - 1], text[k], k)
  <2>1. CASE k = 0
    BY <1>5, <2>1
  <2>2. CASE k # 0
    <3>1. k \in 1..n /\ k - 1 \in 0..n
      BY <1>1, <2>2
    <3>2. A[<<g[k - 1], k>>] = AddLine(g[k - 1], text[k], k)
      BY <1>4, <3>1
    <3> QED
      BY <1>5, <2>2, <3>2
  <2> QED
    BY <2>1, <2>2
<1>7. g = F(g)
  BY <1>6
<1>8. acc = F(acc)
  BY <1>7
<1>9. SplitSections(text) = ClosedSections(acc[n])
  BY DEF SplitSections, n
<1> DEFINE S == {k \in 0..n : acc[k] = g[k]}
<1> HIDE DEF acc
<1>10. \A k \in 0..n : k \in S
  <2>1. 0 \in S
    BY <1>1, <1>6, <1>8
  <2>2. \A k \in 1..n : k - 1 \in S => k \in S
    BY <1>1, <1>6, <1>8
  <2> HIDE DEF S
  <2> QED
    BY <1>1, <2>1, <2>2, LoopInduction
<1>11. acc[n] = g[n]
  BY <1>1, <1>10
<1> QED
  BY <1>1, <1>6, <1>9, <1>11 DEF n

\* One more section, of the lines that follow.
LEMMA CoversMore ==
    ASSUME NEW secs \in Seq(Section), NEW m \in Nat, Covers(secs, m),
           NEW sec \in Section, NEW n \in Nat, n > m, sec.lines = [k \in 1..(n - m) |-> m + k]
    PROVE  Covers(Append(secs, sec), n)
<1> DEFINE new == Append(secs, sec)
           l == Len(secs)
<1>1. /\ l \in Nat /\ Len(new) = l + 1 /\ new[l + 1] = sec /\ \A i \in 1..l : new[i] = secs[i]
      /\ DOMAIN new = 1..(l + 1) /\ DOMAIN secs = 1..l /\ new # <<>>
  <2>1. l \in Nat /\ DOMAIN secs = 1..l
    BY Places
  <2>2. new \in Seq(Section) /\ Len(new) = l + 1 /\ new[l + 1] = sec /\ \A i \in 1..l : new[i] = secs[i]
    BY Appended
  <2> HIDE DEF new, l
  <2>3. DOMAIN new = 1..(l + 1) /\ new # <<>>
    BY <2>1, <2>2, Places
  <2> QED
    BY <2>1, <2>2, <2>3
<1>2. sec.lines # <<>> /\ Head(sec.lines) = m + 1
  <2>1. sec.lines \in Seq(Nat)
    BY DEF Section
  <2>2. 1 \in 1..(n - m) /\ DOMAIN sec.lines = 1..(n - m) /\ sec.lines[1] = m + 1
    OBVIOUS
  <2>3. sec.lines # <<>>
    BY <2>2
  <2> QED
    BY <2>1, <2>2, <2>3
<1> HIDE DEF new
<1>3. \A i \in 1..l : From(new, i) = From(secs, i)
  BY <1>1 DEF From
<1>4. From(new, l + 1) = m + 1 /\ Until(new, n, l + 1) = n
  BY <1>1, <1>2 DEF From, Until
<1>5. \A i \in 1..l : Until(new, n, i) = Until(secs, m, i)
  <2>1. ASSUME NEW i \in 1..l, i = l PROVE Until(new, n, i) = Until(secs, m, i)
    <3>1. Until(new, n, i) = From(new, l + 1) - 1
      <4> HIDE DEF l
      <4>1. i # Len(new) /\ i + 1 = l + 1
        BY <1>1, <2>1
      <4> QED
        BY <4>1 DEF Until
    <3>2. Until(secs, m, i) = m
      BY <2>1 DEF Until
    <3> QED
      BY <1>4, <3>1, <3>2
  <2>2. ASSUME NEW i \in 1..l, i # l PROVE Until(new, n, i) = Until(secs, m, i)
    <3>1. i + 1 \in 1..l
      BY <1>1, <2>2
    <3> HIDE DEF l
    <3>2. Until(new, n, i) = From(new, i + 1) - 1
      BY <1>1, <2>2 DEF Until
    <3>3. Until(secs, m, i) = From(secs, i + 1) - 1
      BY <2>2 DEF Until, l
    <3> QED
      BY <1>3, <3>1, <3>2, <3>3
  <2> QED
    BY <2>1, <2>2
<1>6. From(new, 1) = 1
  <2>1. CASE l = 0
    BY <1>4, <2>1 DEF Covers
  <2>2. CASE l > 0
    BY <1>3, <2>2 DEF Covers
  <2> QED
    BY <1>1, <2>1, <2>2
<1>7. ASSUME NEW i \in 1..(l + 1)
      PROVE  /\ new[i].lines # <<>>
             /\ new[i].lines = [k \in 1..(Until(new, n, i) - From(new, i) + 1) |-> From(new, i) + k - 1]
  <2>1. CASE i = l + 1
    <3>1. Until(new, n, i) - From(new, i) + 1 = n - m
      BY <1>4, <2>1
    <3>2. \A k \in 1..(n - m) : From(new, i) + k - 1 = m + k
      BY <1>4, <2>1
    <3>3. new[i].lines = [k \in 1..(n - m) |-> m + k]
      BY <1>1, <2>1
    <3>4. new[i].lines # <<>>
      BY <1>1, <1>2, <2>1
    <3> QED
      BY <3>1, <3>2, <3>3, <3>4
  <2>2. CASE i \in 1..l
    BY <1>1, <1>3, <1>5, <2>2 DEF Covers
  <2> QED
    BY <2>1, <2>2
<1> QED
  BY <1>1, <1>6, <1>7 DEF Covers, new

\* The heading of a section is its first line.
Heads(sec) == sec.path # <<>> => Last(sec.path) = Head(sec.lines)

\* The loop after line i: the open section holds the last lines, the closed ones
\* those before them.
LinesRead(acc, i) ==
    LET m == i - Len(acc.lines) IN
    /\ m \in Nat /\ (i > 0 => acc.lines # <<>>)
    /\ Covers(acc.sections, m)
    /\ acc.lines = [k \in 1..Len(acc.lines) |-> m + k]
    /\ acc.path # <<>> => acc.lines # <<>> /\ Last(acc.path) = Head(acc.lines)
    /\ \A s \in DOMAIN acc.sections : Heads(acc.sections[s])

\* The sections with the open one cover the lines that were read.
LEMMA ClosedCovers ==
    ASSUME NEW acc \in Reading, NEW i \in Nat, LinesRead(acc, i)
    PROVE  /\ Covers(ClosedSections(acc), i)
           /\ \A s \in DOMAIN ClosedSections(acc) : Heads(ClosedSections(acc)[s])
<1> DEFINE m == i - Len(acc.lines)
           open == [path |-> acc.path, lines |-> acc.lines]
<1>1. acc.sections \in Seq(Section) /\ acc.lines \in Seq(Nat) /\ open \in Section
  BY ClosedTyped DEF Reading
<1>2. CASE acc.lines = <<>>
  <2>1. m = i
    BY <1>2
  <2> QED
    BY <1>2, <2>1 DEF ClosedSections, LinesRead
<1>3. CASE acc.lines # <<>>
  <2>1. i - m = Len(acc.lines) /\ Len(acc.lines) > 0 /\ m \in Nat /\ i > m
    BY <1>1, <1>3 DEF LinesRead
  <2>2. open.lines = [k \in 1..(i - m) |-> m + k]
    BY <2>1 DEF LinesRead
  <2>3. Covers(acc.sections, m)
    BY DEF LinesRead
  <2>4. Heads(open)
    BY DEF Heads, LinesRead
  <2> HIDE DEF m, open
  <2>5. Covers(Append(acc.sections, open), i)
    BY <1>1, <2>1, <2>2, <2>3, CoversMore
  <2>6. \A s \in DOMAIN Append(acc.sections, open) : Heads(Append(acc.sections, open)[s])
    <3>1. \A s \in DOMAIN Append(acc.sections, open) :
              Append(acc.sections, open)[s] \in {open} \cup {acc.sections[r] : r \in DOMAIN acc.sections}
      BY <1>1
    <3> QED
      BY <2>4, <3>1 DEF LinesRead
  <2>7. ClosedSections(acc) = Append(acc.sections, open)
    BY <1>3 DEF ClosedSections, open
  <2> QED
    BY <2>5, <2>6, <2>7
<1> QED
  BY <1>2, <1>3

\* A further line is read.
LEMMA LineRead ==
    ASSUME NEW acc \in Reading, NEW line \in Line, NEW i \in Nat \ {0}, LinesRead(acc, i - 1)
    PROVE  LinesRead(AddLine(acc, line, i), i)
<1> DEFINE new == AddLine(acc, line, i)
           j == i - 1
<1>1. j \in Nat /\ acc.lines \in Seq(Nat) /\ acc.path \in Seq(Nat) /\ acc.sections \in Seq(Section)
  BY DEF Reading
<1>2. CASE Marks(line)
  <2>1. /\ new.sections = ClosedSections(acc) /\ new.lines = <<i>>
        /\ new.path = HeadingPath(acc.path, line, i)
    BY <1>2 DEF AddLine
  <2>2. Last(new.path) = i
    <3> DEFINE kept == IF Level(line) - 1 <= Len(acc.path) THEN Level(line) - 1 ELSE Len(acc.path)
    <3> DEFINE path == HeadingPath(acc.path, line, i)
    <3>1. Len(path) = kept + 1 /\ path[kept + 1] = i
      BY <1>1, <1>2, PathCut, ZenonT(60)
    <3>2. new.path = path
      BY <2>1
    <3> HIDE DEF new, path
    <3> QED
      BY <3>1, <3>2 DEF Last
  <2>3. Len(<<i>>) = 1 /\ <<i>> # <<>> /\ Head(<<i>>) = i /\ <<i>> = [k \in 1..1 |-> (i - 1) + k]
    OBVIOUS
  <2>4. /\ Covers(ClosedSections(acc), i - 1)
        /\ \A s \in DOMAIN ClosedSections(acc) : Heads(ClosedSections(acc)[s])
    BY <1>1, ClosedCovers
  <2> QED
    BY <1>1, <2>1, <2>2, <2>3, <2>4 DEF LinesRead
<1>3. CASE ~Marks(line)
  <2>1. new.sections = acc.sections /\ new.lines = Append(acc.lines, i) /\ new.path = acc.path
    BY <1>3 DEF AddLine, Reading
  <2> DEFINE l == Len(acc.lines)
  <2> HIDE DEF new
  <2>2. /\ l \in Nat /\ Len(new.lines) = l + 1 /\ new.lines # <<>> /\ i - Len(new.lines) = j - l
        /\ new.lines[l + 1] = i /\ \A k \in 1..l : new.lines[k] = acc.lines[k]
        /\ new.lines \in Seq(Nat) /\ DOMAIN new.lines = 1..(l + 1)
    <3>1. /\ Append(acc.lines, i) \in Seq(Nat) /\ Len(Append(acc.lines, i)) = l + 1 /\ l \in Nat
          /\ Append(acc.lines, i)[l + 1] = i /\ \A k \in 1..l : Append(acc.lines, i)[k] = acc.lines[k]
          /\ DOMAIN Append(acc.lines, i) = 1..(l + 1)
      BY <1>1
    <3>3. Append(acc.lines, i) # <<>>
      <4> DEFINE z == Append(acc.lines, i)
      <4>1. Len(z) # 0
        BY <3>1
      <4> HIDE DEF z
      <4>2. z # <<>>
        BY <4>1
      <4> QED
        BY <4>2 DEF z
    <3>2. i - (l + 1) = j - l
      BY <3>1
    <3> QED
      BY <2>1, <3>1, <3>2, <3>3
  <2>3. \A k \in 1..l : acc.lines[k] = (j - l) + k
    BY DEF LinesRead
  <2>4. new.lines = [k \in 1..(l + 1) |-> (j - l) + k]
    <3> HIDE DEF l
    <3>1. \A k \in 1..(l + 1) : new.lines[k] = (j - l) + k
      BY <2>2, <2>3
    <3> QED
      BY <2>2, <3>1
  <2>5. acc.lines # <<>> => Head(new.lines) = Head(acc.lines)
    BY <1>1, <2>2
  <2> QED
    <3>1. i - Len(new.lines) \in Nat /\ new.lines # <<>> /\ Covers(new.sections, i - Len(new.lines))
      BY <2>1, <2>2 DEF LinesRead
    <3>2. new.lines = [k \in 1..Len(new.lines) |-> (i - Len(new.lines)) + k]
      BY <2>2, <2>4
    <3>3. new.path # <<>> => Last(new.path) = Head(new.lines)
      BY <2>1, <2>5 DEF LinesRead
    <3>4. \A s \in DOMAIN new.sections : Heads(new.sections[s])
      BY <2>1 DEF LinesRead
    <3> HIDE DEF j, l
    <3>5. LinesRead(new, i)
      BY <3>1, <3>2, <3>3, <3>4 DEF LinesRead
    <3> QED
      BY <3>5 DEF new
<1> QED
  BY <1>2, <1>3

\* Every line of a text is in one section of it, in order.
LEMMA TextCovered ==
    ASSUME NEW text \in Seq(Line)
    PROVE  /\ SplitSections(text) \in Seq(Section)
           /\ Covers(SplitSections(text), Len(text))
           /\ \A s \in DOMAIN SplitSections(text) : Heads(SplitSections(text)[s])
<1> DEFINE n == Len(text)
<1>1. n \in Nat /\ \A k \in 1..n : text[k] \in Line
  OBVIOUS
<1>2. PICK g \in [0..n -> Reading] :
          /\ g[0] = NoSections
          /\ \A k \in 1..n : g[k] = AddLine(g[k - 1], text[k], k)
          /\ SplitSections(text) = ClosedSections(g[n])
  BY SectionLoop
<1> HIDE DEF n
<1> DEFINE S == {k \in 0..n : LinesRead(g[k], k)}
<1>3. 0 \in S
  BY <1>1, <1>2 DEF LinesRead, NoSections, Covers
<1>4. ASSUME NEW k \in 1..n, k - 1 \in S PROVE k \in S
  <2>1. g[k - 1] \in Reading /\ LinesRead(g[k - 1], k - 1) /\ k \in Nat \ {0} /\ k \in 0..n
    BY <1>1, <1>4
  <2> QED
    BY <1>1, <1>2, <2>1, LineRead
<1> HIDE DEF S
<1>a. \A k \in 0..n : k \in S
  BY <1>1, <1>3, <1>4, LoopInduction
<1>5. n \in S
  BY <1>1, <1>a
<1>6. LinesRead(g[n], n) /\ g[n] \in Reading
  BY <1>1, <1>5 DEF S
<1> QED
  BY <1>1, <1>2, <1>6, ClosedCovers, ClosedTyped DEF n

\* No level is skipped on the way down to a mark.
NoSkips(text) ==
    \A i \in DOMAIN text :
        Marks(text[i]) => {Level(text[j]) : j \in Enclosing(text, i)} = 1..Level(text[i])

\* The path lists the marks that enclose line i by their level.
Headed(text, path, i) ==
    /\ path \in Seq(Nat)
    /\ \A m \in 1..Len(path) : path[m] \in Enclosing(text, i) /\ Level(text[path[m]]) = m
    /\ \A j \in Enclosing(text, i) : Level(text[j]) \in 1..Len(path) /\ path[Level(text[j])] = j

\* What encloses line i encloses the line before, or is line i.
LEMMA EnclosingNext ==
    ASSUME NEW text \in Seq(Line), NEW i \in 1..Len(text)
    PROVE  Enclosing(text, i) =
               IF Marks(text[i]) THEN {j \in Enclosing(text, i - 1) : Level(text[j]) < Level(text[i])} \cup {i}
               ELSE Enclosing(text, i - 1)
<1>1. \A j \in 1..i : text[j] \in Line /\ Level(text[j]) \in 0..3
  BY LineLevel
<1>2. \A j \in 1..i : j = i \/ j \in 1..(i - 1)
  OBVIOUS
<1>3. \A j \in 1..(i - 1) : j \in 1..i /\ (j + 1)..i = ((j + 1)..(i - 1)) \cup {i}
  OBVIOUS
<1>4. (i + 1)..i = {} /\ i \in 1..i
  OBVIOUS
<1>5. ASSUME NEW j
      PROVE  j \in Enclosing(text, i) <=>
                 \/ j = i /\ Marks(text[i])
                 \/ /\ j \in 1..(i - 1) /\ Marks(text[j])
                    /\ \A k \in (j + 1)..(i - 1) : Marks(text[k]) => Level(text[k]) > Level(text[j])
                    /\ Marks(text[i]) => Level(text[i]) > Level(text[j])
  <2>1. CASE j = i
    BY <1>4, <2>1 DEF Enclosing
  <2>2. CASE j \in 1..(i - 1)
    BY <1>3, <2>2 DEF Enclosing
  <2>3. CASE j \notin 1..i
    BY <1>3, <1>4, <2>3 DEF Enclosing
  <2> QED
    BY <1>2, <2>1, <2>2, <2>3
<1>6. \A j : j \in Enclosing(text, i - 1) <=>
                 /\ j \in 1..(i - 1) /\ Marks(text[j])
                 /\ \A k \in (j + 1)..(i - 1) : Marks(text[k]) => Level(text[k]) > Level(text[j])
  BY DEF Enclosing
<1>7. \A j \in 1..(i - 1) : Level(text[i]) > Level(text[j]) <=> Level(text[j]) < Level(text[i])
  BY <1>1, <1>3, <1>4
<1> QED
  BY <1>5, <1>6, <1>7

\* A mark goes on with the part of the path that encloses it.
LEMMA MarkHeaded ==
    ASSUME NEW text \in Seq(Line), NoSkips(text), NEW i \in 1..Len(text), Marks(text[i]),
           NEW path, Headed(text, path, i - 1)
    PROVE  Headed(text, HeadingPath(path, text[i], i), i)
<1> DEFINE L == Level(text[i])
           new == HeadingPath(path, text[i], i)
<1>1. text[i] \in Line /\ i \in Nat /\ L \in 1..3 /\ path \in Seq(Nat) /\ Len(path) \in Nat
  BY LineLevel DEF Headed
<1>2. Enclosing(text, i) = {j \in Enclosing(text, i - 1) : Level(text[j]) < L} \cup {i}
  BY EnclosingNext
<1>3. \A l \in 1..(L - 1) : l \in 1..Len(path)
  <2> TAKE l \in 1..(L - 1)
  <2>a. {Level(text[j]) : j \in Enclosing(text, i)} = 1..L
    BY DEF NoSkips
  <2>b. l \in 1..L
    BY <1>1
  <2>1. PICK j \in Enclosing(text, i) : Level(text[j]) = l
    BY <2>a, <2>b
  <2>2. j \in Enclosing(text, i - 1)
    BY <1>1, <1>2, <2>1
  <2> QED
    BY <2>1, <2>2 DEF Headed
<1>4. L - 1 <= Len(path)
  <2>1. CASE L = 1
    BY <1>1, <2>1
  <2>2. CASE L > 1
    <3>1. L - 1 \in 1..(L - 1)
      BY <1>1, <2>2
    <3> QED
      BY <1>1, <1>3, <3>1
  <2> QED
    BY <1>1, <2>1, <2>2
<1>5. new \in Seq(Nat) /\ Len(new) = (L - 1) + 1 /\ new[(L - 1) + 1] = i /\ \A m \in 1..(L - 1) : new[m] = path[m]
  BY <1>1, <1>4, PathCut
<1>6. Len(new) = L /\ new[L] = i
  BY <1>1, <1>5
<1> HIDE DEF new
<1>7. ASSUME NEW m \in 1..Len(new) PROVE new[m] \in Enclosing(text, i) /\ Level(text[new[m]]) = m
  <2>1. CASE m = L
    BY <1>2, <1>6, <2>1
  <2>2. CASE m \in 1..(L - 1)
    <3>1. m \in 1..Len(path) /\ new[m] = path[m] /\ m < L
      BY <1>1, <1>3, <1>5, <2>2
    <3> QED
      BY <1>2, <3>1 DEF Headed
  <2> QED
    BY <1>1, <1>6, <2>1, <2>2
<1>8. ASSUME NEW j \in Enclosing(text, i)
      PROVE  Level(text[j]) \in 1..Len(new) /\ new[Level(text[j])] = j
  <2>1. CASE j = i
    BY <1>1, <1>6, <2>1
  <2>2. CASE j # i
    <3>1. j \in Enclosing(text, i - 1) /\ Level(text[j]) < L
      BY <1>2, <2>2
    <3>2. Level(text[j]) \in 1..Len(path) /\ path[Level(text[j])] = j
      BY <3>1 DEF Headed
    <3>3. Level(text[j]) \in 1..(L - 1)
      BY <1>1, <3>1, <3>2
    <3> QED
      BY <1>1, <1>5, <1>6, <3>2, <3>3
  <2> QED
    BY <2>1, <2>2
<1>9. Headed(text, new, i)
  BY <1>5, <1>7, <1>8 DEF Headed
<1> QED
  BY <1>9 DEF new

\* What a path lists encloses the line.
LEMMA HeadedSet ==
    ASSUME NEW text, NEW path, NEW i, Headed(text, path, i)
    PROVE  ToSet(path) = Enclosing(text, i)
<1>1. DOMAIN path = 1..Len(path)
  BY DEF Headed
<1> QED
  BY <1>1 DEF Headed, ToSet

\* The path of a section is what encloses its first line.
Enclosed(text, sec) == ToSet(sec.path) = Enclosing(text, Head(sec.lines))

\* The loop after line i, where no level is skipped.
PathRead(text, acc, i) ==
    /\ Headed(text, acc.path, i)
    /\ acc.lines = <<>> => i = 0
    /\ acc.lines # <<>> => ToSet(acc.path) = Enclosing(text, Head(acc.lines))
    /\ \A s \in DOMAIN acc.sections : Enclosed(text, acc.sections[s])

\* The open section is no exception.
LEMMA ClosedEnclosed ==
    ASSUME NEW text, NEW acc \in Reading, NEW i, PathRead(text, acc, i)
    PROVE  \A s \in DOMAIN ClosedSections(acc) : Enclosed(text, ClosedSections(acc)[s])
<1> DEFINE open == [path |-> acc.path, lines |-> acc.lines]
<1>1. acc.sections \in Seq(Section) /\ open \in Section
  BY ClosedTyped DEF Reading
<1>2. CASE acc.lines = <<>>
  BY <1>2 DEF ClosedSections, PathRead
<1>3. CASE acc.lines # <<>>
  <2>1. Enclosed(text, open)
    BY <1>3 DEF Enclosed, PathRead
  <2>2. ClosedSections(acc) = Append(acc.sections, open)
    BY <1>3 DEF ClosedSections
  <2> HIDE DEF open
  <2>3. \A s \in DOMAIN Append(acc.sections, open) :
            Append(acc.sections, open)[s] \in {open} \cup {acc.sections[r] : r \in DOMAIN acc.sections}
    BY <1>1
  <2> QED
    BY <2>1, <2>2, <2>3 DEF PathRead
<1> QED
  BY <1>2, <1>3

\* A further line is read, and no level is skipped.
LEMMA PathLineRead ==
    ASSUME NEW text \in Seq(Line), NoSkips(text), NEW i \in 1..Len(text),
           NEW acc \in Reading, PathRead(text, acc, i - 1)
    PROVE  PathRead(text, AddLine(acc, text[i], i), i)
<1> DEFINE new == AddLine(acc, text[i], i)
<1>1. /\ acc.lines \in Seq(Nat) /\ acc.path \in Seq(Nat) /\ acc.sections \in Seq(Section)
      /\ text[i] \in Line /\ i \in Nat /\ i > 0
  BY DEF Reading
<1>2. CASE Marks(text[i])
  <2>1. /\ new.sections = ClosedSections(acc) /\ new.lines = <<i>>
        /\ new.path = HeadingPath(acc.path, text[i], i)
    BY <1>2 DEF AddLine
  <2>2. Headed(text, new.path, i)
    BY <1>2, <2>1, MarkHeaded DEF PathRead
  <2>3. Head(<<i>>) = i /\ <<i>> # <<>>
    OBVIOUS
  <2>4. \A s \in DOMAIN ClosedSections(acc) : Enclosed(text, ClosedSections(acc)[s])
    BY ClosedEnclosed
  <2> HIDE DEF new
  <2>5. PathRead(text, new, i)
    BY <2>1, <2>2, <2>3, <2>4, HeadedSet DEF PathRead
  <2> QED
    BY <2>5 DEF new
<1>3. CASE ~Marks(text[i])
  <2>1. new.sections = acc.sections /\ new.lines = Append(acc.lines, i) /\ new.path = acc.path
    BY <1>3 DEF AddLine, Reading
  <2>2. Enclosing(text, i) = Enclosing(text, i - 1)
    BY <1>3, EnclosingNext
  <2>3. Headed(text, new.path, i)
    BY <2>1, <2>2 DEF Headed, PathRead
  <2>4. new.lines # <<>> /\ Head(new.lines) = IF acc.lines = <<>> THEN i ELSE Head(acc.lines)
    <3> DEFINE lines == Append(acc.lines, i)
    <3>1. /\ Len(lines) = Len(acc.lines) + 1 /\ Len(acc.lines) \in Nat /\ lines \in Seq(Nat)
          /\ lines[Len(acc.lines) + 1] = i /\ \A k \in 1..Len(acc.lines) : lines[k] = acc.lines[k]
      BY <1>1
    <3> HIDE DEF lines
    <3>2. Len(lines) # 0
      BY <3>1
    <3>3. lines # <<>> /\ Head(lines) = lines[1]
      BY <3>1, <3>2
    <3>4. Head(lines) = IF acc.lines = <<>> THEN i ELSE Head(acc.lines)
      BY <1>1, <3>1, <3>3
    <3>5. new.lines = lines
      BY <2>1 DEF lines
    <3> QED
      BY <3>3, <3>4, <3>5
  <2> HIDE DEF new
  <2>5. ToSet(new.path) = Enclosing(text, Head(new.lines))
    <3>1. CASE acc.lines = <<>>
      BY <2>3, <2>4, <3>1, HeadedSet
    <3>2. CASE acc.lines # <<>>
      BY <2>1, <2>4, <3>2 DEF PathRead
    <3> QED
      BY <3>1, <3>2
  <2>6. PathRead(text, new, i)
    BY <2>1, <2>3, <2>4, <2>5 DEF PathRead
  <2> QED
    BY <2>6 DEF new
<1> QED
  BY <1>2, <1>3

\* Where no level is skipped, the paths are the marks that enclose.
THEOREM TextEnclosed ==
    ASSUME NEW text \in Seq(Line), NoSkips(text)
    PROVE  \A s \in DOMAIN SplitSections(text) : Enclosed(text, SplitSections(text)[s])
<1> DEFINE n == Len(text)
<1>1. n \in Nat /\ \A k \in 1..n : text[k] \in Line
  OBVIOUS
<1>2. PICK g \in [0..n -> Reading] :
          /\ g[0] = NoSections
          /\ \A k \in 1..n : g[k] = AddLine(g[k - 1], text[k], k)
          /\ SplitSections(text) = ClosedSections(g[n])
  BY SectionLoop
<1>a. \A k \in 1..n : k \in 1..Len(text)
  OBVIOUS
<1> HIDE DEF n
<1> DEFINE S == {k \in 0..n : PathRead(text, g[k], k)}
<1>3. 0 \in S
  <2>1. Enclosing(text, 0) = {}
    BY DEF Enclosing
  <2>2. Headed(text, <<>>, 0)
    BY <2>1 DEF Headed
  <2> QED
    BY <1>1, <1>2, <2>2 DEF PathRead, NoSections
<1>4. ASSUME NEW k \in 1..n, k - 1 \in S PROVE k \in S
  <2>1. g[k - 1] \in Reading /\ PathRead(text, g[k - 1], k - 1) /\ k \in 0..n
    BY <1>1, <1>4
  <2> QED
    BY <1>a, <1>1, <1>2, <2>1, PathLineRead
<1> HIDE DEF S
<1>5. \A k \in 0..n : k \in S
  BY <1>1, <1>3, <1>4, LoopInduction
<1>6. PathRead(text, g[n], n) /\ g[n] \in Reading
  BY <1>1, <1>5 DEF S
<1> QED
  BY <1>2, <1>6, ClosedEnclosed

\* The texts that are cut are made of lines.
LEMMA SectionsSafe ==
    ASSUME input \in Lines
    PROVE  LinesKept /\ PathsEnclose
<1>1. input.text \in Seq(Line)
  BY DEF Lines, Line, BoundedSeq, SeqOf
<1>2. LinesKept
  BY <1>1, TextCovered DEF LinesKept, Sections, Heads
<1>3. PathsEnclose
  BY <1>1, TextEnclosed DEF PathsEnclose, NoSkips, Sections, Enclosed
<1> QED
  BY <1>2, <1>3

----------------------------------------------------------------------------
(* Chunks.                                                                  *)

Blank     == <<0, 0>>
Character == Nat \X Nat
Piece     == Seq(Character)

\* A character follows another one of its paragraph.
Follows(a, b) == b[1] = a[1] /\ b[2] = a[2] + 1
Consecutive(s) == \A j \in 1..(Len(s) - 1) : Blank \in {s[j], s[j + 1]} \/ Follows(s[j], s[j + 1])

\* A slice of a piece is a piece.
LEMMA SlicePiece ==
    ASSUME NEW s \in Piece, Consecutive(s), NEW a \in Nat \ {0}, NEW b \in 0..Len(s)
    PROVE  LET t == SubSeq(s, a, b) l == IF a <= b THEN b - a + 1 ELSE 0 IN
           /\ t \in Piece /\ Consecutive(t) /\ Len(t) = l
           /\ \A j \in 1..l : t[j] = s[a + j - 1]
<1> DEFINE t == SubSeq(s, a, b)
           l == IF a <= b THEN b - a + 1 ELSE 0
<1>1. t \in Piece /\ Len(t) = l /\ l \in Nat
  BY DEF Piece
<1>2. \A j \in 1..l : t[j] = s[a + j - 1]
  BY DEF Piece
<1>3. Consecutive(t)
  <2> SUFFICES ASSUME NEW j \in 1..(l - 1)
               PROVE  Blank \in {t[j], t[j + 1]} \/ Follows(t[j], t[j + 1])
    BY <1>1 DEF Consecutive
  <2>1. j \in 1..l /\ j + 1 \in 1..l /\ a + j - 1 \in 1..(Len(s) - 1) /\ a + (j + 1) - 1 = (a + j - 1) + 1
    OBVIOUS
  <2>2. t[j] = s[a + j - 1] /\ t[j + 1] = s[(a + j - 1) + 1]
    BY <1>2, <2>1
  <2> QED
    BY <2>1, <2>2 DEF Consecutive
<1> QED
  BY <1>1, <1>2, <1>3

\* What strip() takes from the ends of a piece is blank.
LEMMA StripPiece ==
    ASSUME NEW s \in Piece, Consecutive(s)
    PROVE  /\ Strip(s) \in Piece /\ Consecutive(Strip(s)) /\ Len(Strip(s)) <= Len(s)
           /\ ToSet(s) \ {Blank} \subseteq ToSet(Strip(s))
<1> DEFINE solid == {i \in DOMAIN s : s[i] # Blank}
           n == Len(s)
<1>1. n \in Nat /\ DOMAIN s = 1..n /\ solid \in SUBSET (1..n)
  BY DEF Piece
<1>2. CASE solid = {}
  <2>1. Strip(s) = <<>>
    BY <1>2 DEF Strip, Blank
  <2>2. ToSet(s) \ {Blank} = {}
    BY <1>2 DEF ToSet
  <2>3. <<>> \in Piece /\ Len(<<>>) = 0 /\ Consecutive(<<>>)
    BY DEF Piece, Consecutive
  <2> QED
    BY <1>1, <2>1, <2>2, <2>3
<1>3. CASE solid # {}
  <2> DEFINE a == Min(solid)
             b == Max(solid)
             t == SubSeq(s, a, b)
  <2>1. a \in solid /\ b \in solid /\ \A i \in solid : a <= i /\ i <= b
    <3> HIDE DEF solid
    <3>1. solid \in SUBSET (0..Len(s)) /\ Len(s) \in Nat
      BY <1>1
    <3> QED
      BY <1>3, <3>1, LeastGreatest
  <2>2. Strip(s) = t
    BY <1>3 DEF Strip, Blank
  <2> HIDE DEF a, b
  <2>3. a \in Nat \ {0} /\ b \in 0..n /\ a <= b
    BY <1>1, <2>1
  <2>4. t \in Piece /\ Consecutive(t) /\ Len(t) = b - a + 1 /\ \A j \in 1..(b - a + 1) : t[j] = s[a + j - 1]
    BY <2>3, SlicePiece
  <2>5. ASSUME NEW i \in solid PROVE s[i] \in ToSet(t)
    <3>1. i - a + 1 \in 1..(b - a + 1) /\ a + (i - a + 1) - 1 = i
      BY <1>1, <2>1, <2>3
    <3>2. t[i - a + 1] = s[i] /\ i - a + 1 \in DOMAIN t
      BY <2>4, <3>1 DEF Piece
    <3> QED
      BY <3>2 DEF ToSet
  <2>6. ToSet(s) \ {Blank} \subseteq ToSet(t)
    BY <2>5 DEF ToSet
  <2>7. Len(t) <= n
    BY <1>1, <2>3, <2>4
  <2> QED
    BY <2>2, <2>4, <2>6, <2>7
<1> QED
  BY <1>2, <1>3

\* Two pieces, one after the other.
LEMMA Concatenation ==
    ASSUME NEW s \in Piece, NEW t \in Piece
    PROVE  /\ s \o t \in Piece /\ Len(s \o t) = Len(s) + Len(t) /\ Len(s) \in Nat /\ Len(t) \in Nat
           /\ \A j \in 1..Len(s) : (s \o t)[j] = s[j]
           /\ \A j \in 1..Len(t) : (s \o t)[Len(s) + j] = t[j]
BY DEF Piece

\* Two pieces joined by blanks are one.
LEMMA JoinPieces ==
    ASSUME NEW s \in Piece, Consecutive(s), NEW t \in Piece, Consecutive(t)
    PROVE  LET u == s \o NewLines \o t IN
           /\ u \in Piece /\ Consecutive(u) /\ Len(u) = Len(s) + 2 + Len(t)
           /\ ToSet(s) \cup ToSet(t) \subseteq ToSet(u)
<1> DEFINE u == s \o NewLines \o t
           m == Len(s)
           n == Len(t)
<1>1. NewLines \in Piece /\ Len(NewLines) = 2 /\ NewLines[1] = Blank /\ NewLines[2] = Blank
  BY DEF NewLines, Piece, Blank, Character
<1> DEFINE v == s \o NewLines
<1>2. /\ v \in Piece /\ Len(v) = m + 2 /\ m \in Nat /\ n \in Nat
      /\ v[m + 1] = Blank /\ v[m + 2] = Blank /\ \A j \in 1..m : v[j] = s[j]
  <2>1. /\ v \in Piece /\ Len(v) = Len(s) + Len(NewLines) /\ Len(s) \in Nat
        /\ \A j \in 1..Len(s) : v[j] = s[j]
        /\ \A j \in 1..Len(NewLines) : v[Len(s) + j] = NewLines[j]
    BY <1>1, Concatenation
  <2>2. n \in Nat
    BY DEF Piece
  <2> HIDE DEF v
  <2> QED
    BY <1>1, <2>1, <2>2
<1> HIDE DEF v
<1>3. /\ u \in Piece /\ Len(u) = m + 2 + n
      /\ \A j \in 1..(m + 2) : u[j] = v[j]
      /\ \A j \in 1..n : u[m + 2 + j] = t[j]
  <2>1. u = v \o t
    BY DEF v
  <2>2. /\ v \o t \in Piece /\ Len(v \o t) = Len(v) + Len(t)
        /\ \A j \in 1..Len(v) : (v \o t)[j] = v[j]
        /\ \A j \in 1..Len(t) : (v \o t)[Len(v) + j] = t[j]
    BY <1>2, Concatenation
  <2> HIDE DEF u
  <2> QED
    BY <1>2, <2>1, <2>2
<1>4. \A j \in 1..m : u[j] = s[j]
  BY <1>2, <1>3
<1>5. u[m + 1] = Blank /\ u[m + 2] = Blank
  BY <1>2, <1>3
<1>6. \A j \in 1..n : u[m + 2 + j] = t[j]
  BY <1>3
<1>7. DOMAIN u = 1..(m + 2 + n) /\ DOMAIN s = 1..m /\ DOMAIN t = 1..n
  BY <1>3 DEF Piece
<1> HIDE DEF u, m, n
<1>8. Consecutive(u)
  <2> SUFFICES ASSUME NEW j \in 1..(m + 2 + n - 1)
               PROVE  Blank \in {u[j], u[j + 1]} \/ Follows(u[j], u[j + 1])
    BY <1>2, <1>3 DEF Consecutive
  <2>1. CASE j \in 1..(m - 1)
    <3>1. j \in 1..m /\ j + 1 \in 1..m
      BY <1>2, <2>1
    <3> QED
      BY <1>4, <2>1, <3>1 DEF Consecutive, m
  <2>2. CASE j \in {m, m + 1, m + 2}
    BY <1>2, <1>5, <2>2
  <2>3. CASE j > m + 2
    <3> DEFINE k == j - (m + 2)
    <3>1. k \in 1..n /\ k + 1 \in 1..n /\ k \in 1..(n - 1) /\ m + 2 + k = j /\ m + 2 + (k + 1) = j + 1
      BY <1>2, <2>3
    <3>2. u[j] = t[k] /\ u[j + 1] = t[k + 1]
      BY <1>6, <3>1
    <3> QED
      BY <3>1, <3>2 DEF Consecutive, n
  <2> QED
    BY <1>2, <2>1, <2>2, <2>3
<1>9. ToSet(s) \subseteq ToSet(u)
  BY <1>2, <1>4, <1>7 DEF ToSet
<1>10. ToSet(t) \subseteq ToSet(u)
  <2>1. \A j \in 1..n : m + 2 + j \in 1..(m + 2 + n)
    BY <1>2
  <2> QED
    BY <1>6, <1>7, <2>1 DEF ToSet
<1> QED
  BY <1>3, <1>8, <1>9, <1>10 DEF u, m, n

\* A paragraph is a piece.
LEMMA ParagraphPiece ==
    ASSUME NEW i \in Nat, NEW n \in Nat
    PROVE  /\ Paragraph(i, n) \in Piece /\ Consecutive(Paragraph(i, n)) /\ Len(Paragraph(i, n)) = n
           /\ ToSet(Paragraph(i, n)) = {<<i, k>> : k \in 1..n}
<1> DEFINE p == Paragraph(i, n)
<1>1. p = [k \in 1..n |-> <<i, k>>] /\ \A k \in 1..n : <<i, k>> \in Character
  BY DEF Paragraph, Character
<1>2. p \in Piece /\ Len(p) = n /\ DOMAIN p = 1..n /\ \A k \in 1..n : p[k] = <<i, k>>
  BY <1>1 DEF Piece
<1> HIDE DEF p
<1>3. Consecutive(p)
  <2> SUFFICES ASSUME NEW j \in 1..(n - 1) PROVE Follows(p[j], p[j + 1])
    BY <1>2 DEF Consecutive
  <2>1. j \in 1..n /\ j + 1 \in 1..n
    OBVIOUS
  <2> QED
    BY <1>2, <2>1 DEF Follows
<1>4. ToSet(p) = {<<i, k>> : k \in 1..n}
  BY <1>2 DEF ToSet
<1> QED
  BY <1>2, <1>3, <1>4 DEF p

\* The end of a piece is one, of n characters at most.
LEMMA EndsPiece ==
    ASSUME NEW s \in Piece, Consecutive(s), NEW n \in Nat
    PROVE  Ends(s, n) \in Piece /\ Consecutive(Ends(s, n)) /\ Len(Ends(s, n)) <= n
<1>1. Len(s) \in Nat /\ Len(s) \in 0..Len(s)
  BY DEF Piece
<1>2. CASE n < Len(s)
  <2>1. Ends(s, n) = SubSeq(s, Len(s) - n + 1, Len(s)) /\ Len(s) - n + 1 \in Nat \ {0}
    BY <1>1, <1>2 DEF Ends
  <2>2. Len(SubSeq(s, Len(s) - n + 1, Len(s))) <= n
    BY <1>1, <1>2, <2>1, SlicePiece
  <2> QED
    BY <1>1, <2>1, <2>2, SlicePiece
<1>3. CASE ~(n < Len(s))
  <2>1. Ends(s, n) = SubSeq(s, 1, Len(s)) /\ 1 \in Nat \ {0}
    BY <1>3 DEF Ends
  <2>2. Len(SubSeq(s, 1, Len(s))) <= n
    BY <1>1, <1>3, SlicePiece
  <2> QED
    BY <1>1, <2>1, <2>2, SlicePiece
<1> QED
  BY <1>2, <1>3

\* The slices of a piece hold all of it.
LEMMA SlicesPieces ==
    ASSUME NEW p \in Piece, Consecutive(p), NEW size \in Nat \ {0}, NEW overlap \in Nat
    PROVE  LET slices == Slices(p, size, overlap) IN
           /\ slices \in Seq(Piece)
           /\ \A c \in DOMAIN slices : Consecutive(slices[c]) /\ Len(slices[c]) <= size
           /\ \A x \in ToSet(p) : \E c \in DOMAIN slices : x \in ToSet(slices[c])
<1> DEFINE step == Max({size - overlap, 1})
           n == Len(p)
           count == (n + step - 1) \div step
           last(c) == IF (c - 1) * step + size <= n THEN (c - 1) * step + size ELSE n
           slices == Slices(p, size, overlap)
<1>1. n \in Nat /\ DOMAIN p = 1..n
  BY DEF Piece
<1>2. step \in Nat \ {0} /\ step <= size
  <2>1. size - overlap \in Int /\ 1 \in Int
    OBVIOUS
  <2>2. step = IF size - overlap <= 1 THEN 1 ELSE size - overlap
    BY <2>1, OfTwo
  <2> HIDE DEF step
  <2> QED
    BY <2>2
<1>3. slices = [c \in 1..count |-> SubSeq(p, (c - 1) * step + 1, Min({(c - 1) * step + size, n}))]
  BY DEF Slices
<1> HIDE DEF step
<1>4. /\ count \in Nat
      /\ \A t \in 1..count : (t - 1) * step \in Nat /\ (t - 1) * step < n /\ t * step = (t - 1) * step + step
      /\ \A k \in 1..n : \E t \in 1..count : (t - 1) * step < k /\ k <= t * step
  BY <1>1, <1>2, Tiles
<1> HIDE DEF n, count, slices
<1>5. ASSUME NEW c \in 1..count
      PROVE  /\ slices[c] \in Piece /\ Consecutive(slices[c]) /\ Len(slices[c]) <= size
             /\ \A k \in 1..n : (c - 1) * step < k /\ k <= c * step => p[k] \in ToSet(slices[c])
  <2> DEFINE a == (c - 1) * step
  <2>1. a \in Nat /\ a < n /\ c * step = a + step
    BY <1>4
  <2> HIDE DEF a
  <2> DEFINE b == IF a + size <= n THEN a + size ELSE n
  <2>2. Min({a + size, n}) = b
    BY <1>1, <2>1, OfTwo
  <2>3. slices[c] = SubSeq(p, a + 1, b)
    BY <1>3, <2>2 DEF a
  <2>4. a + 1 \in Nat \ {0} /\ b \in 0..n /\ a + 1 <= b /\ b - (a + 1) + 1 = b - a /\ b - a <= size
    BY <1>1, <2>1
  <2> HIDE DEF b
  <2>5. /\ slices[c] \in Piece /\ Consecutive(slices[c]) /\ Len(slices[c]) = b - a
        /\ \A j \in 1..(b - a) : slices[c][j] = p[a + 1 + j - 1]
    BY <2>3, <2>4, SlicePiece DEF n
  <2>6. ASSUME NEW k \in 1..n, a < k, k <= c * step PROVE p[k] \in ToSet(slices[c])
    <3>1. k <= b
      BY <1>1, <1>2, <2>1, <2>6 DEF b
    <3>2. k - a \in 1..(b - a) /\ a + 1 + (k - a) - 1 = k
      BY <1>1, <2>1, <2>4, <2>6, <3>1
    <3>3. slices[c][k - a] = p[k] /\ k - a \in DOMAIN slices[c]
      BY <2>5, <3>2 DEF Piece
    <3> QED
      BY <3>3 DEF ToSet
  <2> QED
    BY <2>4, <2>5, <2>6 DEF a
<1>6. slices \in Seq(Piece) /\ DOMAIN slices = 1..count
  <2>1. DOMAIN slices = 1..count /\ slices = [c \in 1..count |-> slices[c]]
    BY <1>3
  <2> QED
    BY <1>4, <1>5, <2>1
<1>7. \A x \in ToSet(p) : \E c \in DOMAIN slices : x \in ToSet(slices[c])
  <2> TAKE x \in ToSet(p)
  <2>1. PICK k \in 1..n : x = p[k]
    BY <1>1 DEF ToSet
  <2>2. PICK t \in 1..count : (t - 1) * step < k /\ k <= t * step
    BY <1>4
  <2> QED
    BY <1>5, <1>6, <2>1, <2>2
<1> QED
  BY <1>5, <1>6, <1>7 DEF slices

Packing == [chunks : Seq(Piece), current : Piece]

\* The pieces of a state of the loop.
PiecesOf(acc) == ToSet(acc.chunks) \cup {acc.current}

\* No longer than a chunk may be: the size of a chunk, and an overlap before it.
LongestChunk(size, overlap) == size + IF overlap = 0 THEN 0 ELSE overlap + 2

\* The states of the loop over the paragraphs.
Packings(size, overlap) ==
    {acc \in Packing : \A s \in PiecesOf(acc) : Consecutive(s) /\ Len(s) <= LongestChunk(size, overlap)}

\* What stays of the characters of a state acc in a state new.
Keeps(acc, new) == \A s \in PiecesOf(acc) : \A x \in ToSet(s) \ {Blank} : \E t \in PiecesOf(new) : x \in ToSet(t)

\* What two sequences of pieces hold is what the one after the other holds.
LEMMA ConcatSet ==
    ASSUME NEW s \in Seq(Piece), NEW t \in Seq(Piece)
    PROVE  s \o t \in Seq(Piece) /\ ToSet(s \o t) = ToSet(s) \cup ToSet(t)
<1> DEFINE u == s \o t
           m == Len(s)
           n == Len(t)
<1>1. m \in Nat /\ n \in Nat /\ DOMAIN s = 1..m /\ DOMAIN t = 1..n
  OBVIOUS
<1>2. u \in Seq(Piece) /\ DOMAIN u = 1..(m + n) /\ \A c \in 1..m : u[c] = s[c]
  OBVIOUS
<1>3. \A c \in 1..n : u[m + c] = t[c]
  OBVIOUS
<1> HIDE DEF u, m, n
<1>4. ASSUME NEW c \in 1..(m + n) PROVE u[c] \in ToSet(s) \cup ToSet(t)
  <2>1. CASE c <= m
    BY <1>1, <1>2, <2>1 DEF ToSet
  <2>2. CASE c > m
    <3>1. c - m \in 1..n /\ m + (c - m) = c
      BY <1>1, <2>2
    <3> QED
      BY <1>1, <1>3, <3>1 DEF ToSet
  <2> QED
    BY <1>1, <2>1, <2>2
<1>5. \A c \in 1..m : s[c] \in ToSet(u)
  BY <1>1, <1>2 DEF ToSet
<1>6. \A c \in 1..n : t[c] \in ToSet(u)
  <2>1. \A c \in 1..n : m + c \in 1..(m + n)
    BY <1>1
  <2> QED
    BY <1>2, <1>3, <2>1 DEF ToSet
<1>7. ToSet(u) = ToSet(s) \cup ToSet(t)
  BY <1>1, <1>2, <1>4, <1>5, <1>6 DEF ToSet
<1> QED
  BY <1>2, <1>7 DEF u

\* One more piece.
LEMMA AppendSet ==
    ASSUME NEW s \in Seq(Piece), NEW t \in Piece
    PROVE  Append(s, t) \in Seq(Piece) /\ ToSet(Append(s, t)) = ToSet(s) \cup {t}
<1> DEFINE u == Append(s, t)
           m == Len(s)
<1>1. m \in Nat /\ DOMAIN s = 1..m
  OBVIOUS
<1>2. u \in Seq(Piece) /\ DOMAIN u = 1..(m + 1) /\ u[m + 1] = t /\ \A c \in 1..m : u[c] = s[c]
  OBVIOUS
<1> HIDE DEF u, m
<1>3. \A c \in 1..(m + 1) : c = m + 1 \/ c \in 1..m
  BY <1>1
<1>4. m + 1 \in 1..(m + 1) /\ \A c \in 1..m : c \in 1..(m + 1)
  BY <1>1
<1>5. ToSet(u) = ToSet(s) \cup {t}
  BY <1>1, <1>2, <1>3, <1>4 DEF ToSet
<1> QED
  BY <1>2, <1>5 DEF u

\* The chunks with the open one: an empty one is left out.
LEMMA ClosedPieces ==
    ASSUME NEW acc \in Packing
    PROVE  /\ ClosedChunks(acc) \in Seq(Piece)
           /\ ToSet(ClosedChunks(acc)) \subseteq PiecesOf(acc)
           /\ PiecesOf(acc) \subseteq ToSet(ClosedChunks(acc)) \cup {<<>>}
<1> DEFINE more == IF acc.current = <<>> THEN <<>> ELSE <<acc.current>>
<1>1. acc.chunks \in Seq(Piece) /\ acc.current \in Piece
  BY DEF Packing
<1>2. more \in Seq(Piece) /\ ToSet(more) = IF acc.current = <<>> THEN {} ELSE {acc.current}
  BY <1>1 DEF ToSet
<1>3. ClosedChunks(acc) = acc.chunks \o more
  BY DEF ClosedChunks
<1> HIDE DEF more
<1> QED
  BY <1>1, <1>2, <1>3, ConcatSet DEF PiecesOf

\* A further paragraph is packed, and nothing lost.
LEMMA ParagraphPacked ==
    ASSUME NEW i \in Nat \ {0}, NEW length \in Nat, NEW size \in Nat \ {0}, NEW overlap \in Nat,
           NEW acc \in Packings(size, overlap)
    PROVE  LET new == AddParagraph(acc, Paragraph(i, length), size, overlap) IN
           /\ new \in Packings(size, overlap) /\ Keeps(acc, new)
           /\ \A k \in 1..length : \E s \in PiecesOf(new) : <<i, k>> \in ToSet(s)
<1> DEFINE p == Paragraph(i, length)
           new == AddParagraph(acc, p, size, overlap)
           long == LongestChunk(size, overlap)
           joined == Strip(acc.current \o NewLines \o p)
           Good(s) == Consecutive(s) /\ Len(s) <= long
           Packed == /\ new \in Packings(size, overlap) /\ Keeps(acc, new)
                     /\ \A k \in 1..length : \E s \in PiecesOf(new) : <<i, k>> \in ToSet(s)
<1>2. p \in Piece /\ Consecutive(p) /\ ToSet(p) = {<<i, k>> : k \in 1..length} /\ Len(p) \in Nat
  BY ParagraphPiece DEF Piece
<1>3. long \in Nat /\ size <= long /\ (overlap # 0 => overlap + 2 + size = long)
  BY DEF LongestChunk
<1>4. /\ acc \in Packing /\ acc.chunks \in Seq(Piece) /\ acc.current \in Piece
      /\ \A s \in PiecesOf(acc) : Good(s)
  BY DEF Packing, Packings
<1>5. Blank \notin ToSet(p)
  BY <1>2 DEF Blank
<1>a. \A k \in 1..length : <<i, k>> \in ToSet(p)
  BY <1>2
<1> HIDE DEF p, long, joined
<1>6. ASSUME new \in Packing, \A s \in PiecesOf(new) : Good(s),
             \A s \in PiecesOf(acc) : \A x \in ToSet(s) \ {Blank} : \E t \in PiecesOf(new) : x \in ToSet(t),
             \A x \in ToSet(p) : \E t \in PiecesOf(new) : x \in ToSet(t)
      PROVE  Packed
  <2> HIDE DEF new
  <2>1. new \in Packings(size, overlap)
    BY <1>6 DEF Packings, long
  <2>2. Keeps(acc, new)
    BY <1>6 DEF Keeps
  <2>3. \A k \in 1..length : \E s \in PiecesOf(new) : <<i, k>> \in ToSet(s)
    BY <1>6, <1>a
  <2> QED
    BY <2>1, <2>2, <2>3
<1> HIDE DEF Packed
<1>7. ASSUME NEW s \in Seq(Piece), NEW c \in Piece
      PROVE  /\ [chunks |-> s, current |-> c] \in Packing
             /\ PiecesOf([chunks |-> s, current |-> c]) = ToSet(s) \cup {c}
  BY DEF Packing, PiecesOf
<1>8. ASSUME Len(p) > size PROVE Packed
  <2> DEFINE slices == Slices(p, size, overlap)
             all == ClosedChunks(acc) \o slices
  <2>1. new = [chunks |-> all, current |-> <<>>]
    BY <1>8 DEF AddParagraph
  <2>2. /\ slices \in Seq(Piece)
        /\ \A c \in DOMAIN slices : Consecutive(slices[c]) /\ Len(slices[c]) <= size
        /\ \A x \in ToSet(p) : \E c \in DOMAIN slices : x \in ToSet(slices[c])
    BY <1>2, SlicesPieces
  <2> HIDE DEF slices
  <2>3. \A c \in DOMAIN slices : Len(slices[c]) \in Nat
    BY <2>2 DEF Piece
  <2>a. \A c \in DOMAIN slices : Good(slices[c]) /\ slices[c] \in ToSet(slices)
    BY <1>3, <2>2, <2>3 DEF ToSet
  <2>4. /\ \A s \in ToSet(slices) : Good(s)
        /\ \A x \in ToSet(p) : \E s \in ToSet(slices) : x \in ToSet(s)
    <3>1. \A s \in ToSet(slices) : \E c \in DOMAIN slices : s = slices[c]
      BY DEF ToSet
    <3> QED
      BY <2>2, <2>a, <3>1
  <2>b. ClosedChunks(acc) \in Seq(Piece)
    BY <1>4, ClosedPieces
  <2>5. all \in Seq(Piece) /\ ToSet(all) = ToSet(ClosedChunks(acc)) \cup ToSet(slices)
    BY <2>2, <2>b, ConcatSet
  <2>6. <<>> \in Piece /\ Good(<<>>) /\ ToSet(<<>>) = {}
    BY <1>3 DEF Piece, Consecutive, ToSet
  <2> HIDE DEF all
  <2>7. new \in Packing /\ PiecesOf(new) = ToSet(ClosedChunks(acc)) \cup ToSet(slices) \cup {<<>>}
    BY <1>7, <2>1, <2>5, <2>6
  <2> HIDE DEF new
  <2>8. \A s \in PiecesOf(new) : Good(s)
    BY <1>4, <2>4, <2>6, <2>7, ClosedPieces
  <2>9. \A s \in PiecesOf(acc) : s \in PiecesOf(new)
    BY <1>4, <2>7, ClosedPieces
  <2> QED
    BY <1>6, <2>4, <2>7, <2>8, <2>9
<1>9. /\ joined \in Piece /\ Consecutive(joined)
      /\ ToSet(acc.current) \ {Blank} \subseteq ToSet(joined) /\ ToSet(p) \subseteq ToSet(joined)
  <2> DEFINE u == acc.current \o NewLines \o p
  <2>1. u \in Piece /\ Consecutive(u) /\ ToSet(acc.current) \cup ToSet(p) \subseteq ToSet(u)
    BY <1>2, <1>4, JoinPieces DEF PiecesOf
  <2> HIDE DEF u
  <2>2. Strip(u) \in Piece /\ Consecutive(Strip(u)) /\ ToSet(u) \ {Blank} \subseteq ToSet(Strip(u))
    BY <2>1, StripPiece
  <2>3. joined = Strip(u)
    BY DEF joined, u
  <2> QED
    BY <1>5, <2>1, <2>2, <2>3
<1>10. ASSUME ~(Len(p) > size) /\ Len(joined) <= size PROVE Packed
  <2>1. new = [chunks |-> acc.chunks, current |-> joined]
    BY <1>4, <1>10 DEF AddParagraph, joined, Packing
  <2>2. new \in Packing /\ PiecesOf(new) = ToSet(acc.chunks) \cup {joined}
    BY <1>4, <1>7, <1>9, <2>1
  <2> HIDE DEF new
  <2>3. Len(joined) \in Nat
    BY <1>9 DEF Piece
  <2>4. \A s \in PiecesOf(new) : Good(s)
    BY <1>3, <1>4, <1>9, <1>10, <2>2, <2>3 DEF PiecesOf
  <2>5. \A s \in PiecesOf(acc) : \A x \in ToSet(s) \ {Blank} : \E t \in PiecesOf(new) : x \in ToSet(t)
    BY <1>9, <2>2 DEF PiecesOf
  <2> QED
    BY <1>6, <1>9, <2>2, <2>4, <2>5
<1>11. ASSUME ~(Len(p) > size) /\ ~(Len(joined) <= size) PROVE Packed
  <2> DEFINE end == Ends(acc.current, overlap)
             open == IF overlap = 0 THEN p ELSE Strip(end \o NewLines \o p)
             all == Append(acc.chunks, acc.current)
  <2>1. new = [chunks |-> all, current |-> open]
    BY <1>11 DEF AddParagraph, joined
  <2>2. open \in Piece /\ Good(open) /\ ToSet(p) \subseteq ToSet(open)
    <3>1. CASE overlap = 0
      BY <1>2, <1>3, <1>11, <3>1
    <3>2. CASE overlap # 0
      <4> DEFINE u == end \o NewLines \o p
      <4>1. end \in Piece /\ Consecutive(end) /\ Len(end) <= overlap
        BY <1>4, EndsPiece DEF PiecesOf
      <4> HIDE DEF end
      <4>2. u \in Piece /\ Consecutive(u) /\ Len(u) = Len(end) + 2 + Len(p) /\ ToSet(p) \subseteq ToSet(u)
        BY <1>2, <4>1, JoinPieces
      <4> HIDE DEF u
      <4>3. /\ Strip(u) \in Piece /\ Consecutive(Strip(u)) /\ Len(Strip(u)) <= Len(u)
            /\ ToSet(u) \ {Blank} \subseteq ToSet(Strip(u))
        BY <4>2, StripPiece
      <4>4. Len(end) \in Nat /\ Len(Strip(u)) \in Nat
        BY <4>1, <4>3 DEF Piece
      <4>5. Len(Strip(u)) <= long
        BY <1>2, <1>3, <1>11, <3>2, <4>1, <4>2, <4>3, <4>4
      <4>6. open = Strip(u)
        BY <3>2 DEF u
      <4> HIDE DEF open
      <4> QED
        BY <1>5, <4>2, <4>3, <4>5, <4>6
    <3> QED
      BY <3>1, <3>2
  <2> HIDE DEF open
  <2>3. all \in Seq(Piece) /\ ToSet(all) = ToSet(acc.chunks) \cup {acc.current}
    BY <1>4, AppendSet
  <2> HIDE DEF all
  <2>4. new \in Packing /\ PiecesOf(new) = PiecesOf(acc) \cup {open}
    BY <1>7, <2>1, <2>2, <2>3 DEF PiecesOf
  <2> HIDE DEF new
  <2>5. \A s \in PiecesOf(new) : Good(s)
    BY <1>4, <2>2, <2>4
  <2> QED
    BY <1>6, <2>2, <2>4, <2>5
<1> QED
  <2>1. Packed
    BY <1>8, <1>10, <1>11
  <2> QED
    BY <2>1 DEF Packed, p

\* The run of the loop over the paragraphs.
LEMMA PackingLoop ==
    ASSUME NEW lengths \in Seq(Nat), NEW size \in Nat \ {0}, NEW overlap \in Nat
    PROVE  \E g \in [0..Len(lengths) -> Packings(size, overlap)] :
               /\ g[0] = NoChunks
               /\ \A k \in 1..Len(lengths) : g[k] = AddParagraph(g[k - 1], Paragraph(k, lengths[k]), size, overlap)
               /\ SplitText(lengths, size, overlap) = ClosedChunks(g[Len(lengths)])
<1> DEFINE n == Len(lengths)
           P == Packings(size, overlap)
           Step(s, k) == AddParagraph(s, Paragraph(k, lengths[k]), size, overlap)
           A == [t \in P \X (1..n) |-> Step(t[1], t[2])]
           F(g) == [k \in 0..n |-> IF k = 0 THEN NoChunks ELSE Step(g[k - 1], k)]
           acc == CHOOSE g : g = F(g)
<1>1. n \in Nat /\ \A k \in 1..n : lengths[k] \in Nat /\ k \in Nat \ {0}
  OBVIOUS
<1>2. \A s \in P, k \in 1..n : Step(s, k) \in P
  BY <1>1, ParagraphPacked
<1>3. NoChunks \in P
  <2>1. NoChunks \in Packing /\ PiecesOf(NoChunks) = {<<>>}
    BY DEF NoChunks, Packing, Piece, PiecesOf, ToSet
  <2>2. Len(<<>>) = 0 /\ Consecutive(<<>>) /\ LongestChunk(size, overlap) \in Nat
    BY DEF Consecutive, LongestChunk
  <2> QED
    BY <2>1, <2>2 DEF Packings
<1>9. SplitText(lengths, size, overlap) = ClosedChunks(acc[n])
  BY DEF SplitText
<1> HIDE DEF P, n, Step
<1>4. Rounds(A, P, n) /\ \A s \in P, k \in 1..n : A[<<s, k>>] = Step(s, k)
  BY <1>2 DEF Rounds
<1> HIDE DEF A
<1>a. HasRun(A, P, n, NoChunks)
  BY <1>1, <1>3, <1>4, LoopExists
<1>5. PICK g \in [0..n -> P] : g[0] = NoChunks /\ \A k \in 1..n : g[k] = A[<<g[k - 1], k>>]
  BY <1>a DEF HasRun
<1>6. ASSUME NEW k \in 1..n PROVE g[k] = Step(g[k - 1], k)
  <2>1. k - 1 \in 0..n
    BY <1>1
  <2> QED
    BY <1>4, <1>5, <2>1
<1>7. g = F(g)
  <2>1. \A k \in 0..n : k = 0 \/ k \in 1..n
    BY <1>1
  <2> QED
    BY <1>5, <1>6, <2>1
<1>8. acc = F(acc)
  BY <1>7
<1> DEFINE S == {k \in 0..n : acc[k] = g[k]}
<1> HIDE DEF acc
<1>10. \A k \in 0..n : k \in S
  <2>1. 0 \in S
    BY <1>1, <1>5, <1>8
  <2>2. \A k \in 1..n : k - 1 \in S => k \in S
    BY <1>1, <1>6, <1>8
  <2> HIDE DEF S
  <2> QED
    BY <1>1, <2>1, <2>2, LoopInduction
<1>11. acc[n] = g[n]
  BY <1>1, <1>10
<1> QED
  BY <1>5, <1>6, <1>9, <1>11 DEF n, P, Step

\* The chunks of a text keep its characters in order, and are no longer than
\* they may be.
THEOREM TextPacked ==
    ASSUME NEW lengths \in Seq(Nat), NEW size \in Nat \ {0}, NEW overlap \in Nat
    PROVE  LET chunks == SplitText(lengths, size, overlap) IN
           /\ chunks \in Seq(Piece)
           /\ \A c \in DOMAIN chunks : Consecutive(chunks[c]) /\ Len(chunks[c]) <= LongestChunk(size, overlap)
           /\ \A i \in DOMAIN lengths : \A k \in 1..lengths[i] :
                 \E c \in DOMAIN chunks : <<i, k>> \in ToSet(chunks[c])
<1> DEFINE n == Len(lengths)
           chunks == SplitText(lengths, size, overlap)
           P == Packings(size, overlap)
           Has(acc, i) == \A k \in 1..lengths[i] : \E s \in PiecesOf(acc) : <<i, k>> \in ToSet(s)
<1>1. n \in Nat /\ DOMAIN lengths = 1..n /\ \A k \in 1..n : lengths[k] \in Nat /\ k \in Nat \ {0}
  OBVIOUS
<1>2. PICK g \in [0..n -> P] :
          /\ g[0] = NoChunks
          /\ \A k \in 1..n : g[k] = AddParagraph(g[k - 1], Paragraph(k, lengths[k]), size, overlap)
          /\ chunks = ClosedChunks(g[n])
  BY PackingLoop
<1> HIDE DEF n, chunks
<1> DEFINE S == {k \in 0..n : \A i \in 1..k : Has(g[k], i)}
<1>3. 0 \in S
  BY <1>1
<1>4. ASSUME NEW k \in 1..n, k - 1 \in S PROVE k \in S
  <2>1. k - 1 \in 0..n /\ k \in 0..n /\ g[k - 1] \in P /\ lengths[k] \in Nat /\ k \in Nat \ {0}
    BY <1>1
  <2>2. Keeps(g[k - 1], g[k]) /\ Has(g[k], k)
    BY <1>2, <2>1, ParagraphPacked
  <2>3. ASSUME NEW i \in 1..(k - 1) PROVE Has(g[k], i)
    <3> TAKE j \in 1..lengths[i]
    <3>1. PICK s \in PiecesOf(g[k - 1]) : <<i, j>> \in ToSet(s)
      BY <1>4
    <3>2. <<i, j>> # Blank
      BY DEF Blank
    <3> QED
      BY <2>2, <3>1, <3>2 DEF Keeps
  <2>4. \A i \in 1..k : i = k \/ i \in 1..(k - 1)
    OBVIOUS
  <2> HIDE DEF Has
  <2> QED
    BY <2>1, <2>2, <2>3, <2>4
<1> HIDE DEF S
<1>5. \A k \in 0..n : k \in S
  BY <1>1, <1>3, <1>4, LoopInduction
<1>6. g[n] \in P /\ \A i \in 1..n : Has(g[n], i)
  BY <1>1, <1>5 DEF S
<1>7. g[n] \in Packing /\ \A s \in PiecesOf(g[n]) : Consecutive(s) /\ Len(s) <= LongestChunk(size, overlap)
  BY <1>6 DEF Packings
<1>8. /\ chunks \in Seq(Piece) /\ ToSet(chunks) \subseteq PiecesOf(g[n])
      /\ PiecesOf(g[n]) \subseteq ToSet(chunks) \cup {<<>>}
  BY <1>2, <1>7, ClosedPieces
<1>9. \A c \in DOMAIN chunks : Consecutive(chunks[c]) /\ Len(chunks[c]) <= LongestChunk(size, overlap)
  BY <1>7, <1>8 DEF ToSet
<1>10. ASSUME NEW i \in 1..n, NEW k \in 1..lengths[i]
       PROVE  \E c \in DOMAIN chunks : <<i, k>> \in ToSet(chunks[c])
  <2>1. PICK s \in PiecesOf(g[n]) : <<i, k>> \in ToSet(s)
    BY <1>6
  <2>2. s # <<>>
    BY <2>1 DEF ToSet
  <2>3. PICK c \in DOMAIN chunks : s = chunks[c]
    BY <1>8, <2>2 DEF ToSet
  <2> QED
    BY <2>1, <2>3
<1> QED
  BY <1>1, <1>8, <1>9, <1>10 DEF chunks

\* The texts to split are lengths of paragraphs.
LEMMA ChunksSafe ==
    ASSUME input \in Texts
    PROVE  TextKept /\ ChunksBounded
<1>1. input.lengths \in Seq(Nat) /\ input.size \in Nat \ {0} /\ input.overlap \in Nat
  BY PipelineAssumption DEF Texts, BoundedSeq, SeqOf
<1>2. Chunks = SplitText(input.lengths, input.size, input.overlap)
  BY DEF Chunks
<1>3. /\ Chunks \in Seq(Piece)
      /\ \A c \in DOMAIN Chunks : Consecutive(Chunks[c]) /\ Len(Chunks[c]) <= LongestChunk(input.size, input.overlap)
      /\ \A i \in DOMAIN input.lengths : \A k \in 1..input.lengths[i] :
            \E c \in DOMAIN Chunks : <<i, k>> \in ToSet(Chunks[c])
  BY <1>1, <1>2, TextPacked
<1>4. TextKept
  BY <1>3 DEF TextKept, Consecutive, Follows, Blank
<1>5. Len(NewLines) = 2
  BY DEF NewLines
<1>6. ChunksBounded
  BY <1>3, <1>5 DEF ChunksBounded, LongestChunk
<1> QED
  BY <1>4, <1>6

----------------------------------------------------------------------------
(* Embedding.                                                               *)

Batched == BoundedSeq(1..MaxTexts, MaxTexts)

\* What a batch becomes: itself, where the provider refuses none of its texts.
Vectors(b, bad) == IF ToSet(b) \cap bad = {} THEN b ELSE Refused400

Text == 1..MaxTexts

\* A batch is a sequence of texts.
LEMMA BatchTyped ==
    ASSUME NEW b
    PROVE  b \in Batched <=> b \in Seq(Text) /\ Len(b) \in 0..MaxTexts
<1>1. MaxTexts \in Nat
  BY PipelineAssumption
<1>2. Batched = UNION {[1..m -> Text] : m \in 0..MaxTexts}
  BY DEF Batched, BoundedSeq, SeqOf, Text
<1>3. ASSUME b \in Batched PROVE b \in Seq(Text) /\ Len(b) \in 0..MaxTexts
  <2>1. PICK m \in 0..MaxTexts : b \in [1..m -> Text]
    BY <1>2, <1>3
  <2> QED
    BY <1>1, <2>1
<1>4. ASSUME b \in Seq(Text), Len(b) \in 0..MaxTexts PROVE b \in Batched
  <2>1. b \in [1..Len(b) -> Text]
    BY <1>4
  <2> QED
    BY <1>2, <1>4, <2>1
<1> QED
  BY <1>3, <1>4

\* The halves of a batch are shorter, and make it again.
LEMMA Halves ==
    ASSUME NEW b \in Batched, Len(b) >= 2
    PROVE  LET half == Len(b) \div 2 l == SubSeq(b, 1, half) r == SubSeq(b, half + 1, Len(b)) IN
           /\ l \in Batched /\ r \in Batched /\ Len(l) < Len(b) /\ Len(r) < Len(b)
           /\ l \o r = b /\ ToSet(l) \cup ToSet(r) = ToSet(b)
<1> DEFINE n == Len(b)
           half == n \div 2
           l == SubSeq(b, 1, half)
           r == SubSeq(b, half + 1, n)
<1>1. b \in Seq(Text) /\ n \in 0..MaxTexts /\ MaxTexts \in Nat
  BY BatchTyped, PipelineAssumption
<1>2. half \in 1..(n - 1) /\ half \in 0..Len(b)
  BY <1>1
<1> HIDE DEF half
<1>3. /\ l \in Seq(Text) /\ r \in Seq(Text) /\ Len(l) = half /\ Len(r) = n - half
      /\ l \o r = b /\ ToSet(l) \cup ToSet(r) = ToSet(b)
  BY <1>1, <1>2, CutInTwo
<1> HIDE DEF l, r, n
<1>4. Len(l) < n /\ Len(r) < n /\ Len(l) \in 0..MaxTexts /\ Len(r) \in 0..MaxTexts
  BY <1>1, <1>2, <1>3
<1> QED
  BY <1>3, <1>4, BatchTyped DEF l, r, n, half

\* Two answers of the provider, one after the other.
LEMMA BothVectors ==
    ASSUME NEW l \in Seq(Text), NEW r \in Seq(Text), NEW bad,
           ToSet(l) \cup ToSet(r) = ToSet(l \o r)
    PROVE  Both(Vectors(l, bad), Vectors(r, bad)) = Vectors(l \o r, bad)
<1> DEFINE b == l \o r
<1>1. Refused400[1] = 0 /\ Len(Refused400) = 1
  BY DEF Refused400
<1>2. 0 \notin Text
  BY DEF Text
<1>3. ASSUME NEW s \in Seq(Text) PROVE s # Refused400
  <2>1. \A j \in 1..Len(s) : s[j] \in Text
    BY Places
  <2>2. 1 \in 1..1
    OBVIOUS
  <2> QED
    BY <1>1, <1>2, <2>1, <2>2
<1>4. CASE ToSet(b) \cap bad = {}
  <2>1. ToSet(l) \cap bad = {} /\ ToSet(r) \cap bad = {}
    BY <1>4
  <2> QED
    BY <1>3, <1>4, <2>1 DEF Both, Vectors
<1>5. CASE ToSet(b) \cap bad # {}
  <2>1. ToSet(l) \cap bad # {} \/ ToSet(r) \cap bad # {}
    BY <1>5
  <2> QED
    BY <1>5, <2>1 DEF Both, Vectors
<1> QED
  BY <1>4, <1>5

\* Halving a batch gives its vectors, or finds the text that is refused.
LEMMA BatchEmbedded ==
    ASSUME NEW batch \in Batched, NEW in, in.limit \in Nat \ {0}
    PROVE  EmbedBatch(batch, in) = Vectors(batch, in.bad)
<1> DEFINE half(b) == Len(b) \div 2
           Step(h, b) == IF Embeds(b, in) THEN b
                         ELSE IF Len(b) = 1 THEN Refused400
                         ELSE Both(h[SubSeq(b, 1, half(b))], h[SubSeq(b, half(b) + 1, Len(b))])
           F(h) == [b \in Batched |-> Step(h, b)]
           embed == CHOOSE h : h = F(h)
           g == [b \in Batched |-> Vectors(b, in.bad)]
           Same(h, m) == \A b \in Batched : Len(b) <= m => h[b] = Vectors(b, in.bad)
<1>1. EmbedBatch(batch, in) = embed[batch]
  BY DEF EmbedBatch, Batched
<1>2. ASSUME NEW b \in Batched
      PROVE  b \in Seq(Text) /\ Len(b) \in Nat /\ ToSet(b) = {b[i] : i \in DOMAIN b}
  BY BatchTyped DEF ToSet
<1>3. ASSUME NEW h, NEW m \in Nat, Same(h, m), NEW b \in Batched, Len(b) <= m + 1
      PROVE  Step(h, b) = Vectors(b, in.bad)
  <2>1. CASE Embeds(b, in)
    BY <1>2, <2>1 DEF Embeds, Vectors
  <2>2. CASE ~Embeds(b, in) /\ Len(b) = 1
    BY <1>2, <2>2 DEF Embeds, Vectors
  <2>3. CASE Len(b) = 0
    <3>1. b = <<>>
      BY <1>2, <2>3
    <3>2. Embeds(b, in)
      BY <2>3, <3>1 DEF Embeds
    <3> QED
      BY <2>1, <3>2
  <2>4. CASE ~Embeds(b, in) /\ Len(b) >= 2
    <3> DEFINE l == SubSeq(b, 1, half(b))
               r == SubSeq(b, half(b) + 1, Len(b))
    <3>1. /\ l \in Batched /\ r \in Batched /\ Len(l) < Len(b) /\ Len(r) < Len(b)
          /\ l \o r = b /\ ToSet(l) \cup ToSet(r) = ToSet(b)
      BY <2>4, Halves
    <3>a. Len(b) # 1
      BY <1>2, <2>4
    <3>2. Step(h, b) = Both(h[l], h[r])
      BY <2>4, <3>a, Zenon
    <3> HIDE DEF l, r, Step
    <3>3. Len(l) <= m /\ Len(r) <= m
      BY <1>2, <1>3, <3>1
    <3>4. h[l] = Vectors(l, in.bad) /\ h[r] = Vectors(r, in.bad)
      BY <1>3, <3>1, <3>3
    <3>5. l \in Seq(Text) /\ r \in Seq(Text)
      BY <1>2, <3>1
    <3>6. Both(Vectors(l, in.bad), Vectors(r, in.bad)) = Vectors(b, in.bad)
      BY <3>1, <3>5, BothVectors, Zenon
    <3> QED
      BY <3>2, <3>4, <3>6
  <2>5. Len(b) = 0 \/ Len(b) = 1 \/ Len(b) >= 2
    <3>1. \A n \in Nat : n = 0 \/ n = 1 \/ n >= 2
      OBVIOUS
    <3> QED
      BY <1>2, <3>1, Zenon
  <2> HIDE DEF Step
  <2> QED
    BY <2>1, <2>2, <2>3, <2>4, <2>5
<1>4. g = F(g)
  <2>1. \A m \in Nat : Same(g, m)
    OBVIOUS
  <2>2. ASSUME NEW b \in Batched PROVE Step(g, b) = Vectors(b, in.bad)
    <3>1. Len(b) \in Nat /\ Len(b) <= Len(b) + 1
      BY <1>2
    <3> HIDE DEF Step, g, Same
    <3> QED
      BY <1>3, <2>1, <3>1
  <2> QED
    BY <2>2
<1> HIDE DEF g
<1>5. embed = F(embed)
  BY <1>4
<1> HIDE DEF embed
<1> DEFINE S == {m \in Nat : Same(embed, m)}
<1>6. ASSUME NEW m \in Nat, m \in S PROVE m + 1 \in S
  <2>1. \A b \in Batched : Len(b) <= m + 1 => Step(embed, b) = Vectors(b, in.bad)
    <3> HIDE DEF Step
    <3> QED
      BY <1>3, <1>6
  <2>2. \A b \in Batched : embed[b] = Step(embed, b)
    BY <1>5
  <2> HIDE DEF Step
  <2> QED
    BY <2>1, <2>2
<1>7. 0 \in S
  <2>1. ASSUME NEW b \in Batched, Len(b) <= 0 PROVE embed[b] = Vectors(b, in.bad)
    <3>1. Len(b) = 0 /\ b = <<>>
      BY <1>2, <2>1
    <3>2. Embeds(b, in)
      BY <3>1 DEF Embeds
    <3>3. embed[b] = b
      BY <1>5, <3>2
    <3> QED
      BY <3>1, <3>3 DEF Vectors, ToSet
  <2> QED
    BY <2>1
<1> HIDE DEF S
<1>8. Nat \subseteq S
  BY <1>6, <1>7, SetInduction
<1>9. Len(batch) \in S /\ Len(batch) \in Nat
  BY <1>2, <1>8
<1>10. embed[batch] = Vectors(batch, in.bad)
  BY <1>9 DEF S
<1> QED
  BY <1>1, <1>10

FirstTexts(n) == [i \in 1..n |-> i]

\* The first texts, and the batches they are cut into.
LEMMA FirstTextsTyped ==
    ASSUME NEW n \in 0..MaxTexts
    PROVE  /\ FirstTexts(n) \in Seq(Text) /\ Len(FirstTexts(n)) = n
           /\ DOMAIN FirstTexts(n) = 1..n /\ \A j \in 1..n : FirstTexts(n)[j] = j
           /\ ToSet(FirstTexts(n)) = 1..n
<1>1. MaxTexts \in Nat /\ n \in Nat
  BY PipelineAssumption
<1>2. \A j \in 1..n : j \in Text
  BY <1>1 DEF Text
<1>3. /\ FirstTexts(n) \in Seq(Text) /\ Len(FirstTexts(n)) = n
      /\ DOMAIN FirstTexts(n) = 1..n /\ \A j \in 1..n : FirstTexts(n)[j] = j
  BY <1>1, <1>2 DEF FirstTexts
<1>4. ToSet(FirstTexts(n)) = 1..n
  BY <1>3 DEF ToSet
<1> QED
  BY <1>3, <1>4

\* A batch continues the texts before it.
LEMMA NextBatch ==
    ASSUME NEW n \in 0..MaxTexts, NEW h \in 0..n, NEW e \in h..n
    PROVE  LET batch == SubSeq(FirstTexts(n), h + 1, e) IN
           /\ batch \in Batched
           /\ FirstTexts(h) \o batch = FirstTexts(e)
           /\ ToSet(FirstTexts(h)) \cup ToSet(batch) = ToSet(FirstTexts(e))
<1> DEFINE s == FirstTexts(e)
           l == SubSeq(s, 1, h)
           r == SubSeq(s, h + 1, Len(s))
           batch == SubSeq(FirstTexts(n), h + 1, e)
<1>1. /\ MaxTexts \in Nat /\ {n, h, e, e - h} \subseteq 0..MaxTexts
      /\ h <= e /\ e <= n
  BY PipelineAssumption
<1>2. s \in Seq(Text) /\ Len(s) = e /\ \A j \in 1..e : s[j] = j
  BY <1>1, FirstTextsTyped
<1>3. h \in 0..Len(s)
  BY <1>1, <1>2
<1>4. /\ l \in Seq(Text) /\ r \in Seq(Text) /\ Len(l) = h /\ Len(r) = Len(s) - h
      /\ l \o r = s /\ ToSet(l) \cup ToSet(r) = ToSet(s)
  BY <1>2, <1>3, CutInTwo
<1>5. /\ \A j \in 1..h : l[j] = s[1 + j - 1]
      /\ \A j \in 1..(e - h) : r[j] = s[h + 1 + j - 1]
  <2> HIDE DEF s
  <2>1. 1 \in Nat \ {0} /\ h + 1 \in Nat \ {0} /\ h \in 0..Len(s) /\ e \in 0..Len(s)
    BY <1>1, <1>2
  <2>2. (IF 1 <= h THEN h - 1 + 1 ELSE 0) = h
    BY <1>1
  <2>3. (IF h + 1 <= Len(s) THEN Len(s) - (h + 1) + 1 ELSE 0) = e - h
    <3>1. CASE h + 1 <= e
      BY <1>1, <1>2, <3>1
    <3>2. CASE ~(h + 1 <= e)
      BY <1>1, <1>2, <3>2
    <3> QED
      BY <3>1, <3>2
  <2>4. \A j \in 1..h : l[j] = s[1 + j - 1]
    BY <1>2, <2>1, <2>2, Slice
  <2>5. Len(s) \in 0..Len(s)
    BY <1>2, <2>1
  <2>6. \A j \in 1..(e - h) : r[j] = s[h + 1 + j - 1]
    BY <1>2, <2>1, <2>3, <2>5, Slice
  <2> QED
    BY <2>4, <2>6
<1>6. l = FirstTexts(h)
  <2>1. FirstTexts(h) \in Seq(Text) /\ Len(FirstTexts(h)) = h /\ \A j \in 1..h : FirstTexts(h)[j] = j
    BY <1>1, FirstTextsTyped
  <2>2. \A j \in 1..h : 1 + j - 1 = j /\ j \in 1..e
    BY <1>1
  <2> HIDE DEF s, l
  <2>3. \A j \in 1..Len(l) : l[j] = FirstTexts(h)[j]
    BY <1>2, <1>4, <1>5, <2>1, <2>2
  <2> QED
    BY <1>4, <2>1, <2>3, SameElements
<1>7. r = batch
  <2>1. FirstTexts(n) \in Seq(Text) /\ Len(FirstTexts(n)) = n /\ \A j \in 1..n : FirstTexts(n)[j] = j
    BY <1>1, FirstTextsTyped
  <2>2. h + 1 \in Nat \ {0} /\ e \in 0..n
    BY <1>1
  <2>3. (IF h + 1 <= e THEN e - (h + 1) + 1 ELSE 0) = e - h
    <3>1. CASE h + 1 <= e
      BY <1>1, <3>1
    <3>2. CASE ~(h + 1 <= e)
      BY <1>1, <3>2
    <3> QED
      BY <3>1, <3>2
  <2>4. /\ batch \in Seq(Text) /\ Len(batch) = e - h
        /\ \A j \in 1..(e - h) : batch[j] = FirstTexts(n)[h + 1 + j - 1]
    BY <2>1, <2>2, <2>3, Slice
  <2>5. \A j \in 1..(e - h) : h + 1 + j - 1 \in 1..n /\ h + 1 + j - 1 \in 1..e
    BY <1>1
  <2> HIDE DEF s, r, batch
  <2>6. Len(r) = e - h
    BY <1>2, <1>4
  <2>7. \A j \in 1..(e - h) : r[j] = batch[j]
    BY <1>2, <1>5, <2>1, <2>4, <2>5
  <2> QED
    BY <1>4, <2>4, <2>6, <2>7, SameElements
<1>8. r \in Batched
  <2> HIDE DEF r, s
  <2> QED
    BY <1>1, <1>2, <1>4, BatchTyped
<1> HIDE DEF l, r, batch
<1> QED
  BY <1>4, <1>6, <1>7, <1>8 DEF batch

\* The vectors of all batches are those of the texts.
THEOREM TextsEmbedded ==
    ASSUME NEW in, in.texts \in 1..MaxTexts, in.limit \in Nat \ {0}, in.batch \in Nat \ {0}
    PROVE  EmbedTexts(in) = Vectors(FirstTexts(in.texts), in.bad)
<1> DEFINE n == in.texts
           d == in.batch
           count == (n + d - 1) \div d
           batch(i) == SubSeq(FirstTexts(n), (i - 1) * d + 1, Min({i * d, n}))
           F(h) == [i \in 0..count |-> IF i = 0 THEN <<>> ELSE Both(h[i - 1], EmbedBatch(batch(i), in))]
           vectors == CHOOSE h : h = F(h)
           end(i) == IF i * d <= n THEN i * d ELSE n
           Upto(i) == Vectors(FirstTexts(end(i)), in.bad)
           g == [i \in 0..count |-> Upto(i)]
<1>1. EmbedTexts(in) = vectors[count]
  BY DEF EmbedTexts, FirstTexts
<1>2. MaxTexts \in Nat /\ n \in 1..MaxTexts /\ n \in 0..MaxTexts /\ n \in Nat /\ d \in Nat \ {0}
  BY PipelineAssumption
<1> HIDE DEF n, d
<1>3. /\ count \in Nat /\ count * d >= n
      /\ \A i \in 1..count : (i - 1) * d \in Nat /\ (i - 1) * d < n /\ i * d = (i - 1) * d + d
  BY <1>2, Tiles
<1> HIDE DEF count
<1>4. end(0) = 0 /\ end(count) = n
  BY <1>2, <1>3
<1>5. ASSUME NEW i \in 1..count
      PROVE  Both(Upto(i - 1), EmbedBatch(batch(i), in)) = Upto(i)
  <2> DEFINE h == (i - 1) * d
             e == end(i)
             b == SubSeq(FirstTexts(n), h + 1, e)
  <2>1. h \in Nat /\ h < n /\ i * d = h + d
    BY <1>3
  <2>2. end(i - 1) = h
    BY <1>2, <2>1
  <2>3. batch(i) = b
    <3>1. i * d \in Int /\ n \in Int
      BY <1>2, <2>1
    <3>2. Min({i * d, n}) = end(i)
      BY <3>1, OfTwo
    <3> QED
      BY <3>2
  <2> HIDE DEF h
  <2>4. e \in h..n /\ h \in 0..n
    BY <1>2, <2>1
  <2> HIDE DEF e
  <2>5. /\ b \in Batched /\ FirstTexts(h) \o b = FirstTexts(e)
        /\ ToSet(FirstTexts(h)) \cup ToSet(b) = ToSet(FirstTexts(e))
    BY <1>2, <2>4, NextBatch, ZenonT(60)
  <2> HIDE DEF b, batch
  <2>6. EmbedBatch(batch(i), in) = Vectors(b, in.bad)
    BY <2>3, <2>5, BatchEmbedded
  <2>7. b \in Seq(Text) /\ FirstTexts(h) \in Seq(Text)
    <3>1. h \in 0..MaxTexts
      BY <1>2, <2>4
    <3> QED
      BY <2>5, <3>1, BatchTyped, FirstTextsTyped
  <2>8. Both(Vectors(FirstTexts(h), in.bad), Vectors(b, in.bad)) = Vectors(FirstTexts(e), in.bad)
    BY <2>5, <2>7, BothVectors, ZenonT(60)
  <2> QED
    BY <2>2, <2>6, <2>8 DEF e
<1>6. Upto(0) = <<>>
  <2>1. FirstTexts(0) = <<>>
    BY DEF FirstTexts
  <2> QED
    BY <1>4, <2>1 DEF Vectors, ToSet
<1> HIDE DEF batch, Upto, end
<1>7. g = F(g)
  <2>1. \A i \in 1..count : i - 1 \in 0..count
    BY <1>3
  <2>2. \A i \in 0..count : i = 0 \/ i \in 1..count
    BY <1>3
  <2> QED
    BY <1>5, <1>6, <2>1, <2>2
<1>8. vectors = F(vectors)
  <2> HIDE DEF g
  <2> QED
    BY <1>7
<1> HIDE DEF vectors
<1> DEFINE S == {i \in 0..count : vectors[i] = Upto(i)}
<1>9. \A i \in 0..count : i \in S
  <2>1. 0 \in S
    BY <1>3, <1>6, <1>8
  <2>2. \A i \in 1..count : i - 1 \in S => i \in S
    BY <1>3, <1>5, <1>8
  <2> HIDE DEF S
  <2> QED
    BY <1>3, <2>1, <2>2, LoopInduction
<1>10. vectors[count] = Upto(count)
  BY <1>3, <1>9
<1> QED
  BY <1>1, <1>4, <1>10 DEF Upto, n

\* The texts to embed, the batches and what the provider takes are numbers.
LEMMA EmbeddingSafe ==
    ASSUME input \in Batches
    PROVE  EmbeddedInOrder
<1>1. /\ input.texts \in 1..MaxTexts /\ input.texts \in 0..MaxTexts
      /\ input.limit \in Nat \ {0} /\ input.batch \in Nat \ {0}
  BY PipelineAssumption DEF Batches
<1>2. EmbedTexts(input) = Vectors(FirstTexts(input.texts), input.bad)
  BY <1>1, TextsEmbedded
<1>3. ToSet(FirstTexts(input.texts)) = 1..input.texts
  BY <1>1, FirstTextsTyped
<1>4. FirstTexts(input.texts) = [i \in 1..input.texts |-> i]
  BY DEF FirstTexts
<1> QED
  BY <1>2, <1>3, <1>4 DEF EmbeddedInOrder, Vectors

----------------------------------------------------------------------------
(* The context of an answer.                                                *)

\* The sums of the beginnings of a sequence.
Sums(s, g) == g[0] = 0 /\ \A k \in 1..Len(s) : g[k] = g[k - 1] + s[k]

\* The run of the loop that adds up.
LEMMA TotalLoop ==
    ASSUME NEW s \in Seq(Nat)
    PROVE  \E g \in [0..Len(s) -> Nat] : Sums(s, g) /\ Total(s) = g[Len(s)]
<1> DEFINE n == Len(s)
           A == [t \in Nat \X (1..n) |-> t[1] + s[t[2]]]
           F(g) == [k \in 0..n |-> IF k = 0 THEN 0 ELSE g[k - 1] + s[k]]
           sum == CHOOSE g : g = F(g)
<1>1. n \in Nat /\ \A k \in 1..n : s[k] \in Nat
  BY Places
<1>2. Total(s) = sum[n]
  BY DEF Total
<1> HIDE DEF n
<1>3. Rounds(A, Nat, n) /\ \A x \in Nat, k \in 1..n : A[<<x, k>>] = x + s[k]
  BY <1>1, SMTT(30) DEF Rounds
<1> HIDE DEF A
<1>a. HasRun(A, Nat, n, 0)
  BY <1>1, <1>3, LoopExists
<1>4. PICK g \in [0..n -> Nat] : g[0] = 0 /\ \A k \in 1..n : g[k] = A[<<g[k - 1], k>>]
  BY <1>a DEF HasRun
<1>5. ASSUME NEW k \in 1..n PROVE g[k] = g[k - 1] + s[k]
  <2>1. k - 1 \in 0..n
    BY <1>1
  <2> QED
    BY <1>3, <1>4, <2>1
<1>6. g = F(g)
  <2>1. \A k \in 0..n : k = 0 \/ k \in 1..n
    BY <1>1
  <2> QED
    BY <1>4, <1>5, <2>1
<1>7. sum = F(sum)
  BY <1>6
<1> HIDE DEF sum
<1> DEFINE S == {k \in 0..n : sum[k] = g[k]}
<1>8. \A k \in 0..n : k \in S
  <2>1. 0 \in S
    BY <1>1, <1>4, <1>7
  <2>2. \A k \in 1..n : k - 1 \in S => k \in S
    BY <1>1, <1>5, <1>7
  <2> HIDE DEF S
  <2> QED
    BY <1>1, <2>1, <2>2, LoopInduction
<1>9. sum[n] = g[n]
  BY <1>1, <1>8
<1> QED
  BY <1>2, <1>4, <1>5, <1>9 DEF n, Sums

\* There is no other run.
LEMMA TotalUnique ==
    ASSUME NEW s \in Seq(Nat), NEW g, Sums(s, g)
    PROVE  Total(s) = g[Len(s)]
<1>1. PICK h \in [0..Len(s) -> Nat] : Sums(s, h) /\ Total(s) = h[Len(s)]
  BY TotalLoop
<1> DEFINE S == {k \in 0..Len(s) : g[k] = h[k]}
<1>2. 0 \in S
  BY <1>1, Places DEF Sums
<1>3. \A k \in 1..Len(s) : k - 1 \in S => k \in S
  BY <1>1, Places DEF Sums
<1> HIDE DEF S
<1>4. \A k \in 0..Len(s) : k \in S
  BY <1>2, <1>3, LoopInduction, Places
<1> QED
  BY <1>1, <1>4, Places DEF S

\* Nothing costs nothing.
LEMMA TotalEmpty == Total(<<>>) = 0
<1>1. <<>> \in Seq(Nat) /\ Len(<<>>) = 0
  OBVIOUS
<1>2. PICK g \in [0..0 -> Nat] : Sums(<<>>, g) /\ Total(<<>>) = g[0]
  BY <1>1, TotalLoop
<1> QED
  BY <1>2 DEF Sums

\* An element more.
LEMMA TotalAppend ==
    ASSUME NEW s \in Seq(Nat), NEW x \in Nat
    PROVE  Total(s) \in Nat /\ Total(Append(s, x)) = Total(s) + x
<1> DEFINE n == Len(s)
           t == Append(s, x)
<1>1. /\ t \in Seq(Nat) /\ Len(t) = n + 1 /\ n \in Nat
      /\ t[n + 1] = x /\ \A k \in 1..n : t[k] = s[k]
  OBVIOUS
<1>2. PICK g \in [0..n -> Nat] : Sums(s, g) /\ Total(s) = g[n]
  BY TotalLoop
<1> DEFINE h == [k \in 0..(n + 1) |-> IF k = n + 1 THEN g[n] + x ELSE g[k]]
<1> HIDE DEF t, n
<1>3. \A k \in 0..n : h[k] = g[k]
  BY <1>1
<1>4. h[n + 1] = g[n] + x
  BY <1>1
<1> HIDE DEF h
<1>5. Sums(t, h)
  <2>1. h[0] = 0
    BY <1>1, <1>2, <1>3 DEF Sums
  <2>2. ASSUME NEW k \in 1..(n + 1) PROVE h[k] = h[k - 1] + t[k]
    <3>1. k - 1 \in 0..n
      BY <1>1
    <3>2. CASE k = n + 1
      BY <1>1, <1>3, <1>4, <3>1, <3>2
    <3>3. CASE k \in 1..n
      <4>1. g[k] = g[k - 1] + s[k]
        BY <1>2, <3>3 DEF Sums, n
      <4> QED
        BY <1>1, <1>3, <3>1, <3>3, <4>1, SMTT(30)
    <3> QED
      BY <1>1, <3>2, <3>3
  <2> QED
    BY <1>1, <2>1, <2>2 DEF Sums
<1>6. Total(t) = h[n + 1]
  BY <1>1, <1>5, TotalUnique
<1> QED
  BY <1>1, <1>2, <1>4, <1>6 DEF t

Symbol  == {"blank", "latin", "chinese"}
Excerpt == Seq(Symbol)

\* What the characters of an excerpt cost.
Costs(s) == [k \in DOMAIN s |-> IF s[k] = "chinese" THEN 4 ELSE 1]

\* The costs are numbers.
LEMMA CostsTyped ==
    ASSUME NEW s \in Excerpt
    PROVE  /\ Costs(s) \in Seq({1, 4}) /\ Costs(s) \in Seq(Nat) /\ Len(Costs(s)) = Len(s)
           /\ \A j \in 1..Len(s) : Costs(s)[j] = IF s[j] = "chinese" THEN 4 ELSE 1
           /\ Units(s) = Total(Costs(s)) /\ Units(s) \in Nat
<1>1. Len(s) \in Nat /\ DOMAIN s = 1..Len(s)
  BY Places DEF Excerpt
<1>2. /\ Costs(s) \in Seq({1, 4}) /\ Len(Costs(s)) = Len(s)
      /\ \A j \in 1..Len(s) : Costs(s)[j] = IF s[j] = "chinese" THEN 4 ELSE 1
  BY <1>1 DEF Costs
<1>3. Costs(s) \in Seq(Nat)
  <2>1. {1, 4} \subseteq Nat
    OBVIOUS
  <2> QED
    BY <1>2, <2>1, WiderSequence
<1>4. Units(s) = Total(Costs(s))
  BY DEF Units, Costs
<1> QED
  BY <1>2, <1>3, <1>4, TotalAppend

\* A beginning of an excerpt.
LEMMA Beginning ==
    ASSUME NEW s \in Excerpt, NEW k \in 0..Len(s)
    PROVE  /\ SubSeq(s, 1, k) \in Excerpt /\ Len(SubSeq(s, 1, k)) = k
           /\ \A j \in 1..k : SubSeq(s, 1, k)[j] = s[j]
           /\ Units(SubSeq(s, 1, k)) \in Nat
<1> DEFINE t == SubSeq(s, 1, k)
<1>1. s \in Seq(Symbol) /\ Len(s) \in Nat /\ 1 \in Nat \ {0}
  BY Places DEF Excerpt
<1>2. (IF 1 <= k THEN k - 1 + 1 ELSE 0) = k
  OBVIOUS
<1>3. t \in Seq(Symbol) /\ Len(t) = k /\ \A j \in 1..k : t[j] = s[1 + j - 1]
  BY <1>1, <1>2, Slice
<1>4. \A j \in 1..k : 1 + j - 1 = j
  OBVIOUS
<1> HIDE DEF t
<1>5. t \in Excerpt /\ Units(t) \in Nat
  BY <1>3, CostsTyped DEF Excerpt
<1> QED
  BY <1>3, <1>4, <1>5 DEF t

\* The beginning that is a character longer costs one or four units more.
LEMMA LongerBeginning ==
    ASSUME NEW s \in Excerpt, NEW k \in 0..Len(s), k < Len(s)
    PROVE  /\ Units(SubSeq(s, 1, k)) <= Units(SubSeq(s, 1, k + 1))
           /\ Units(SubSeq(s, 1, k + 1)) <= Units(SubSeq(s, 1, k)) + 4
<1> DEFINE t == SubSeq(s, 1, k)
           v == SubSeq(s, 1, k + 1)
           x == IF s[k + 1] = "chinese" THEN 4 ELSE 1
           u == Append(Costs(t), x)
<1>1. Len(s) \in Nat /\ k + 1 \in 0..Len(s) /\ k \in Nat
  BY Places DEF Excerpt
<1>2. t \in Excerpt /\ Len(t) = k /\ \A j \in 1..k : t[j] = s[j]
  BY Beginning
<1>3. v \in Excerpt /\ Len(v) = k + 1 /\ \A j \in 1..(k + 1) : v[j] = s[j]
  BY <1>1, Beginning
<1> HIDE DEF t, v
<1>4. /\ Costs(t) \in Seq(Nat) /\ Len(Costs(t)) = k /\ Units(t) = Total(Costs(t)) /\ Units(t) \in Nat
      /\ \A j \in 1..k : Costs(t)[j] = IF s[j] = "chinese" THEN 4 ELSE 1
  BY <1>2, CostsTyped, ZenonT(60)
<1>5. /\ Costs(v) \in Seq(Nat) /\ Len(Costs(v)) = k + 1 /\ Units(v) = Total(Costs(v))
      /\ \A j \in 1..(k + 1) : Costs(v)[j] = IF s[j] = "chinese" THEN 4 ELSE 1
  <2> DEFINE l == k + 1
  <2>1. v \in Excerpt /\ Len(v) = l /\ \A j \in 1..l : v[j] = s[j]
    BY <1>3
  <2> HIDE DEF l
  <2>2. /\ Costs(v) \in Seq(Nat) /\ Len(Costs(v)) = l /\ Units(v) = Total(Costs(v))
        /\ \A j \in 1..l : Costs(v)[j] = IF s[j] = "chinese" THEN 4 ELSE 1
    BY <2>1, CostsTyped
  <2> QED
    BY <2>2 DEF l
<1>6. x \in Nat /\ 0 <= x /\ x <= 4
  OBVIOUS
<1>7. k + 1 \in 1..(k + 1) /\ \A j \in 1..(k + 1) : j = k + 1 \/ j \in 1..k
  BY <1>1
<1>8. Costs(v)[k + 1] = x
  BY <1>5, <1>7
<1> HIDE DEF x
<1>9. u \in Seq(Nat) /\ Len(u) = k + 1 /\ u[k + 1] = x /\ \A j \in 1..k : u[j] = Costs(t)[j]
  BY <1>4, <1>6, Appended
<1>10. Total(u) = Units(t) + x
  BY <1>4, <1>6, TotalAppend
<1> HIDE DEF u
<1>11. \A j \in 1..(k + 1) : u[j] = Costs(v)[j]
  BY <1>4, <1>5, <1>7, <1>8, <1>9
<1>12. u = Costs(v)
  BY <1>5, <1>9, <1>11, SameElements
<1>13. Units(v) = Units(t) + x
  BY <1>5, <1>10, <1>12
<1>14. Units(t) <= Units(t) + x /\ Units(t) + x <= Units(t) + 4
  BY <1>4, <1>6
<1> QED
  BY <1>13, <1>14 DEF t, v

\* A shorter beginning costs no more.
LEMMA ShorterBeginning ==
    ASSUME NEW s \in Excerpt, NEW k \in 0..Len(s), NEW m \in 0..Len(s), k <= m
    PROVE  Units(SubSeq(s, 1, k)) <= Units(SubSeq(s, 1, m))
<1> DEFINE n == Len(s)
           U(j) == Units(SubSeq(s, 1, j))
           S == {l \in 0..n : \A j \in 0..l : U(j) <= U(l)}
<1>1. n \in Nat
  BY Places DEF Excerpt
<1>2. \A j \in 0..n : U(j) \in Nat
  BY Beginning
<1>3. ASSUME NEW l \in 1..n PROVE U(l - 1) <= U(l)
  <2>1. l - 1 \in 0..n /\ l - 1 < n /\ (l - 1) + 1 = l
    BY <1>1
  <2> QED
    BY <2>1, LongerBeginning
<1> HIDE DEF n, U
<1>4. 0 \in S
  <2>1. 0 \in 0..n /\ \A j \in 0..0 : j = 0
    BY <1>1
  <2>2. U(0) <= U(0)
    BY <1>2, <2>1
  <2> QED
    BY <2>1, <2>2
<1>5. ASSUME NEW l \in 1..n, l - 1 \in S PROVE l \in S
  <2>1. l - 1 \in 0..n /\ l \in 0..n /\ \A j \in 0..l : j \in 0..n /\ (j = l \/ j \in 0..(l - 1))
    BY <1>1
  <2>2. ASSUME NEW j \in 0..l PROVE U(j) <= U(l)
    <3>1. CASE j = l
      BY <1>2, <2>1, <3>1
    <3>2. CASE j \in 0..(l - 1)
      <4>1. U(j) <= U(l - 1)
        BY <1>5, <3>2
      <4>2. U(j) \in Nat /\ U(l - 1) \in Nat /\ U(l) \in Nat
        BY <1>2, <2>1
      <4> QED
        BY <1>3, <4>1, <4>2
    <3> QED
      BY <2>1, <3>1, <3>2
  <2> QED
    BY <2>1, <2>2
<1> HIDE DEF S
<1>6. \A l \in 0..n : l \in S
  BY <1>1, <1>4, <1>5, LoopInduction
<1>7. m \in 0..n /\ k \in 0..m
  BY <1>1 DEF n
<1>8. U(k) <= U(m)
  BY <1>6, <1>7 DEF S
<1> QED
  BY <1>8 DEF U

\* Without the blanks at its end, an excerpt is a beginning of itself.
LEMMA RightStripped ==
    ASSUME NEW s \in Excerpt
    PROVE  \E r \in 0..Len(s) :
               /\ RightStrip(s) = SubSeq(s, 1, r)
               /\ r < Len(s) => s[r + 1] = "blank"
<1> DEFINE n == Len(s)
           solid == {0} \cup {k \in DOMAIN s : s[k] # "blank"}
           r == Max(solid)
<1>1. n \in Nat /\ DOMAIN s = 1..n
  BY Places DEF Excerpt
<1> HIDE DEF n
<1>2. solid \in SUBSET (0..n) /\ solid # {}
  BY <1>1
<1>3. r \in solid /\ \A y \in solid : y <= r
  <2> HIDE DEF solid
  <2> QED
    BY <1>1, <1>2, LeastGreatest
<1>4. RightStrip(s) = SubSeq(s, 1, r)
  BY DEF RightStrip
<1> HIDE DEF r
<1>5. r \in 0..n
  BY <1>2, <1>3
<1>6. ASSUME r < n PROVE s[r + 1] = "blank"
  <2>1. r + 1 \in 1..n /\ ~ (r + 1 <= r)
    BY <1>1, <1>5, <1>6
  <2>2. r + 1 \notin solid
    BY <1>3, <2>1
  <2> QED
    BY <1>1, <2>1, <2>2
<1> QED
  BY <1>4, <1>5, <1>6 DEF n

\* An excerpt is whole, or cut before a blank.
WholeOrBlank(t, s) == t = s \/ s[Len(t) + 1] = "blank"

\* What is kept of an excerpt fits, and but at a blank nothing is cut that would.
LEMMA Truncated ==
    ASSUME NEW s \in Excerpt, NEW room \in Nat
    PROVE  LET t == Truncate(s, room) IN
           /\ t \in Excerpt /\ IsPrefix(t, s) /\ Units(t) \in Nat /\ Units(t) <= room
           /\ ~WholeOrBlank(t, s) => Units(t) + 4 > room
<1> DEFINE n == Len(s)
           fits == {k \in 0..n : Units(SubSeq(s, 1, k)) <= room}
           m == Max(fits)
           b == SubSeq(s, 1, m)
<1>1. n \in Nat /\ s \in Seq(Symbol)
  BY Places DEF Excerpt
<1>2. Truncate(s, room) = RightStrip(b)
  BY DEF Truncate
<1>3. 0 \in fits
  <2>1. SubSeq(s, 1, 0) = <<>>
    BY <1>1
  <2>2. Units(<<>>) = 0
    <3>1. Costs(<<>>) = <<>> /\ <<>> \in Excerpt
      BY DEF Costs, Excerpt
    <3> QED
      BY <3>1, CostsTyped, TotalEmpty
  <2>3. Units(SubSeq(s, 1, 0)) = 0
    BY <2>1, <2>2, Zenon
  <2>4. 0 \in 0..n /\ 0 <= room
    BY <1>1
  <2> QED
    BY <2>3, <2>4, Zenon
<1>4. fits \in SUBSET (0..n) /\ fits # {}
  BY <1>3
<1>5. m \in fits /\ \A y \in fits : y <= m
  <2> HIDE DEF fits
  <2> QED
    BY <1>1, <1>4, LeastGreatest
<1> HIDE DEF m
<1>6. m \in 0..n /\ Units(b) <= room
  BY <1>5
<1>7. b \in Excerpt /\ Len(b) = m /\ \A j \in 1..m : b[j] = s[j]
  BY <1>6, Beginning
<1>8. PICK r \in 0..m : RightStrip(b) = SubSeq(b, 1, r) /\ (r < m => b[r + 1] = "blank")
  <2> HIDE DEF b
  <2> QED
    BY <1>7, RightStripped
<1> DEFINE t == SubSeq(s, 1, r)
<1>9. r \in 0..n /\ r <= m
  BY <1>1, <1>6
<1>10. t \in Excerpt /\ Len(t) = r /\ Units(t) \in Nat /\ \A j \in 1..r : t[j] = s[j]
  BY <1>9, Beginning
<1>11. Truncate(s, room) = t
  <2> DEFINE c == SubSeq(b, 1, r)
  <2>1. c \in Excerpt /\ Len(c) = r /\ \A j \in 1..r : c[j] = b[j]
    <3>1. r \in 0..Len(b)
      BY <1>7
    <3> HIDE DEF b
    <3> QED
      BY <1>7, <3>1, Beginning
  <2>2. \A j \in 1..r : j \in 1..m
    BY <1>6, <1>9
  <2> HIDE DEF b, c, t
  <2>3. \A j \in 1..Len(c) : c[j] = t[j]
    BY <1>7, <1>10, <2>1, <2>2
  <2>4. c = t
    BY <1>10, <2>1, <2>3, SameElements DEF Excerpt
  <2> QED
    BY <1>2, <1>8, <2>4 DEF c
<1>12. Units(t) <= room
  <2>1. Units(t) <= Units(b)
    BY <1>6, <1>9, ShorterBeginning
  <2>2. Units(b) \in Nat
    BY <1>6, Beginning
  <2> HIDE DEF t, b
  <2> QED
    BY <1>6, <1>10, <2>1, <2>2
<1>13. IsPrefix(t, s)
  <2>1. SubSeq(t, 1, r) = t
    <3>1. SubSeq(t, 1, r) \in Excerpt /\ Len(SubSeq(t, 1, r)) = r /\ \A j \in 1..r : SubSeq(t, 1, r)[j] = t[j]
      <4>1. r \in 0..Len(t)
        BY <1>10
      <4> HIDE DEF t
      <4> QED
        BY <1>10, <4>1, Beginning
    <3> DEFINE d == SubSeq(t, 1, r)
    <3> HIDE DEF t, d
    <3>2. d = t
      BY <1>10, <3>1, SameElements DEF Excerpt, d
    <3> QED
      BY <3>2 DEF d
  <2> HIDE DEF t
  <2>2. r <= Len(s)
    BY <1>1, <1>9
  <2> QED
    BY <1>10, <2>1, <2>2 DEF IsPrefix, t
<1>14. ASSUME ~WholeOrBlank(t, s) PROVE Units(t) + 4 > room
  <2>1. r = m
    <3>1. SUFFICES ASSUME r < m PROVE FALSE
      BY <1>6, <1>9
    <3>2. r + 1 \in 1..m
      BY <1>6, <1>9, <3>1
    <3> HIDE DEF b, t
    <3>3. s[r + 1] = "blank"
      BY <1>7, <1>8, <3>1, <3>2
    <3> QED
      BY <1>10, <1>14, <3>3 DEF WholeOrBlank
  <2>2. m # n
    <3>1. SubSeq(s, 1, n) = s
      BY <1>1
    <3> QED
      BY <1>14, <2>1, <3>1 DEF WholeOrBlank
  <2>3. m < n /\ m + 1 \in 0..n
    BY <1>1, <1>6, <2>2
  <2>4. m + 1 \notin fits
    <3> HIDE DEF fits
    <3>1. ~ (m + 1 <= m)
      BY <1>6
    <3> QED
      BY <1>5, <3>1
  <2>5. ~ (Units(SubSeq(s, 1, m + 1)) <= room)
    BY <2>3, <2>4
  <2>6. Units(SubSeq(s, 1, m + 1)) <= Units(t) + 4
    BY <1>6, <2>1, <2>3, LongerBeginning
  <2>7. Units(SubSeq(s, 1, m + 1)) \in Nat
    BY <2>3, Beginning
  <2> HIDE DEF t
  <2> QED
    BY <1>10, <2>5, <2>6, <2>7
<1> HIDE DEF t
<1> QED
  BY <1>10, <1>11, <1>12, <1>13, <1>14

Candidate    == [doc : {1, 2}, content : Excerpt]
Quote     == [source : Nat, content : Excerpt]
Gathering == [quoted : Seq(Quote), seen : SUBSET Nat, used : Nat, done : BOOLEAN]

\* A citation takes five quarters of a token or more.
LEMMA CitationCost ==
    ASSUME NEW i \in Nat
    PROVE  CitationUnits(i) \in Nat /\ CitationUnits(i) >= 5
<1> DEFINE digits == {n \in 1..i : 10^n <= i}
<1>1. IsFiniteSet(1..i)
  BY FS_Interval
<1>2. digits \subseteq 1..i
  OBVIOUS
<1> HIDE DEF digits
<1>3. IsFiniteSet(digits)
  BY <1>1, <1>2, FS_Subset
<1>4. Cardinality(digits) \in Nat
  BY <1>3, FS_CardinalityType
<1>5. CitationUnits(i) = 5 + Cardinality(digits)
  BY DEF CitationUnits, digits
<1> QED
  BY <1>4, <1>5

\* What becomes of one source: it is passed over, it ends the context, or what
\* fits of it is quoted: what is kept of it, and the context with it.
Kept(acc, sources, i, maxUnits, kept) ==
    /\ kept \in Excerpt /\ IsPrefix(kept, sources[i].content)
    /\ Units(kept) \in Nat
    /\ acc.used + CitationUnits(i) < maxUnits
    /\ acc.used + CitationUnits(i) + Units(kept) <= maxUnits
    /\ ~WholeOrBlank(kept, sources[i].content) => acc.used + CitationUnits(i) + Units(kept) + 4 > maxUnits

QuoteAdded(acc, new, i, kept) ==
    /\ new.quoted = Append(acc.quoted, [source |-> i, content |-> kept])
    /\ new.seen = acc.seen \cup {i}
    /\ new.used = acc.used + CitationUnits(i) + Units(kept)

Passed(acc, sources, i, maxSources) ==
    acc.done \/ sources[i] \in {sources[j] : j \in acc.seen} \/ Len(acc.quoted) = maxSources

\* One of the three happens to every source.
LEMMA SourceQuoted ==
    ASSUME NEW sources \in Seq(Candidate), NEW i \in 1..Len(sources),
           NEW maxSources, NEW maxUnits \in Nat, NEW acc \in Gathering
    PROVE  LET new == QuoteSource(acc, sources, i, maxSources, maxUnits) IN
           /\ new \in Gathering
           /\ \/ new = acc /\ Passed(acc, sources, i, maxSources)
              \/ /\ ~Passed(acc, sources, i, maxSources) /\ new.done
                 /\ new.quoted = acc.quoted /\ new.seen = acc.seen /\ new.used = acc.used
              \/ /\ ~Passed(acc, sources, i, maxSources)
                 /\ \E kept \in Excerpt : Kept(acc, sources, i, maxUnits, kept) /\ QuoteAdded(acc, new, i, kept)
<1> DEFINE content == sources[i].content
           cost == CitationUnits(i)
           room == maxUnits - acc.used - cost
           kept == IF room <= 0 THEN <<>> ELSE Truncate(content, room)
           sum  == acc.used + cost + Units(kept)
           new  == QuoteSource(acc, sources, i, maxSources, maxUnits)
           quote == [source |-> i, content |-> kept]
           pass == Passed(acc, sources, i, maxSources)
<1>1. /\ acc.quoted \in Seq(Quote) /\ acc.seen \in SUBSET Nat /\ acc.used \in Nat /\ acc.done \in BOOLEAN
      /\ acc = [quoted |-> acc.quoted, seen |-> acc.seen, used |-> acc.used, done |-> acc.done]
  BY DEF Gathering
<1>2. i \in Nat /\ content \in Excerpt
  <2>1. Len(sources) \in Nat /\ sources[i] \in Candidate
    BY Places
  <2> QED
    BY <2>1 DEF Candidate
<1>3. cost \in Nat /\ room \in Int
  BY <1>1, <1>2, CitationCost
<1>4. /\ pass => new = acc
      /\ ~pass /\ kept = <<>> => new = [acc EXCEPT !.done = TRUE]
      /\ ~pass /\ kept # <<>> =>
            new = [quoted |-> Append(acc.quoted, quote), seen |-> acc.seen \cup {i},
                   used |-> sum, done |-> sum >= maxUnits]
  BY Zenon DEF QuoteSource, Passed
<1> HIDE DEF new, pass, content
<1>5. CASE pass
  BY <1>4, <1>5 DEF pass, new
<1>6. CASE ~pass /\ kept = <<>>
  <2> DEFINE over == [acc EXCEPT !.done = TRUE]
  <2>1. new = over
    BY <1>4, <1>6
  <2>2. /\ over \in Gathering /\ over.done /\ over.quoted = acc.quoted
        /\ over.seen = acc.seen /\ over.used = acc.used
    BY <1>1 DEF Gathering
  <2> HIDE DEF over
  <2>3. /\ new \in Gathering /\ new.done /\ new.quoted = acc.quoted
        /\ new.seen = acc.seen /\ new.used = acc.used
    BY <2>1, <2>2
  <2> QED
    BY <1>6, <2>3 DEF pass, new
<1>7. CASE ~pass /\ kept # <<>>
  <2>1. room > 0 /\ room \in Nat /\ kept = Truncate(content, room)
    BY <1>3, <1>7
  <2> HIDE DEF kept, room
  <2>2. /\ kept \in Excerpt /\ IsPrefix(kept, content) /\ Units(kept) \in Nat /\ Units(kept) <= room
        /\ ~WholeOrBlank(kept, content) => Units(kept) + 4 > room
    BY <1>2, <2>1, Truncated
  <2>3. /\ acc.used + cost < maxUnits /\ sum <= maxUnits /\ sum \in Nat
        /\ ~WholeOrBlank(kept, content) => sum + 4 > maxUnits
    BY <1>1, <1>3, <2>1, <2>2, SMTT(30) DEF room
  <2>4. Kept(acc, sources, i, maxUnits, kept)
    BY <2>2, <2>3 DEF Kept, content
  <2> DEFINE more == Append(acc.quoted, quote)
             next == [quoted |-> more, seen |-> acc.seen \cup {i}, used |-> sum, done |-> sum >= maxUnits]
  <2>5. new = next
    BY <1>4, <1>7
  <2>6. quote \in Quote
    BY <1>2, <2>2 DEF Quote
  <2> HIDE DEF quote, sum
  <2>7. more \in Seq(Quote)
    BY <1>1, <2>6
  <2>8. acc.seen \cup {i} \in SUBSET Nat /\ (sum >= maxUnits) \in BOOLEAN
    BY <1>1, <1>2
  <2> HIDE DEF more
  <2>9. next \in Gathering /\ next.quoted = more /\ next.seen = acc.seen \cup {i} /\ next.used = sum
    BY <2>3, <2>7, <2>8 DEF Gathering
  <2> HIDE DEF next
  <2>10. new \in Gathering /\ QuoteAdded(acc, new, i, kept)
    BY <2>5, <2>9 DEF QuoteAdded, more, quote, sum
  <2> QED
    BY <1>7, <2>2, <2>4, <2>10 DEF pass, new
<1> QED
  BY <1>5, <1>6, <1>7

Parts(quoted) == [j \in DOMAIN quoted |-> PartUnits(quoted[j])]

\* What the quotes cost together, and one more.
LEMMA PartsAppend ==
    ASSUME NEW quoted \in Seq(Quote), NEW quote \in Quote
    PROVE  /\ Total(Parts(quoted)) \in Nat /\ PartUnits(quote) \in Nat
           /\ Total(Parts(Append(quoted, quote))) = Total(Parts(quoted)) + PartUnits(quote)
<1> DEFINE n == Len(quoted)
           more == Append(quoted, quote)
           u == Append(Parts(quoted), PartUnits(quote))
<1>1. ASSUME NEW q \in Quote PROVE PartUnits(q) \in Nat
  <2>1. q.source \in Nat /\ q.content \in Excerpt
    BY DEF Quote
  <2>2. CitationUnits(q.source) \in Nat /\ Units(q.content) \in Nat
    BY <2>1, CitationCost, CostsTyped
  <2> QED
    BY <2>2 DEF PartUnits
<1>2. ASSUME NEW q \in Seq(Quote)
      PROVE  Parts(q) \in Seq(Nat) /\ Len(Parts(q)) = Len(q) /\ \A j \in 1..Len(q) : Parts(q)[j] = PartUnits(q[j])
  <2>1. Len(q) \in Nat /\ DOMAIN q = 1..Len(q) /\ \A j \in 1..Len(q) : q[j] \in Quote
    BY Places
  <2>2. \A j \in 1..Len(q) : PartUnits(q[j]) \in Nat
    BY <1>1, <2>1
  <2> QED
    BY <2>1, <2>2 DEF Parts
<1>3. more \in Seq(Quote) /\ Len(more) = n + 1 /\ more[n + 1] = quote /\ \A j \in 1..n : more[j] = quoted[j]
  BY Appended
<1>4. n \in Nat
  BY Places
<1>5. /\ u \in Seq(Nat) /\ Len(u) = n + 1 /\ u[n + 1] = PartUnits(quote)
      /\ \A j \in 1..n : u[j] = Parts(quoted)[j]
  <2>1. Parts(quoted) \in Seq(Nat) /\ PartUnits(quote) \in Nat /\ Len(Parts(quoted)) = n
    BY <1>1, <1>2
  <2> HIDE DEF n
  <2> QED
    BY <2>1, Appended
<1> HIDE DEF more, u, n
<1>6. Parts(more) = u
  <2>1. Parts(more) \in Seq(Nat) /\ Len(Parts(more)) = n + 1
    BY <1>2, <1>3
  <2>2. ASSUME NEW j \in 1..(n + 1) PROVE Parts(more)[j] = u[j]
    <3>1. CASE j = n + 1
      BY <1>2, <1>3, <1>5, <3>1
    <3>2. CASE j \in 1..n
      <4>1. Parts(quoted)[j] = PartUnits(quoted[j])
        BY <1>2, <3>2 DEF n
      <4> QED
        BY <1>2, <1>3, <1>5, <3>2, <4>1
    <3> QED
      BY <1>4, <3>1, <3>2
  <2> QED
    BY <1>5, <2>1, <2>2, SameElements
<1>7. Total(u) = Total(Parts(quoted)) + PartUnits(quote) /\ Total(Parts(quoted)) \in Nat
  BY <1>1, <1>2, TotalAppend DEF u
<1> QED
  BY <1>1, <1>6, <1>7 DEF more

\* Of equal sources there is a first.
LEMMA FirstEqual ==
    ASSUME NEW sources \in Seq(Candidate), NEW j \in 1..Len(sources)
    PROVE  \E m \in New(sources) : m <= j /\ sources[m] = sources[j]
<1> DEFINE T == {m \in 1..j : sources[m] = sources[j]}
           least == Min(T)
<1>1. j \in Nat /\ Len(sources) \in Nat /\ DOMAIN sources = 1..Len(sources) /\ j \in T
  BY Places
<1>2. T \in SUBSET (0..j)
  BY <1>1
<1>3. least \in T /\ \A y \in T : least <= y
  <2> HIDE DEF T
  <2> QED
    BY <1>1, <1>2, LeastGreatest
<1> HIDE DEF least
<1>4. least \in 1..j /\ sources[least] = sources[j]
  BY <1>3
<1>5. ASSUME NEW k \in 1..(least - 1) PROVE sources[k] # sources[least]
  <2>1. k \in 1..j /\ ~ (least <= k)
    BY <1>1, <1>4
  <2>2. k \notin T
    BY <1>3, <2>1
  <2> QED
    BY <1>4, <2>1, <2>2
<1>6. least \in New(sources)
  BY <1>1, <1>4, <1>5 DEF New
<1> QED
  BY <1>1, <1>4, <1>6

\* The context after i sources: its quotes are the first of the sources that
\* differ, but for the last one whole, and within the budget.
Whole(quoted, sources, j) == WholeOrBlank(quoted[j].content, sources[quoted[j].source].content)
Best(quoted, sources, j) ==
    /\ quoted[j].source \in New(sources)
    /\ {n \in New(sources) : n < quoted[j].source} = {quoted[k].source : k \in 1..(j - 1)}
    /\ IsPrefix(quoted[j].content, sources[quoted[j].source].content)

Chosen(quoted, seen, used, sources, maxSources, maxUnits) ==
    /\ used = Total(Parts(quoted)) /\ used <= maxUnits
    /\ Len(quoted) <= maxSources
    /\ seen = {quoted[j].source : j \in 1..Len(quoted)}
    /\ \A j \in 1..Len(quoted) : Best(quoted, sources, j)
    /\ \A j \in 1..Len(quoted) : ~Whole(quoted, sources, j) => j = Len(quoted) /\ used + 4 > maxUnits

Gathered(acc, sources, i, maxSources, maxUnits) ==
    /\ acc \in Gathering
    /\ Chosen(acc.quoted, acc.seen, acc.used, sources, maxSources, maxUnits)
    /\ acc.seen \subseteq 1..i
    /\ ~acc.done /\ Len(acc.quoted) < maxSources => acc.seen = {n \in New(sources) : n <= i}

\* A further source keeps it so.
LEMMA SourceGathered ==
    ASSUME NEW sources \in Seq(Candidate), NEW i \in 1..Len(sources),
           NEW maxSources \in Nat, NEW maxUnits \in Nat, NEW acc,
           Gathered(acc, sources, i - 1, maxSources, maxUnits)
    PROVE  Gathered(QuoteSource(acc, sources, i, maxSources, maxUnits), sources, i, maxSources, maxUnits)
<1> DEFINE new == QuoteSource(acc, sources, i, maxSources, maxUnits)
           n == Len(acc.quoted)
           pass == Passed(acc, sources, i, maxSources)
<1>1. /\ acc \in Gathering /\ acc.quoted \in Seq(Quote) /\ acc.used \in Nat /\ acc.seen \in SUBSET Nat
      /\ acc.used = Total(Parts(acc.quoted)) /\ acc.used <= maxUnits
      /\ n <= maxSources
      /\ acc.seen = {acc.quoted[j].source : j \in 1..n} /\ acc.seen \subseteq 1..(i - 1)
      /\ ~acc.done /\ n < maxSources => acc.seen = {m \in New(sources) : m <= i - 1}
      /\ \A j \in 1..n : Best(acc.quoted, sources, j)
      /\ \A j \in 1..n : ~Whole(acc.quoted, sources, j) => j = n /\ acc.used + 4 > maxUnits
  BY DEF Gathered, Gathering, Chosen
<1>a. Chosen(acc.quoted, acc.seen, acc.used, sources, maxSources, maxUnits)
  BY DEF Gathered
<1>2. i \in Nat /\ n \in Nat /\ Len(sources) \in Nat /\ DOMAIN sources = 1..Len(sources)
  BY <1>1, Places
<1>3. /\ new \in Gathering
      /\ \/ new = acc /\ pass
         \/ /\ ~pass /\ new.done
            /\ new.quoted = acc.quoted /\ new.seen = acc.seen /\ new.used = acc.used
         \/ ~pass /\ \E kept \in Excerpt : Kept(acc, sources, i, maxUnits, kept) /\ QuoteAdded(acc, new, i, kept)
  BY <1>1, SourceQuoted
<1>4. acc.seen \subseteq 1..i
  <2>1. \A k \in 1..(i - 1) : k \in 1..i
    BY <1>2
  <2> QED
    BY <1>1, <2>1
<1> HIDE DEF new
<1>5. ASSUME new = acc, pass
      PROVE  Gathered(new, sources, i, maxSources, maxUnits)
  <2>1. ASSUME ~acc.done, n < maxSources PROVE acc.seen = {m \in New(sources) : m <= i}
    <3>1. n # maxSources
      BY <1>1, <1>2, <2>1
    <3>2. PICK j \in acc.seen : sources[j] = sources[i]
      BY <1>5, <2>1, <3>1 DEF Passed, pass
    <3>3. j \in 1..(i - 1)
      BY <1>1
    <3>4. i \notin New(sources)
      BY <1>1, <3>2, <3>3 DEF New
    <3>5. \A m \in New(sources) : m \in 1..Len(sources)
      BY <1>2 DEF New
    <3>6. \A m \in New(sources) : m <= i <=> m <= i - 1
      BY <1>2, <3>4, <3>5
    <3> QED
      BY <1>1, <2>1, <3>6
  <2> HIDE DEF pass
  <2> QED
    BY <1>1, <1>4, <1>5, <1>a, <2>1 DEF Gathered
<1>6. ASSUME new.done, new.quoted = acc.quoted, new.seen = acc.seen, new.used = acc.used
      PROVE  Gathered(new, sources, i, maxSources, maxUnits)
  BY <1>3, <1>4, <1>6, <1>a DEF Gathered
<1>7. ASSUME ~pass, NEW kept \in Excerpt, Kept(acc, sources, i, maxUnits, kept), QuoteAdded(acc, new, i, kept)
      PROVE  Gathered(new, sources, i, maxSources, maxUnits)
  <2> DEFINE quote == [source |-> i, content |-> kept]
             more == Append(acc.quoted, quote)
  <2>1. quote \in Quote /\ quote.source = i /\ quote.content = kept
    BY <1>2 DEF Quote
  <2>2. new.quoted = more /\ new.seen = acc.seen \cup {i} /\ new.used = acc.used + CitationUnits(i) + Units(kept)
    BY <1>7 DEF QuoteAdded
  <2> HIDE DEF quote
  <2>3. more \in Seq(Quote) /\ Len(more) = n + 1 /\ more[n + 1] = quote /\ \A j \in 1..n : more[j] = acc.quoted[j]
    BY <1>1, <2>1, Appended
  <2>4. /\ ~acc.done /\ n # maxSources /\ \A j \in acc.seen : sources[j] # sources[i]
    BY <1>7 DEF Passed, pass
  <2>5. n < maxSources
    BY <1>1, <1>2, <2>4
  <2>6. acc.seen = {m \in New(sources) : m <= i - 1}
    BY <1>1, <2>4, <2>5
  <2>7. new.used = Total(Parts(more)) /\ new.used \in Nat
    <3>1. Total(Parts(more)) = Total(Parts(acc.quoted)) + PartUnits(quote) /\ PartUnits(quote) \in Nat
      BY <1>1, <2>1, PartsAppend
    <3>2. PartUnits(quote) = CitationUnits(i) + Units(kept)
      BY <2>1 DEF PartUnits
    <3>3. CitationUnits(i) \in Nat /\ Units(kept) \in Nat
      BY <1>2, <1>7, CitationCost DEF Kept
    <3> HIDE DEF more
    <3> QED
      BY <1>1, <2>2, <3>1, <3>2, <3>3
  <2>8. new.used <= maxUnits /\ (~WholeOrBlank(kept, sources[i].content) => new.used + 4 > maxUnits)
    BY <1>7, <2>2 DEF Kept
  <2>9. \A j \in 1..n : Whole(acc.quoted, sources, j)
    <3>1. CitationUnits(i) >= 5 /\ CitationUnits(i) \in Nat
      BY <1>2, CitationCost
    <3>2. acc.used + CitationUnits(i) < maxUnits
      BY <1>7 DEF Kept
    <3>3. ~ (acc.used + 4 > maxUnits)
      BY <1>1, <3>1, <3>2
    <3> QED
      BY <1>1, <3>3
  <2> HIDE DEF more, n
  <2>10. \A j \in 1..(n + 1) : j = n + 1 \/ j \in 1..n
    BY <1>2
  <2>11. \A j \in 1..n : j \in 1..(n + 1)
    BY <1>2
  <2>a. n + 1 \in 1..(n + 1) /\ n + 1 <= maxSources
    BY <1>2, <2>5
  <2>12. acc.seen \cup {i} = {more[j].source : j \in 1..(n + 1)}
    BY <1>1, <2>1, <2>3, <2>10, <2>11, <2>a
  <2>13. i \in New(sources)
    <3>1. ASSUME NEW j \in 1..(i - 1), sources[j] = sources[i] PROVE FALSE
      <4>1. j \in 1..Len(sources)
        BY <1>2
      <4>2. PICK m \in New(sources) : m <= j /\ sources[m] = sources[j]
        BY <4>1, FirstEqual
      <4>3. m <= i - 1
        <5>1. m \in 1..Len(sources)
          BY <1>2 DEF New
        <5> QED
          BY <1>2, <4>2, <5>1
      <4>4. m \in acc.seen
        BY <2>6, <4>3
      <4> QED
        BY <2>4, <3>1, <4>2, <4>4
    <3> QED
      BY <1>2, <3>1 DEF New
  <2>14. \A m \in New(sources) : m \in Nat
    BY <1>2 DEF New
  <2>15. acc.seen \cup {i} = {m \in New(sources) : m <= i}
    <3>1. \A m \in New(sources) : m <= i <=> (m <= i - 1 \/ m = i)
      BY <1>2, <2>14
    <3> QED
      BY <2>6, <2>13, <3>1
  <2>16. \A j \in 1..(n + 1) : Best(more, sources, j)
    <3>1. ASSUME NEW j \in 1..n PROVE Best(more, sources, j)
      <4>1. \A k \in 1..(j - 1) : k \in 1..n
        BY <1>2
      <4>2. Best(acc.quoted, sources, j) /\ more[j] = acc.quoted[j]
        BY <1>1, <2>3
      <4>3. {more[k].source : k \in 1..(j - 1)} = {acc.quoted[k].source : k \in 1..(j - 1)}
        BY <2>3, <4>1
      <4> QED
        BY <4>2, <4>3 DEF Best
    <3>2. Best(more, sources, n + 1)
      <4>1. (n + 1) - 1 = n
        BY <1>2
      <4>2. {more[k].source : k \in 1..n} = acc.seen
        BY <1>1, <2>3
      <4>3. {m \in New(sources) : m < i} = acc.seen
        <5>1. \A m \in New(sources) : m < i <=> m <= i - 1
          BY <1>2, <2>14
        <5> QED
          BY <2>6, <5>1
      <4>4. IsPrefix(kept, sources[i].content)
        BY <1>7 DEF Kept
      <4> QED
        BY <2>1, <2>3, <2>13, <4>1, <4>2, <4>3, <4>4 DEF Best
    <3> QED
      BY <2>10, <3>1, <3>2
  <2>17. \A j \in 1..(n + 1) : ~Whole(more, sources, j) => j = n + 1 /\ new.used + 4 > maxUnits
    <3>1. \A j \in 1..n : Whole(more, sources, j)
      BY <2>3, <2>9 DEF Whole
    <3>2. ~Whole(more, sources, n + 1) => new.used + 4 > maxUnits
      BY <2>1, <2>3, <2>8 DEF Whole
    <3> QED
      BY <2>10, <3>1, <3>2
  <2>18. acc.seen \cup {i} \subseteq 1..i
    BY <1>2, <1>4
  <2>19. Chosen(more, acc.seen \cup {i}, new.used, sources, maxSources, maxUnits)
    BY <2>3, <2>7, <2>8, <2>12, <2>16, <2>17, <2>a DEF Chosen
  <2> QED
    BY <1>3, <2>2, <2>15, <2>18, <2>19 DEF Gathered
<1> QED
  BY <1>3, <1>5, <1>6, <1>7 DEF new

\* The run of the loop over the sources.
LEMMA QuotingLoop ==
    ASSUME NEW in, in.sources \in Seq(Candidate), in.maxSources \in Nat, in.maxTokens \in Nat
    PROVE  \E g \in [0..Len(in.sources) -> Gathering] :
               /\ g[0] = NoQuotes
               /\ \A k \in 1..Len(in.sources) :
                     g[k] = QuoteSource(g[k - 1], in.sources, k, in.maxSources, 4 * in.maxTokens)
               /\ BuildContext(in) = g[Len(in.sources)].quoted
<1> DEFINE n == Len(in.sources)
           Step(s, k) == QuoteSource(s, in.sources, k, in.maxSources, 4 * in.maxTokens)
           A == [t \in Gathering \X (1..n) |-> Step(t[1], t[2])]
           F(g) == [k \in 0..n |-> IF k = 0 THEN NoQuotes ELSE Step(g[k - 1], k)]
           acc == CHOOSE g : g = F(g)
<1>1. n \in Nat
  BY Places
<1>2. \A s \in Gathering, k \in 1..n : Step(s, k) \in Gathering
  <2>1. 4 * in.maxTokens \in Nat
    OBVIOUS
  <2> QED
    BY <2>1, SourceQuoted
<1>3. NoQuotes \in Gathering
  BY DEF NoQuotes, Gathering
<1>9. BuildContext(in) = acc[n].quoted
  BY DEF BuildContext
<1> HIDE DEF n, Step
<1>4. Rounds(A, Gathering, n) /\ \A s \in Gathering, k \in 1..n : A[<<s, k>>] = Step(s, k)
  BY <1>2 DEF Rounds
<1> HIDE DEF A
<1>a. HasRun(A, Gathering, n, NoQuotes)
  BY <1>1, <1>3, <1>4, LoopExists
<1>5. PICK g \in [0..n -> Gathering] : g[0] = NoQuotes /\ \A k \in 1..n : g[k] = A[<<g[k - 1], k>>]
  BY <1>a DEF HasRun
<1>6. ASSUME NEW k \in 1..n PROVE g[k] = Step(g[k - 1], k)
  <2>1. k - 1 \in 0..n
    BY <1>1
  <2> QED
    BY <1>4, <1>5, <2>1
<1>7. g = F(g)
  <2>1. \A k \in 0..n : k = 0 \/ k \in 1..n
    BY <1>1
  <2> QED
    BY <1>5, <1>6, <2>1
<1>8. acc = F(acc)
  BY <1>7
<1> HIDE DEF acc
<1> DEFINE S == {k \in 0..n : acc[k] = g[k]}
<1>10. \A k \in 0..n : k \in S
  <2>1. 0 \in S
    BY <1>1, <1>5, <1>8
  <2>2. \A k \in 1..n : k - 1 \in S => k \in S
    BY <1>1, <1>6, <1>8
  <2> HIDE DEF S
  <2> QED
    BY <1>1, <2>1, <2>2, LoopInduction
<1>11. acc[n] = g[n]
  BY <1>1, <1>10
<1> QED
  BY <1>5, <1>6, <1>9, <1>11 DEF n, Step

\* The context quotes the best sources, within its budget.
THEOREM ContextGathered ==
    ASSUME NEW in, in.sources \in Seq(Candidate), in.maxSources \in Nat, in.maxTokens \in Nat
    PROVE  \E seen, used : Chosen(BuildContext(in), seen, used, in.sources, in.maxSources, 4 * in.maxTokens)
                           /\ BuildContext(in) \in Seq(Quote)
<1> DEFINE n == Len(in.sources)
           units == 4 * in.maxTokens
           Inv(acc, k) == Gathered(acc, in.sources, k, in.maxSources, units)
<1>1. n \in Nat /\ DOMAIN in.sources = 1..n /\ units \in Nat
  BY Places
<1>2. PICK g \in [0..n -> Gathering] :
          /\ g[0] = NoQuotes
          /\ \A k \in 1..n : g[k] = QuoteSource(g[k - 1], in.sources, k, in.maxSources, units)
          /\ BuildContext(in) = g[n].quoted
  BY QuotingLoop
<1>3. Inv(NoQuotes, 0)
  <2>1. NoQuotes \in Gathering
    BY DEF NoQuotes, Gathering
  <2>2. Len(<<>>) = 0 /\ 1..0 = {}
    OBVIOUS
  <2>3. Total(Parts(<<>>)) = 0
    <3>1. Parts(<<>>) = <<>>
      BY DEF Parts
    <3> QED
      BY <3>1, TotalEmpty
  <2>4. Chosen(<<>>, {}, 0, in.sources, in.maxSources, units)
    BY <1>1, <2>2, <2>3 DEF Chosen
  <2>5. \A m \in New(in.sources) : ~ (m <= 0)
    BY <1>1 DEF New
  <2>6. NoQuotes.quoted = <<>> /\ NoQuotes.seen = {} /\ NoQuotes.used = 0 /\ NoQuotes.done = FALSE
    BY DEF NoQuotes
  <2> HIDE DEF units
  <2> QED
    BY <2>1, <2>4, <2>5, <2>6 DEF Gathered
<1> HIDE DEF n, units
<1>4. ASSUME NEW k \in 1..n, Inv(g[k - 1], k - 1) PROVE Inv(g[k], k)
  BY <1>1, <1>2, <1>4, SourceGathered DEF n
<1> HIDE DEF Inv
<1> DEFINE S == {k \in 0..n : Inv(g[k], k)}
<1>5. \A k \in 0..n : k \in S
  <2>1. 0 \in S
    BY <1>1, <1>2, <1>3
  <2>2. \A k \in 1..n : k - 1 \in S => k \in S
    BY <1>1, <1>4
  <2> HIDE DEF S
  <2> QED
    BY <1>1, <2>1, <2>2, LoopInduction
<1>6. Inv(g[n], n)
  BY <1>1, <1>5
<1>7. g[n] \in Gathering /\ Chosen(g[n].quoted, g[n].seen, g[n].used, in.sources, in.maxSources, units)
  BY <1>6 DEF Inv, Gathered
<1>8. g[n].quoted \in Seq(Quote)
  BY <1>7 DEF Gathering
<1> QED
  BY <1>2, <1>7, <1>8 DEF units

\* The sources, how many of them and the budget are what the theorem takes.
LEMMA ContextSafe ==
    ASSUME input \in Quotes
    PROVE  ContextBounded /\ BestQuoted
<1>1. input.sources \in Seq(Candidate) /\ input.maxSources \in Nat /\ input.maxTokens \in Nat
  <2> DEFINE Q == BoundedSeq([doc : 1..2, content : Excerpts], MaxSources)
  <2>q. Quotes = {[kind |-> "quote", sources |-> q, maxSources |-> m, maxTokens |-> t] :
                     q \in Q, m \in 1..MaxSources, t \in Budgets}
    BY DEF Quotes
  <2> HIDE DEF Q
  <2>a. PICK q \in Q, m \in 1..MaxSources, t \in Budgets :
            input = [kind |-> "quote", sources |-> q, maxSources |-> m, maxTokens |-> t]
    BY <2>q
  <2>b. input.sources \in Q /\ input.maxSources \in 1..MaxSources /\ input.maxTokens \in Budgets
    BY <2>a
  <2>1. /\ input.sources \in BoundedSeq([doc : 1..2, content : Excerpts], MaxSources)
        /\ input.maxSources \in 1..MaxSources /\ input.maxTokens \in Budgets
    BY <2>b DEF Q
  <2>2. PICK k \in 0..MaxSources : input.sources \in [1..k -> [doc : 1..2, content : Excerpts]]
    BY <2>1 DEF BoundedSeq, SeqOf
  <2>3. [doc : 1..2, content : Excerpts] \subseteq Candidate
    BY PipelineAssumption DEF Candidate, Excerpt, Symbol
  <2>4. input.sources \in Seq(Candidate)
    BY <2>2, <2>3, PipelineAssumption
  <2> QED
    BY <2>1, <2>4, PipelineAssumption
<1>2. PICK seen, used : /\ Chosen(Quoted, seen, used, input.sources, input.maxSources, 4 * input.maxTokens)
                        /\ Quoted \in Seq(Quote)
  BY <1>1, ContextGathered DEF Quoted
<1>3. DOMAIN Quoted = 1..Len(Quoted) /\ Len(Quoted) \in Nat
  BY <1>2, Places
<1>4. ContextBounded
  BY <1>2 DEF ContextBounded, Chosen, Parts
<1>5. BestQuoted
  <2>1. Len(Quoted) <= input.maxSources
    BY <1>2 DEF Chosen
  <2>2. ASSUME NEW i \in DOMAIN Quoted
        PROVE  /\ Best(Quoted, input.sources, i)
               /\ i < Len(Quoted) => Whole(Quoted, input.sources, i)
    <3>1. i \in 1..Len(Quoted) /\ i \in Nat
      BY <1>3
    <3>2. i < Len(Quoted) => i # Len(Quoted)
      BY <1>3, <3>1
    <3> QED
      BY <1>2, <3>1, <3>2 DEF Chosen
  <2> QED
    BY <2>1, <2>2 DEF BestQuoted, Best, Whole, WholeOrBlank
<1> QED
  BY <1>4, <1>5

----------------------------------------------------------------------------
(* The specification.                                                       *)

PureTypeOK ==
    /\ input \in {NoInput} \cup Texts \cup Lines \cup Batches \cup Quotes
    /\ asked \in {NoFilter} \cup Questions

\* What the inputs promise of their algorithm.
LEMMA PureTyped ==
    ASSUME PureTypeOK
    PROVE  PureInv
<1>1. FilterInv
  BY FilterSafe DEF PureTypeOK
<1>2. CASE input = NoInput
  BY <1>1, <1>2 DEF PureInv, TextInv, TextKept, ChunksBounded, LinesKept, PathsEnclose, EmbeddedInOrder,
                    ContextBounded, BestQuoted, Quoting, NoInput
<1>3. CASE input \in Texts
  <2>1. input.kind = "text"
    BY <1>3 DEF Texts
  <2>2. LinesKept /\ PathsEnclose /\ EmbeddedInOrder /\ ContextBounded /\ BestQuoted
    BY <2>1 DEF LinesKept, PathsEnclose, EmbeddedInOrder, ContextBounded, BestQuoted, Quoting
  <2> QED
    BY <1>1, <1>3, <2>2, ChunksSafe DEF PureInv, TextInv
<1>4. CASE input \in Lines
  <2>1. input.kind = "lines"
    BY <1>4 DEF Lines
  <2>2. TextKept /\ ChunksBounded /\ EmbeddedInOrder /\ ContextBounded /\ BestQuoted
    BY <2>1 DEF TextKept, ChunksBounded, EmbeddedInOrder, ContextBounded, BestQuoted, Quoting
  <2> QED
    BY <1>1, <1>4, <2>2, SectionsSafe DEF PureInv, TextInv
<1>5. CASE input \in Batches
  <2>1. input.kind = "batch"
    BY <1>5 DEF Batches
  <2>2. TextKept /\ ChunksBounded /\ LinesKept /\ PathsEnclose /\ ContextBounded /\ BestQuoted
    BY <2>1 DEF TextKept, ChunksBounded, LinesKept, PathsEnclose, ContextBounded, BestQuoted, Quoting
  <2> QED
    BY <1>1, <1>5, <2>2, EmbeddingSafe DEF PureInv, TextInv
<1>6. CASE input \in Quotes
  <2>1. input.kind = "quote"
    BY <1>6 DEF Quotes
  <2>2. TextKept /\ ChunksBounded /\ LinesKept /\ PathsEnclose /\ EmbeddedInOrder
    BY <2>1 DEF TextKept, ChunksBounded, LinesKept, PathsEnclose, EmbeddedInOrder
  <2> QED
    BY <1>1, <1>6, <2>2, ContextSafe DEF PureInv, TextInv
<1> QED
  BY <1>2, <1>3, <1>4, <1>5, <1>6 DEF PureTypeOK

\* The inputs are drawn from their sets.
LEMMA PureInitial == PureInit => PureTypeOK
BY DEF PureInit, TextInit, FilterInit, PureTypeOK

\* And stay in them.
LEMMA PureNextOK == PureTypeOK /\ [PureNext]_<<input, asked>> => PureTypeOK'
BY DEF PureTypeOK, PureNext, TextNext, FilterNext, SplitStep, SectionStep, EmbedStep, QuoteStep

\* Chunks, sections, vectors, contexts and filters are right for every input.
THEOREM PureSafe == PureSpec => []PureInv
<1>1. PureTypeOK => PureInv
  BY PureTyped
<1> QED
  BY <1>1, PureInitial, PureNextOK, PTL DEF PureSpec
=============================================================================
