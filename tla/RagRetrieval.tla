---------------------------- MODULE RagRetrieval ----------------------------
(***************************************************************************)
(* Questions to the knowledge bases (rag/service/query_service.py).  A     *)
(* question checks which bases the asker may read, embeds the question,    *)
(* and then reads vectors, keywords and parent sections in statements of   *)
(* their own: at READ COMMITTED each sees what is committed by then, while *)
(* owners change, re-index and delete documents and bases.                 *)
(***************************************************************************)
EXTENDS Naturals, FiniteSets

CONSTANTS Base, Doc, BaseOf, \* knowledge bases and their documents
          Question,          \* questions of a user who owns no base
          Child, ParentOf,   \* the chunks of an index, and the section of each
          TopK,              \* top_k of the question
          MaxIndexes         \* bound: indexes of a document

ASSUME RetrievalAssumption ==
    /\ BaseOf \in [Doc -> Base] /\ DOMAIN ParentOf = Child
    /\ TopK \in Nat \ {0} /\ MaxIndexes \in Nat

VARIABLES kb,      \* each base: "public", "private" or "gone"
          status,  \* each document: "ready", "indexing" (PENDING, PROCESSING, FAILED), "deleting" or "gone"
          index,   \* the number of the index whose chunks a document has, 0: none
          ask,     \* what each question has read so far
          serving, \* history: the documents ready at some time since a question began
          moved    \* history: the documents re-indexed between the two searches of a question

ragQVars == <<kb, status, index, ask, serving, moved>>

Chunk  == [doc : Doc, index : 1..MaxIndexes, child : Child]
Source == [chunk : Chunk, text : {"section", "chunk"}]
Unasked == [pc |-> "new"]
Ask == [pc : {"embed", "dense", "lexical", "select", "sections", "answer"},
        bases : SUBSET Base, found : SUBSET Chunk, sources : SUBSET Source]
Answered == [pc : {"answered", "insufficient"}, bases : SUBSET Base, sources : SUBSET Source]

RetrievalTypeOK ==
    /\ kb \in [Base -> {"public", "private", "gone"}]
    /\ status \in [Doc -> {"ready", "indexing", "deleting", "gone"}]
    /\ index \in [Doc -> 0..MaxIndexes]
    /\ \A d \in Doc : status[d] = "ready" => index[d] > 0
    /\ \A q \in Question : ask[q] \in Ask \cup Answered \cup {Unasked, [pc |-> "refused"]}
    /\ serving \in [Question -> SUBSET Doc] /\ moved \in [Question -> SUBSET Doc]

RetrievalInit ==
    /\ kb = [b \in Base |-> "public"]
    /\ status = [d \in Doc |-> "indexing"] /\ index = [d \in Doc |-> 0]
    /\ ask = [q \in Question |-> Unasked]
    /\ serving = [q \in Question |-> {}] /\ moved = [q \in Question |-> {}]

Under(q) == ask[q].pc \notin {"new", "refused", "answered", "insufficient"}
Asked    == {q \in Question : Under(q)}
Stored   == <<kb, status, index>>
----------------------------------------------------------------------------
(* The owners and the indexing tasks *)

SetPublic(b) ==
    /\ kb[b] # "gone" /\ kb' = [kb EXCEPT ![b] = IF @ = "public" THEN "private" ELSE "public"]
    /\ UNCHANGED <<status, index, ask, serving, moved>>

\* A base goes, and all its documents are to be deleted.
DeleteBase(b) ==
    /\ kb[b] # "gone" /\ kb' = [kb EXCEPT ![b] = "gone"]
    /\ status' = [d \in Doc |-> IF BaseOf[d] = b /\ status[d] # "gone" THEN "deleting" ELSE status[d]]
    /\ UNCHANGED <<index, ask, serving, moved>>

\* retry asks for the base and for a row that is not deleted, not for its
\* status.  It may have found the base just before it was deleted, as may a
\* request to delete.
RetryDocument(d) ==
    /\ status[d] \in {"ready", "deleting"}
    /\ status' = [status EXCEPT ![d] = "indexing"]
    /\ UNCHANGED <<kb, index, ask, serving, moved>>

RequestDelete(d) ==
    /\ status[d] \in {"ready", "indexing"}
    /\ status' = [status EXCEPT ![d] = "deleting"]
    /\ UNCHANGED <<kb, index, ask, serving, moved>>

\* index_content replaces all chunks and sets READY in one transaction.
IndexDocument(d) ==
    /\ status[d] = "indexing" /\ index[d] < MaxIndexes
    /\ status' = [status EXCEPT ![d] = "ready"] /\ index' = [index EXCEPT ![d] = @ + 1]
    /\ serving' = [q \in Question |-> IF q \in Asked THEN serving[q] \cup {d} ELSE serving[q]]
    /\ moved' = [q \in Question |-> IF ask[q].pc = "lexical" THEN moved[q] \cup {d} ELSE moved[q]]
    /\ UNCHANGED <<kb, ask>>

EraseDocument(d) ==
    /\ status[d] = "deleting" /\ status' = [status EXCEPT ![d] = "gone"]
    /\ index' = [index EXCEPT ![d] = 0]
    /\ UNCHANGED <<kb, ask, serving, moved>>
----------------------------------------------------------------------------
(* retrieve and answer *)

Readable == {b \in Base : kb[b] = "public"}

\* _accessible_kb_ids: those of the requested bases the asker may read.
BeginAsk(q, bases) ==
    /\ ask[q].pc = "new"
    /\ LET may == bases \cap Readable IN
       ask' = [ask EXCEPT ![q] = IF may = {} THEN [pc |-> "refused"]
                                 ELSE [pc |-> "embed", bases |-> may, found |-> {}, sources |-> {}]]
    /\ serving' = [serving EXCEPT ![q] = {d \in Doc : status[d] = "ready"}]
    /\ UNCHANGED <<Stored, moved>>

\* The embedding of the question, or of the rest: a failure ends the request.
Embed(q) ==
    /\ ask[q].pc = "embed" /\ ask' = [ask EXCEPT ![q].pc = "dense"]
    /\ UNCHANGED <<Stored, serving, moved>>

AskFails(q) ==
    /\ ask[q].pc \in {"embed", "answer"} /\ ask' = [ask EXCEPT ![q] = [pc |-> "refused"]]
    /\ serving' = [serving EXCEPT ![q] = {}] /\ moved' = [moved EXCEPT ![q] = {}]
    /\ UNCHANGED Stored

\* Mutant: the chunks of an earlier index are still there.
SearchableOldRows(q) ==
    {c \in Chunk : /\ c.index <= index[c.doc] /\ status[c.doc] = "ready"
                   /\ BaseOf[c.doc] \in ask[q].bases}

\* The chunks both searches choose from: of documents that are READY now, in
\* the bases chosen at the beginning.
Searchable(q) ==
    {c \in Chunk : /\ c.index = index[c.doc] /\ status[c.doc] = "ready"
                   /\ BaseOf[c.doc] \in ask[q].bases}

DenseSearch(q) ==
    /\ ask[q].pc = "dense"
    /\ \E hits \in SUBSET Searchable(q) :
        ask' = [ask EXCEPT ![q].pc = "lexical", ![q].found = hits]
    /\ UNCHANGED <<Stored, serving, moved>>

\* Both result lists are merged by the number of the chunk.
LexicalSearch(q) ==
    /\ ask[q].pc = "lexical"
    /\ \E hits \in SUBSET Searchable(q) :
        ask' = [ask EXCEPT ![q].pc = "select", ![q].found = @ \cup hits]
    /\ UNCHANGED <<Stored, serving, moved>>

SectionOf(c) == <<c.doc, c.index, ParentOf[c.child]>>

\* Fusion and reranking put the chunks in some order (whatever the reranker
\* answers, or without it); then the first chunk of each section is kept,
\* until there are TopK.
SelectContext(q) ==
    /\ ask[q].pc = "select"
    /\ \E kept \in SUBSET ask[q].found :
        /\ Cardinality(kept) <= TopK
        /\ \A c, e \in kept : SectionOf(c) = SectionOf(e) => c = e
        /\ Cardinality(kept) < TopK => \A c \in ask[q].found : \E e \in kept : SectionOf(c) = SectionOf(e)
        /\ ask' = [ask EXCEPT ![q].pc = "sections", ![q].found = kept]
    /\ UNCHANGED <<Stored, serving, moved>>

\* _get_parent_content: the sections whose rows are still there; a chunk whose
\* section has been replaced meanwhile is shown itself.
ReadSections(q) ==
    /\ ask[q].pc = "sections"
    /\ ask' = [ask EXCEPT ![q].pc = "answer", ![q].found = {}, ![q].sources =
                 {[chunk |-> c, text |-> IF c.index = index[c.doc] THEN "section" ELSE "chunk"] :
                     c \in ask[q].found}]
    /\ UNCHANGED <<Stored, serving, moved>>

\* answer: without sources, or without the evidence the question asks for,
\* the model is not asked and no source is named.
Answer(q) ==
    /\ ask[q].pc = "answer"
    /\ \/ /\ ask[q].sources # {}
          /\ ask' = [ask EXCEPT ![q] = [pc |-> "answered", bases |-> @.bases, sources |-> @.sources]]
       \/ ask' = [ask EXCEPT ![q] = [pc |-> "insufficient", bases |-> @.bases, sources |-> {}]]
    /\ UNCHANGED <<Stored, serving, moved>>

RetrievalNext ==
    \/ \E b \in Base : SetPublic(b) \/ DeleteBase(b)
    \/ \E d \in Doc : RetryDocument(d) \/ RequestDelete(d) \/ IndexDocument(d) \/ EraseDocument(d)
    \/ \E q \in Question :
        \/ \E bases \in SUBSET Base : BeginAsk(q, bases)
        \/ Embed(q) \/ AskFails(q) \/ DenseSearch(q) \/ LexicalSearch(q)
        \/ SelectContext(q) \/ ReadSections(q) \/ Answer(q)
----------------------------------------------------------------------------
Cited(q) == IF "sources" \in DOMAIN ask[q] THEN {s.chunk : s \in ask[q].sources} ELSE {}

\* However the statements of a question interleave with deletions and with new
\* indexes, it names only documents that were ready at some time since it
\* began, of bases the asker could read when it began.
SourcesServed ==
    \A q \in Question : \A c \in Cited(q) : c.doc \in serving[q] /\ BaseOf[c.doc] \in ask[q].bases

\* The sources of one document come from one index, unless the document was
\* indexed again between the two searches: merging their results by the number
\* of the chunk does not notice that a row of the first is gone.
OneIndexEach ==
    \A q \in Question : \A c, e \in Cited(q) :
        c.doc = e.doc /\ c.doc \notin moved[q] => c.index = e.index

\* No section is shown twice, and no more sources than were asked for.
SectionsOnce ==
    \A q \in Question : /\ \A c, e \in Cited(q) : SectionOf(c) = SectionOf(e) => c = e
                        /\ Cardinality(Cited(q)) <= TopK

\* What a question cites was there to be cited.
RetrievalInv ==
    /\ RetrievalTypeOK /\ SourcesServed /\ OneIndexEach /\ SectionsOnce
=============================================================================
