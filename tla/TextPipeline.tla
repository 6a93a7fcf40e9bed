---------------------------- MODULE TextPipeline ----------------------------
(***************************************************************************)
(* The pure functions a document and a question go through: sections and   *)
(* overlapping chunks of a text, embedding in batches that are halved when *)
(* the provider refuses them, and the bounded context of an answer.  Every *)
(* step of the specification draws a bounded input, and the properties     *)
(* compare what the functions make of it with what they are meant to do.   *)
(* A text is its paragraphs, a paragraph its characters, numbered and none *)
(* of them blank; an excerpt is the kinds of its characters.               *)
(***************************************************************************)
EXTENDS Integers, Sequences, SequencesExt

CONSTANTS MaxParagraphs, MaxLength, ChunkSizes, Overlaps, \* bounds of the texts to split
          MaxLines,                                       \* of the texts to cut into sections
          MaxTexts, Limits,                               \* of the batches to embed
          MaxSources, Excerpts, Budgets                   \* of the sources to quote

VARIABLE input

ASSUME PipelineAssumption ==
    /\ {MaxParagraphs, MaxLength, MaxLines, MaxTexts, MaxSources} \subseteq Nat
    /\ ChunkSizes \cup Limits \cup Budgets \subseteq Nat \ {0} /\ Overlaps \subseteq Nat
    /\ Excerpts \subseteq Seq({"blank", "latin", "chinese"})

NoInput == [kind |-> "none"]

----------------------------------------------------------------------------
(* split_text *)

NewLines == <<<<0, 0>>, <<0, 0>>>>
Paragraph(i, n) == [k \in 1..n |-> <<i, k>>]
Ends(s, n) == SubSeq(s, IF n < Len(s) THEN Len(s) - n + 1 ELSE 1, Len(s))

Strip(s) ==
    LET solid == {i \in DOMAIN s : s[i] # <<0, 0>>} IN
    IF solid = {} THEN <<>> ELSE SubSeq(s, Min(solid), Max(solid))

\* Slices of a paragraph that is longer than a chunk.
Slices(p, size, overlap) ==
    LET step == Max({size - overlap, 1}) IN
    [i \in 1..((Len(p) + step - 1) \div step) |->
        SubSeq(p, (i - 1) * step + 1, Min({(i - 1) * step + size, Len(p)}))]

\* The chunks, with the open one, and what one paragraph makes of them.
NoChunks == [chunks |-> <<>>, current |-> <<>>]
ClosedChunks(acc) == acc.chunks \o IF acc.current = <<>> THEN <<>> ELSE <<acc.current>>

AddParagraph(acc, p, size, overlap) ==
    LET joined == Strip(acc.current \o NewLines \o p)
    IN  IF Len(p) > size THEN [chunks |-> ClosedChunks(acc) \o Slices(p, size, overlap), current |-> <<>>]
        ELSE IF Len(joined) <= size THEN [acc EXCEPT !.current = joined]
        ELSE [chunks |-> Append(acc.chunks, acc.current),
              current |-> IF overlap = 0 THEN p ELSE Strip(Ends(acc.current, overlap) \o NewLines \o p)]

SplitText(lengths, size, overlap) ==
    LET acc[i \in 0..Len(lengths)] ==
            IF i = 0 THEN NoChunks ELSE AddParagraph(acc[i - 1], Paragraph(i, lengths[i]), size, overlap)
    IN  ClosedChunks(acc[Len(lengths)])

----------------------------------------------------------------------------
(* split_parent_child_text: a line is a heading of a level, the mark of a  *)
(* page or plain text                                                      *)

\* A page begins a path of its own, as a heading of the first level does.
Level(line) == CASE line \in {"h1", "page"} -> 1 [] line = "h2" -> 2 [] line = "h3" -> 3 [] OTHER -> 0
Marks(line) == line # "text"

\* The path of headings, by their lines, once line i opens a section.
HeadingPath(path, line, i) == Append(SubSeq(path, 1, Min({Level(line) - 1, Len(path)})), i)

\* The sections, with the open one.
NoSections == [sections |-> <<>>, path |-> <<>>, lines |-> <<>>]
ClosedSections(acc) ==
    IF acc.lines = <<>> THEN acc.sections ELSE Append(acc.sections, [path |-> acc.path, lines |-> acc.lines])

\* Mutant: the heading of a section is not part of its text.
AddLineAfter(acc, line, i) ==
    IF Marks(line)
    THEN [sections |-> ClosedSections(acc), path |-> HeadingPath(acc.path, line, i), lines |-> <<>>]
    ELSE [acc EXCEPT !.lines = Append(@, i)]

AddLine(acc, line, i) ==
    IF Marks(line)
    THEN [sections |-> ClosedSections(acc), path |-> HeadingPath(acc.path, line, i), lines |-> <<i>>]
    ELSE [acc EXCEPT !.lines = Append(@, i)]

SplitSections(text) ==
    LET acc[i \in 0..Len(text)] == IF i = 0 THEN NoSections ELSE AddLine(acc[i - 1], text[i], i)
    IN  ClosedSections(acc[Len(text)])

----------------------------------------------------------------------------
(* embed_texts_in_batches: texts are numbers, the vector of a text is its  *)
(* number, no vector stands for the HTTP 400 that is raised                *)

Refused400 == <<0>>

\* The provider: it refuses a batch that is too long, or holds a bad text.
Embeds(batch, in) == Len(batch) <= in.limit /\ \A i \in DOMAIN batch : batch[i] \notin in.bad

Both(a, b) == IF a = Refused400 \/ b = Refused400 THEN Refused400 ELSE a \o b

\* Halves, until the provider takes them, or refuses a single text.
EmbedBatch(batch, in) ==
    LET embed[b \in BoundedSeq(1..MaxTexts, MaxTexts)] ==
            IF Embeds(b, in) THEN b
            ELSE IF Len(b) = 1 THEN Refused400
            ELSE LET half == Len(b) \div 2 IN Both(embed[SubSeq(b, 1, half)], embed[SubSeq(b, half + 1, Len(b))])
    IN  embed[batch]

EmbedTexts(in) ==
    LET texts == [i \in 1..in.texts |-> i]
        count == (in.texts + in.batch - 1) \div in.batch
        Batch(i) == SubSeq(texts, (i - 1) * in.batch + 1, Min({i * in.batch, in.texts}))
        vectors[i \in 0..count] == IF i = 0 THEN <<>> ELSE Both(vectors[i - 1], EmbedBatch(Batch(i), in))
    IN  vectors[count]

----------------------------------------------------------------------------
(* build_bounded_context *)

\* "[S1] ", "[S12] ": four characters and the digits of the number.
CitationUnits(i) == 5 + Cardinality({n \in 1..i : 10^n <= i})
Total(s) == LET sum[k \in 0..Len(s)] == IF k = 0 THEN 0 ELSE sum[k - 1] + s[k] IN sum[Len(s)]

\* In quarters of a token.
Units(content) == Total([k \in DOMAIN content |-> IF content[k] = "chinese" THEN 4 ELSE 1])

\* The longest beginning of an excerpt that fits, without the blanks at its end.
RightStrip(s) == SubSeq(s, 1, Max({0} \cup {k \in DOMAIN s : s[k] # "blank"}))
Truncate(content, room) ==
    RightStrip(SubSeq(content, 1, Max({k \in 0..Len(content) : Units(SubSeq(content, 1, k)) <= room})))

QuoteSource(acc, sources, i, maxSources, maxUnits) ==
    LET room == maxUnits - acc.used - CitationUnits(i)
        kept == IF room <= 0 THEN <<>> ELSE Truncate(sources[i].content, room)
        sum  == acc.used + CitationUnits(i) + Units(kept)
    IN  IF acc.done \/ sources[i] \in {sources[j] : j \in acc.seen} \/ Len(acc.quoted) = maxSources THEN acc
        ELSE IF kept = <<>> THEN [acc EXCEPT !.done = TRUE]
        ELSE [quoted |-> Append(acc.quoted, [source |-> i, content |-> kept]), seen |-> acc.seen \cup {i},
              used |-> sum, done |-> sum >= maxUnits]

NoQuotes == [quoted |-> <<>>, seen |-> {}, used |-> 0, done |-> FALSE]
BuildContext(in) ==
    LET acc[i \in 0..Len(in.sources)] ==
            IF i = 0 THEN NoQuotes ELSE QuoteSource(acc[i - 1], in.sources, i, in.maxSources, 4 * in.maxTokens)
    IN  acc[Len(in.sources)].quoted

----------------------------------------------------------------------------
Texts == {[kind |-> "text", lengths |-> l, size |-> s, overlap |-> o] :
            l \in BoundedSeq(1..MaxLength, MaxParagraphs), s \in ChunkSizes, o \in Overlaps}
Lines == {[kind |-> "lines", text |-> l] : l \in BoundedSeq({"h1", "h2", "h3", "page", "text"}, MaxLines)}
Batches == {[kind |-> "batch", texts |-> n, bad |-> b, limit |-> l, batch |-> s] :
            n \in 1..MaxTexts, b \in SUBSET (1..MaxTexts), l \in Limits, s \in Limits}
Quotes == {[kind |-> "quote", sources |-> q, maxSources |-> m, maxTokens |-> t] :
            q \in BoundedSeq([doc : 1..2, content : Excerpts], MaxSources), m \in 1..MaxSources, t \in Budgets}

TextInit == input = NoInput

SplitStep   == input = NoInput /\ input' \in Texts
SectionStep == input = NoInput /\ input' \in Lines
EmbedStep   == input = NoInput /\ input' \in Batches
QuoteStep   == input = NoInput /\ input' \in Quotes

TextNext == SplitStep \/ SectionStep \/ EmbedStep \/ QuoteStep

----------------------------------------------------------------------------
Chunks == SplitText(input.lengths, input.size, input.overlap)

\* No character of a text is lost between its chunks, and a chunk holds
\* consecutive characters of it.
TextKept ==
    input.kind = "text" =>
        /\ \A i \in DOMAIN input.lengths : \A k \in 1..input.lengths[i] :
              \E c \in DOMAIN Chunks : <<i, k>> \in ToSet(Chunks[c])
        /\ \A c \in DOMAIN Chunks : \A j \in 1..(Len(Chunks[c]) - 1) :
              LET a == Chunks[c][j] b == Chunks[c][j + 1] IN
              <<0, 0>> \in {a, b} \/ (b[1] = a[1] /\ b[2] = a[2] + 1)

\* A chunk is no longer than the chunk size; but for the end of the chunk
\* before it, repeated at its beginning.
ChunksBounded ==
    input.kind = "text" =>
        \A c \in DOMAIN Chunks :
            Len(Chunks[c]) <= input.size + IF input.overlap = 0 THEN 0 ELSE input.overlap + Len(NewLines)

Sections == SplitSections(input.text)

\* The lines of the sections are the numbers from 1 to n, in order.
From(secs, i) == Head(secs[i].lines)
Until(secs, n, i) == IF i = Len(secs) THEN n ELSE From(secs, i + 1) - 1
Covers(secs, n) ==
    /\ IF secs = <<>> THEN n = 0 ELSE From(secs, 1) = 1
    /\ \A i \in DOMAIN secs :
          /\ secs[i].lines # <<>>
          /\ secs[i].lines = [k \in 1..(Until(secs, n, i) - From(secs, i) + 1) |-> From(secs, i) + k - 1]

\* Every line belongs to one section, in order, and a section with a heading
\* begins with it.
LinesKept ==
    input.kind = "lines" =>
        /\ Covers(Sections, Len(input.text))
        /\ \A i \in DOMAIN Sections :
              Sections[i].path # <<>> => Last(Sections[i].path) = Head(Sections[i].lines)

\* The lines that enclose line i: a mark above it with only deeper ones since.
Enclosing(text, i) ==
    {j \in 1..i : Marks(text[j]) /\ \A k \in (j + 1)..i : Marks(text[k]) => Level(text[k]) > Level(text[j])}

\* Where no level is skipped, the path of a section is the headings that
\* enclose it.  (Below a skipped level two headings of one level nest.)
PathsEnclose ==
    input.kind = "lines" =>
        LET Skipped(i) == {Level(input.text[j]) : j \in Enclosing(input.text, i)} # 1..Level(input.text[i])
        IN  (\A i \in DOMAIN input.text : Marks(input.text[i]) => ~Skipped(i)) =>
                \A s \in DOMAIN Sections :
                    LET first == Head(Sections[s].lines) IN
                    ToSet(Sections[s].path) = Enclosing(input.text, first)

\* The vectors are those of the texts in their order, whatever the provider
\* takes at once; only a text it refuses by itself makes the call fail.
EmbeddedInOrder ==
    input.kind = "batch" =>
        EmbedTexts(input) = IF input.bad \cap 1..input.texts = {} THEN [i \in 1..input.texts |-> i] ELSE Refused400

Quoted == BuildContext(input)
Quoting == input.kind = "quote"

PartUnits(quote) == CitationUnits(quote.source) + Units(quote.content)

\* The quoted excerpts and their citations stay within the token budget (the
\* blank lines between them are not counted).
ContextBounded ==
    Quoting => Total([i \in DOMAIN Quoted |-> PartUnits(Quoted[i])]) <= 4 * input.maxTokens

New(sources) == {i \in DOMAIN sources : \A j \in 1..(i - 1) : sources[j] # sources[i]}

\* The best sources are quoted, each once: the first that differ from those
\* before them, in order, at most so many, and only the last one cut, but for
\* a cut at a blank, which may leave room for the next.
BestQuoted ==
    Quoting =>
        /\ Len(Quoted) <= input.maxSources
        /\ \A i \in DOMAIN Quoted :
              LET quote == Quoted[i] whole == input.sources[quote.source].content IN
              /\ quote.source \in New(input.sources)
              /\ {n \in New(input.sources) : n < quote.source} = {Quoted[j].source : j \in 1..(i - 1)}
              /\ IsPrefix(quote.content, whole)
              /\ i < Len(Quoted) => quote.content = whole \/ whole[Len(quote.content) + 1] = "blank"

\* Chunks, sections, vectors and contexts keep the text.
TextInv ==
    /\ TextKept /\ ChunksBounded /\ LinesKept /\ PathsEnclose
    /\ EmbeddedInOrder /\ ContextBounded /\ BestQuoted
=============================================================================
