----------------------------- MODULE RagChunks -----------------------------
(***************************************************************************)
(* From a knowledge file to the chunks that are stored and embedded: the   *)
(* markdown loader, the normalisers, the four chunkers, the metadata       *)
(* attached to every chunk and the validators                              *)
(* (src/engine/rag/ingest).  A file is [type, lines]; a line is            *)
(* [level, words], level 0 for plain text and the number of # marks of a   *)
(* heading otherwise.  A word is a pair <<kind, number>>: the kinds tell   *)
(* apart the words the code looks for, the numbers make all words of a     *)
(* file different.                                                         *)
(***************************************************************************)
EXTENDS Integers, Sequences, FiniteSets, SequencesExt

CONSTANTS ChunkSize, ChunkOverlap, ChunkMinSize, ChunkMaxSize,
          Shapes  \* the files the chunkers are compared with the reference on

ValidChunkBounds == ChunkOverlap < ChunkSize /\ ChunkMinSize < ChunkSize

ASSUME ChunkBounds ==
    /\ ChunkOverlap \in Nat /\ ChunkMinSize \in Nat /\ ChunkMaxSize \in Nat
    /\ ChunkSize \in Nat
    /\ ValidChunkBounds

DocTypes == {"master_rulebook", "smc_framework", "snd_rulebook",
             "wyckoff_guide", "dxy_framework", "cot_interpretation_guide",
             "trading_style_rules", "macro_to_price_guide",
             "chart_scenario_library"}

NoIndex == -1

\* The token "##" or "###" a chunker writes before a heading.
Mark == <<"mark", 0>>

Headed(heading, text) == <<Mark>> \o heading \o text

\* The sequence s itself; TLC computes its elements once.
AsTuple(s) == SubSeq(s, 1, Len(s))

\* FoldLeft, in the form whose results TLC keeps for constant definitions.
Accumulate(op(_, _), base, s) ==
    LET upTo[i \in 0..Len(s)] == IF i = 0 THEN base ELSE op(upTo[i - 1], s[i])
    IN  upTo[Len(s)]

\* The sequences f(x) for the elements x of s, joined; halves first.
FlatMap(f(_), s) ==
    LET joined[i \in 1..(Len(s) + 1), j \in 0..Len(s)] ==
            CASE i > j -> <<>>
              [] i = j -> f(s[i])
              [] i < j -> joined[i, (i + j) \div 2] \o joined[((i + j) \div 2) + 1, j]
    IN  joined[1, Len(s)]

-----------------------------------------------------------------------------
(* MarkdownLoader: headings of level 1 and 2 open a section, deeper ones a *)
(* subsection.  What stands before the first section is not part of any.   *)

NoSection == [sections |-> <<>>, heading |-> <<>>, text |-> <<>>, subs |-> <<>>]

Flush(a) ==
    IF a.heading = <<>> THEN a.sections
    ELSE Append(a.sections, [heading |-> a.heading, text |-> a.text, subs |-> a.subs])

ParseLine(a, line) ==
    CASE line.level \in {1, 2} ->
            [sections |-> Flush(a), heading |-> line.words, text |-> <<>>, subs |-> <<>>]
      [] line.level > 2 ->
            [a EXCEPT !.subs = Append(@, [heading |-> line.words, text |-> <<>>])]
      [] line.level = 0 /\ a.subs # <<>> ->
            [a EXCEPT !.subs[Len(a.subs)].text = @ \o line.words]
      [] OTHER -> [a EXCEPT !.text = @ \o line.words]

ParseSections(lines) == Flush(Accumulate(ParseLine, NoSection, lines))

LoadFails(file) == \A i \in DOMAIN file.lines : file.lines[i].words = <<>>

\* The file's text as the scenario chunker sees it.
LineText(line) == IF line.level > 0 THEN <<Mark>> \o line.words ELSE line.words

Load(file) ==
    [type |-> file.type, lines |-> file.lines,
     sections |-> ParseSections(file.lines)]

\* validate_document: every document but the scenario library has sections.
DocumentValid(doc) == doc.type = "chart_scenario_library" \/ doc.sections # <<>>

-----------------------------------------------------------------------------
(* Normalisers: the macro guide's currency names are followed by the code; *)
(* the others rewrite spaces, bullets and the case of rule references.     *)

Currency(word) ==
    IF word[1] = "currency" THEN <<word, <<"code", word[2]>>>> ELSE <<word>>

CurrencyRefs(words) == FlatMap(Currency, words)

MacroSection(section) ==
    [section EXCEPT !.text = CurrencyRefs(@),
                    !.subs = [i \in DOMAIN @ |->
                        [@[i] EXCEPT !.text = CurrencyRefs(@)]]]

Normalize(doc) ==
    IF doc.type = "macro_to_price_guide"
    THEN [doc EXCEPT !.sections = [i \in DOMAIN @ |-> MacroSection(@[i])]]
    ELSE doc

-----------------------------------------------------------------------------
(* BaseChunker *)

\* Windows of ChunkSize words; each starts ChunkOverlap words before the end
\* of the one before it, and the last one ends with the text.
Stride == ChunkSize - ChunkOverlap

Windows(n) == IF n <= ChunkSize THEN 1
              ELSE 1 + ((n - ChunkSize + Stride - 1) \div Stride)

\* A loop that advances by the whole window, plus the overlap.
SplitWithGap(text) ==
    [k \in 1..Windows(Len(text)) |->
        SubSeq(text, (k - 1) * (ChunkSize + ChunkOverlap) + 1,
               IF (k - 1) * (ChunkSize + ChunkOverlap) + ChunkSize < Len(text)
               THEN (k - 1) * (ChunkSize + ChunkOverlap) + ChunkSize ELSE Len(text))]

SplitByTokenLimit(text) ==
    [k \in 1..Windows(Len(text)) |->
        SubSeq(text, (k - 1) * Stride + 1,
               IF (k - 1) * Stride + ChunkSize < Len(text)
               THEN (k - 1) * Stride + ChunkSize ELSE Len(text))]

\* One RawChunk per window, numbered on from the chunks made so far.
Emit(chunks, text, section, sub, level, parent) ==
    LET parts == SplitByTokenLimit(text)
    IN  chunks \o [k \in 1..Len(parts) |->
            [text |-> parts[k], index |-> Len(chunks) + k - 1, section |-> section,
             sub |-> sub, level |-> level, parent |-> parent]]

TokenCount(chunk) == IF chunk.text = <<>> THEN 1 ELSE Len(chunk.text)

Small(chunk) == TokenCount(chunk) < ChunkMinSize

\* The last positions of the groups that are merged: a small chunk waits for
\* the next one that is not small, however many small ones there are; those
\* at the end join the last group.
GroupEnds(chunks) ==
    LET big == SelectSeq([i \in 1..Len(chunks) |-> i], LAMBDA i : ~Small(chunks[i]))
    IN  IF big = <<>> THEN <<Len(chunks)>> ELSE [big EXCEPT ![Len(big)] = Len(chunks)]

\* A group takes the place of its first chunk.
Grouped(chunks, first, last) ==
    [chunks[first] EXCEPT !.text = FlattenSeq([i \in 1..(last - first + 1) |->
                                                chunks[first + i - 1].text])]

MergeSmallChunks(chunks) ==
    LET ends == GroupEnds(chunks)
    IN  IF chunks = <<>> THEN <<>>
        ELSE AsTuple([g \in 1..Len(ends) |->
                Grouped(chunks, IF g = 1 THEN 1 ELSE ends[g - 1] + 1, ends[g])])

\* Positions become indexes; a parent that was merged away, or into the
\* chunk itself, is forgotten.
Reindex(chunks) ==
    AsTuple([i \in 1..Len(chunks) |->
        [chunks[i] EXCEPT
            !.index = i - 1,
            !.parent = LET at == {j \in 1..Len(chunks) :
                                    chunks[j].index = chunks[i].parent}
                       IN  IF @ = NoIndex \/ at = {} \/ i \in at THEN NoIndex
                           ELSE (CHOOSE j \in at : TRUE) - 1]])

-----------------------------------------------------------------------------
(* The chunkers *)

Label(heading) == heading[1]

NoLabel == <<"none", 0>>

\* RulebookChunker and FrameworkChunker: a section's own text, then its
\* subsections, children of the section's first chunk.
HeadedSection(chunks, section) ==
    LET parent == Len(chunks)
        own == Emit(chunks, Headed(section.heading, section.text),
                    Label(section.heading), NoLabel, 0, NoIndex)
        Child(acc, sub) == Emit(acc, Headed(sub.heading, sub.text),
                                Label(section.heading), Label(sub.heading), 1, parent)
    IN  Accumulate(Child, own, section.subs)

RulebookChunks(doc) ==
    Reindex(MergeSmallChunks(Accumulate(HeadedSection, <<>>, doc.sections)))

FrameworkChunks(doc) ==
    Reindex(MergeSmallChunks(Accumulate(HeadedSection, <<>>, doc.sections)))

\* MacroChunker and the scenario chunker's fallback: a section and its
\* subsections are one text.
WholeSection(chunks, section) ==
    LET Sub(sub) == Headed(sub.heading, sub.text)
    IN  Emit(chunks, Headed(section.heading, section.text) \o FlatMap(Sub, section.subs),
             Label(section.heading), NoLabel, 0, NoIndex)

MacroChunks(doc) ==
    Reindex(MergeSmallChunks(Accumulate(WholeSection, <<>>, doc.sections)))

\* Without scenario headers: sections, or the bare text of a file without any.
ChunkBySections(doc) ==
    IF doc.sections # <<>> THEN MacroChunks(doc)
    ELSE Reindex(MergeSmallChunks(
            Emit(<<>>, FlatMap(LineText, doc.lines), NoLabel, NoLabel, 0, NoIndex)))

IsScenario(line) == line.level = 3 /\ line.words[1][1] = "SCENARIO_ID"

IsCategory(line) == line.level = 2 /\ line.words[1][1] = "category"

\* ScenarioChunker: one text from each scenario header to the next, under the
\* last category heading before it; nothing is merged.
ScenarioChunks(doc) ==
    LET n == Len(doc.lines)
        heads == SelectSeq([i \in 1..n |-> i], LAMBDA i : IsScenario(doc.lines[i]))
        Category(i) ==
            LET c == {j \in 1..i : IsCategory(doc.lines[j])}
            IN  IF c = {} THEN NoLabel
                ELSE doc.lines[CHOOSE j \in c : \A k \in c : k <= j].words[1]
        Scenario(chunks, h) ==
            LET last == IF h < Len(heads) THEN heads[h + 1] - 1 ELSE n
                new == Emit(chunks, FlatMap(LineText, SubSeq(doc.lines, heads[h], last)),
                            Category(heads[h]), doc.lines[heads[h]].words[1], 0, NoIndex)
                first == Len(chunks) + 1
            IN  [i \in 1..Len(new) |->
                    IF i > first
                    THEN [new[i] EXCEPT !.level = 1, !.parent = first - 1]
                    ELSE new[i]]
    IN  IF heads = <<>> THEN ChunkBySections(doc)
        ELSE Reindex(Accumulate(Scenario, <<>>, [h \in 1..Len(heads) |-> h]))

\* _resolve_chunker
ChunksOf(doc) ==
    CASE doc.type \in {"smc_framework", "snd_rulebook", "wyckoff_guide",
                       "dxy_framework", "cot_interpretation_guide"} -> FrameworkChunks(doc)
      [] doc.type = "macro_to_price_guide" -> MacroChunks(doc)
      [] doc.type = "chart_scenario_library" -> ScenarioChunks(doc)
      [] OTHER -> RulebookChunks(doc)

-----------------------------------------------------------------------------
(* attach_metadata and the validators *)

\* _extract_directions: one direction from seven matches in ten, both from
\* two matches on.
Directions(text) ==
    LET Count(kind) == Cardinality({i \in DOMAIN text : text[i][1] = kind})
        long == Count("long")
        total == long + Count("short")
    IN  CASE total = 0 -> {}
          [] total > 0 /\ 10 * long >= 7 * total -> {"long"}
          [] total > 0 /\ 10 * (total - long) >= 7 * total -> {"short"}
          [] OTHER -> IF total >= 2 THEN {"long", "short"} ELSE {}

\* The kinds of words _extract_setup_families and _extract_timeframes look for.
FamilyKinds == {"order_block", "supply_zone"}

TimeframeKinds == {"H1", "H4"}

Mentioned(text, kinds) == {k \in kinds : \E i \in DOMAIN text : text[i][1] = k}

\* A flag of the metadata (direction_d, setup_family_f, timeframe_t) is the
\* string "true".
FlagSet == <<"string", "true">>

Flags(text) ==
    [k \in Directions(text) \cup Mentioned(text, FamilyKinds \cup TimeframeKinds) |-> FlagSet]

AttachMetadata(chunks, type) ==
    AsTuple([i \in DOMAIN chunks |->
        [text |-> chunks[i].text, index |-> chunks[i].index, parent |-> chunks[i].parent,
         section |-> chunks[i].section, sub |-> chunks[i].sub, type |-> type,
         direction |-> Directions(chunks[i].text), flags |-> Flags(chunks[i].text)]])

\* validate_chunks
ChunksValid(chunks) ==
    /\ chunks # <<>>
    /\ \A i \in DOMAIN chunks :
        /\ chunks[i].text # <<>>
        /\ TokenCount(chunks[i]) <= ChunkMaxSize
        /\ \A j \in DOMAIN chunks : chunks[i].text = chunks[j].text => i = j
        /\ chunks[i].parent # NoIndex => chunks[i].parent < chunks[i].index

Chunked(file) == AttachMetadata(ChunksOf(Normalize(Load(file))), file.type)

\* What IngestPipeline.ingest makes of a file before it opens a transaction
\* for the rows, and whether its validators let it through.
Ingestible(file) ==
    /\ ~LoadFails(file)
    /\ DocumentValid(Load(file))
    /\ ChunksValid(Chunked(file))

-----------------------------------------------------------------------------
(* Reference definitions for the properties *)

Plain(words) == SelectSeq(words, LAMBDA w : w # Mark)

\* The first occurrence of every word, in order.
Once(words) ==
    LET at == SelectSeq([i \in 1..Len(words) |-> i],
                        LAMBDA i : \A j \in 1..(i - 1) : words[j] # words[i])
    IN  [i \in 1..Len(at) |-> words[at[i]]]

SectionWords(doc) ==
    LET Sub(sub) == sub.heading \o sub.text
        Own(section) == section.heading \o section.text \o FlatMap(Sub, section.subs)
    IN  FlatMap(Own, doc.sections)

ChunkWords(chunks) ==
    LET Text(chunk) == chunk.text IN Once(Plain(FlatMap(Text, chunks)))

KeepsWords(file) ==
    LET doc == Normalize(Load(file))
    IN  doc.sections # <<>> /\ (\A i \in DOMAIN file.lines : ~IsScenario(file.lines[i]))
        => ChunkWords(Chunked(file)) = SectionWords(doc)

ParentsFit(file) ==
    LET chunks == Chunked(file)
    IN  \A i \in DOMAIN chunks : chunks[i].parent # NoIndex =>
            /\ chunks[i].parent < chunks[i].index
            /\ chunks[chunks[i].parent + 1].section = chunks[i].section

Losing == {f \in Shapes : Ingestible(f) /\ ~KeepsWords(f)}

Misparented == {f \in Shapes : Ingestible(f) /\ ~ParentsFit(f)}

=============================================================================
