------------------------------ MODULE Chunking ------------------------------
(***************************************************************************)
(* From a document to its chunks (app/rag/ingestion/parsers.py, chunking.py): *)
(* a parser cuts the lines of a document into pages that carry a page number *)
(* or the headings they are under, and every page is packed into chunks of   *)
(* its own.  A line is its number of characters after cleaning, and whether  *)
(* a sentence ends with it; the lines of an HTML document are its elements,  *)
(* those of a PDF are separated by page breaks.  A piece of text is an       *)
(* interval of the characters of an interval of lines.                       *)
(***************************************************************************)
EXTENDS FiniteSetsExt, SequencesExt, Lists

CONSTANTS
  Inputs,     \* documents: [format, lines]
  Sizes       \* chunk_size_tokens and chunk_overlap_tokens: [max, overlap]

CharsPerToken == 4
NoFence == "none"
\* The level of a line that looks like a heading is in 1..6; 0 for any other line.
Line == [chars : Nat, stop : BOOLEAN, level : 0..6, fence : {NoFence, "backticks", "tildes"},
         break : BOOLEAN]

ASSUME ChunkingAssumption ==
  /\ Inputs \subseteq [format : {"markdown", "html", "pdf", "text"}, lines : Seq(Line)]
  /\ Sizes \subseteq [max : Nat, overlap : Nat]

VARIABLES
  input, size,
  stage,      \* parse, chunk, done, failed
  at,         \* the next line to parse
  from,       \* the first line of buffer
  fence,      \* fence_marker, if in_fence
  headings,   \* heading_stack: lines, 0 for a level without heading
  number,     \* of the PDF page
  lost,       \* history: lines of PDF pages that could not be extracted
  pages,      \* [from, to, path, number], to be chunked
  units,      \* of the current page, to be packed
  current,    \* the pieces of the next chunk: [from, to, first, last, fresh]
  chunks      \* [pieces, path, number]

parser == <<at, from, fence, headings, number, lost>>
packer == <<units, current, chunks>>
vars == <<input, size, stage, parser, pages, packer>>

Lines == input.lines
Filled(a, b) == {i \in a..b : Lines[i].chars > 0}

\* The first line of the text, and those behind a blank one, begin a paragraph;
\* the elements of an HTML block are one paragraph.
Paragraphs(a, b) ==
  {i \in Filled(a, b) : \/ Filled(a, i - 1) = {}
                       \/ (input.format # "html" /\ Lines[i - 1].chars = 0)}

\* clean_text: lines and blank runs become one and two newlines.
TextChars(a, b) ==
  IF Filled(a, b) = {} THEN 0
  ELSE Total([n \in 1..b - a + 1 |-> Lines[a + n - 1].chars])
       + Cardinality(Filled(a, b)) - 1 + Cardinality(Paragraphs(a, b)) - 1

Tokens(chars) == IF chars \div CharsPerToken < 1 THEN 1 ELSE chars \div CharsPerToken
Unit(a, b) == [from |-> a, to |-> b, first |-> 1, last |-> TextChars(a, b), fresh |-> TRUE]
Chars(piece) == piece.last - piece.first + 1

\* The text of lines a..b, cut before each line of starts.
CutAt(starts, a, b) ==
  LET s == Ascending(starts)
  IN [k \in 1..Len(s) |-> Unit(s[k], IF k = Len(s) THEN b ELSE s[k + 1] - 1)]

Sentences(a, b) ==
  {i \in Filled(a, b) : Filled(a, i - 1) = {} \/ Lines[Max(Filled(a, i - 1))].stop}

-----------------------------------------------------------------------------
(* Parsing *)

Init ==
  /\ input \in Inputs /\ size \in Sizes
  /\ stage = "parse"
  /\ at = 1 /\ from = 1 /\ fence = NoFence /\ headings = <<>> /\ number = 1 /\ lost = {}
  /\ pages = <<>> /\ units = <<>> /\ current = <<>> /\ chunks = <<>>

More == stage = "parse" /\ at <= Len(Lines)
IsFence == input.format = "markdown" /\ Lines[at].fence # NoFence
IsHeading ==
  \/ input.format = "markdown" /\ fence = NoFence /\ ~IsFence /\ Lines[at].level > 0
  \/ input.format = "html" /\ Lines[at].level > 0 /\ Lines[at].chars > 0
IsBreak == input.format = "pdf" /\ Lines[at].break

CurrentPath == Only(headings, Filled(1, Len(Lines)))

\* Lines without text make no page.
Flush ==
  pages' = IF Filled(from, at - 1) = {} THEN pages
           ELSE Append(pages, [from |-> from, to |-> at - 1, path |-> CurrentPath,
                               number |-> IF input.format = "pdf" THEN number ELSE 0])

ParseFence ==
  /\ More /\ IsFence
  /\ fence' = IF fence = NoFence THEN Lines[at].fence
              ELSE IF fence = Lines[at].fence THEN NoFence ELSE fence
  /\ at' = at + 1
  /\ UNCHANGED <<input, size, stage, from, headings, number, lost, pages, packer>>

\* Mutant: deeper headings stay on the stack.
StackedOn(level, h) ==
  [l \in 1..(IF level > Len(headings) THEN level ELSE Len(headings)) |->
     IF l = level THEN h ELSE IF l <= Len(headings) THEN headings[l] ELSE 0]
\* The stack is cut above the level and padded up to it.
Stacked(level, h) ==
  [l \in 1..level |-> IF l = level THEN h ELSE IF l <= Len(headings) THEN headings[l] ELSE 0]

ParseHeading ==
  /\ More /\ IsHeading
  /\ Flush
  /\ headings' = Stacked(Lines[at].level, at)
  /\ from' = at /\ at' = at + 1
  /\ UNCHANGED <<input, size, stage, fence, number, lost, packer>>

ParseLine ==
  /\ More /\ ~IsFence /\ ~IsHeading /\ ~IsBreak
  /\ at' = at + 1
  /\ UNCHANGED <<input, size, stage, from, fence, headings, number, lost, pages, packer>>

\* The text of a PDF page may fail to be extracted; the page still counts.
PageFails == input.format = "pdf" /\ lost' = lost \cup (from..at - 1) /\ UNCHANGED pages

ParseBreak ==
  /\ More /\ IsBreak
  /\ (Flush /\ UNCHANGED lost) \/ PageFails
  /\ number' = number + 1
  /\ from' = at + 1 /\ at' = at + 1
  /\ UNCHANGED <<input, size, stage, fence, headings, packer>>

\* chunk_document refuses other sizes, once there is a page to chunk.
ValidSize == size.max > 0 /\ size.overlap < size.max

EndOfDocument ==
  /\ stage = "parse" /\ at = Len(Lines) + 1
  /\ (Flush /\ UNCHANGED lost) \/ PageFails
  /\ stage' = IF pages' # <<>> /\ ~ValidSize THEN "failed" ELSE "chunk"
  /\ from' = at
  /\ UNCHANGED <<input, size, at, fence, headings, number, packer>>

\* parse_file and parse_content: a missing or unreadable file, an unsupported format.
ParserError ==
  /\ stage = "parse" /\ at = 1
  /\ stage' = "failed"
  /\ UNCHANGED <<input, size, parser, pages, packer>>

-----------------------------------------------------------------------------
(* Chunking *)

Page == Head(pages)
Emit(pieces) == Append(chunks, [pieces |-> pieces, path |-> Page.path, number |-> Page.number])

\* A page that fits is one chunk, without regard to paragraphs.
ChunkWhole ==
  /\ stage = "chunk" /\ pages # <<>> /\ units = <<>> /\ current = <<>>
  /\ Tokens(TextChars(Page.from, Page.to)) <= size.max
  /\ chunks' = Emit(<<Unit(Page.from, Page.to)>>)
  /\ pages' = Tail(pages)
  /\ UNCHANGED <<input, size, stage, parser, units, current>>

\* Paragraphs, or the sentences of those that are too long or alone.
UnitsOf(page) ==
  LET paragraphs == Paragraphs(page.from, page.to)
      End(p) == Max({i \in p..page.to : paragraphs \cap (p + 1..i) = {}})
      split == {p \in paragraphs : \/ Cardinality(paragraphs) <= 1
                                  \/ Tokens(TextChars(p, End(p))) > size.max}
  IN CutAt(paragraphs \cup UNION {Sentences(p, End(p)) : p \in split}, page.from, page.to)

OpenPage ==
  /\ stage = "chunk" /\ pages # <<>> /\ units = <<>> /\ current = <<>>
  /\ Tokens(TextChars(Page.from, Page.to)) > size.max
  /\ units' = UnitsOf(Page)
  /\ UNCHANGED <<input, size, stage, parser, pages, current, chunks>>

\* _pack counts the tokens of the pieces, not of their joined text.
WeightOf(pieces) == Total([k \in 1..Len(pieces) |-> Tokens(Chars(pieces[k]))])
\* Mutant: an oversized unit drops what was packed before it.
JoinedNothing(pieces) == chunks
Joined(pieces) == IF pieces = <<>> THEN chunks ELSE Emit(pieces)

\* Pieces of width characters of u, the last of n shorter.
SplitInto(u, n, width) ==
  [k \in 1..n |-> [u EXCEPT !.first = (k - 1) * width + 1,
                            !.last = IF k = n THEN @ ELSE k * width]]
\* Mutant: one piece too many.
HardSplitRounded(u) ==
  LET width == size.max * CharsPerToken
  IN SplitInto(u, u.last \div width + 1, width)
\* _hard_split: pieces of max_tokens.
HardSplit(u) ==
  LET width == size.max * CharsPerToken
  IN SplitInto(u, (u.last + width - 1) \div width, width)

PackOversized ==
  /\ units # <<>> /\ Tokens(Chars(Head(units))) > size.max
  /\ LET split == HardSplit(Head(units))
         own == [k \in 1..Len(split) |-> [pieces |-> <<split[k]>>, path |-> Page.path,
                                          number |-> Page.number]]
     IN chunks' = Joined(current) \o own
  /\ current' = <<>>
  /\ units' = Tail(units)
  /\ pages' = IF units' = <<>> THEN Tail(pages) ELSE pages
  /\ UNCHANGED <<input, size, stage, parser>>

\* _tail_for_overlap: the longest suffix of whole pieces within the budget, else
\* the end of the last piece from some word on; no piece ends with a space.
Suffix(pieces, k) == SubSeq(pieces, Len(pieces) - k + 1, Len(pieces))
Stale(pieces) == [k \in 1..Len(pieces) |-> [pieces[k] EXCEPT !.fresh = FALSE]]
\* Mutant: the last piece is carried whole, whatever the budget.
TailsUnbounded(pieces) == {Stale(Suffix(pieces, 1))}
TailsForOverlap(pieces) ==
  LET longest == Max({k \in 0..Len(pieces) : WeightOf(Suffix(pieces, k)) <= size.overlap})
      last == Last(pieces)
      ends == {n \in 1..size.overlap * CharsPerToken : n <= Chars(last)}
  IN IF size.overlap = 0 THEN {<<>>}
     ELSE IF longest > 0 THEN {Stale(Suffix(pieces, longest))}
     ELSE {Stale(<<[last EXCEPT !.first = @ + Chars(last) - n]>>) : n \in ends}

\* Mutant: the chunk is full only once it is over its size.
FitsLate(u) == current = <<>> \/ WeightOf(current) <= size.max
Fits(u) == current = <<>> \/ WeightOf(current) + Tokens(Chars(u)) <= size.max

PackSeam ==
  /\ units # <<>> /\ Tokens(Chars(Head(units))) <= size.max /\ ~Fits(Head(units))
  /\ chunks' = Emit(current)
  /\ \E carry \in TailsForOverlap(current) : current' = Append(carry, Head(units))
  /\ units' = Tail(units)
  /\ UNCHANGED <<input, size, stage, parser, pages>>

PackMore ==
  /\ units # <<>> /\ Tokens(Chars(Head(units))) <= size.max /\ Fits(Head(units))
  /\ current' = Append(current, Head(units))
  /\ units' = Tail(units)
  /\ UNCHANGED <<input, size, stage, parser, pages, chunks>>

ClosePage ==
  /\ stage = "chunk" /\ units = <<>> /\ current # <<>>
  /\ chunks' = Emit(current)
  /\ current' = <<>>
  /\ pages' = Tail(pages)
  /\ UNCHANGED <<input, size, stage, parser, units>>

Finish ==
  /\ stage = "chunk" /\ pages = <<>>
  /\ stage' = "done"
  /\ UNCHANGED <<input, size, parser, pages, packer>>

Next ==
  \/ ParseFence \/ ParseHeading \/ ParseLine \/ ParseBreak \/ EndOfDocument \/ ParserError
  \/ ChunkWhole \/ OpenPage \/ PackOversized \/ PackSeam \/ PackMore \/ ClosePage \/ Finish

Spec == Init /\ [][Next]_vars

-----------------------------------------------------------------------------
(* Properties *)

Piece == {p \in [from : Nat, to : Nat, first : Nat \ {0}, last : Nat, fresh : BOOLEAN] :
            p.from <= p.to /\ p.first <= p.last}
TypeOK ==
  /\ stage \in {"parse", "chunk", "done", "failed"}
  /\ at \in 1..Len(Lines) + 1 /\ from \in 1..at
  /\ fence \in {NoFence, "backticks", "tildes"}
  /\ headings \in Seq(0..Len(Lines)) /\ number \in Nat /\ lost \subseteq 1..Len(Lines)
  /\ \A k \in DOMAIN pages : pages[k].from <= pages[k].to
  /\ units \in Seq(Piece) /\ current \in Seq(Piece)
  /\ \A k \in DOMAIN chunks : chunks[k].pieces \in Seq(Piece) \ {<<>>}

\* What a reader of the document would say of line i: the marker of the code block it
\* is in, the headings it is under, outermost first, and its page.
OpenBlock ==
  LET block[i \in 0..Len(Lines)] ==
        IF i = 0 THEN NoFence
        ELSE LET mark == IF input.format = "markdown" THEN Lines[i].fence ELSE NoFence
             IN IF mark = NoFence THEN block[i - 1]
                ELSE IF block[i - 1] = NoFence THEN mark
                ELSE IF block[i - 1] = mark THEN NoFence ELSE block[i - 1]
  IN block
HeadingLines ==
  {i \in 1..Len(Lines) : Lines[i].level > 0 /\
     \/ input.format = "html" /\ Lines[i].chars > 0
     \/ input.format = "markdown" /\ Lines[i].fence = NoFence /\ OpenBlock[i - 1] = NoFence}
Breaks == {i \in 1..Len(Lines) : input.format = "pdf" /\ Lines[i].break}
Borders == HeadingLines \cup Breaks
Above(i) ==
  Ascending({h \in HeadingLines : h <= i /\ Lines[h].chars > 0 /\
    \A k \in HeadingLines : h < k /\ k <= i => Lines[k].level > Lines[h].level})
PageOf(i) == IF input.format = "pdf" THEN 1 + Cardinality(Breaks \cap (1..i - 1)) ELSE 0

\* A chunk never spans pages or headings: every line of its text, also of the text it
\* repeats, is on the page and under exactly the headings the chunk is cited with; a
\* comment in a code block is no heading.
ProvenanceTrue ==
  \A c \in ToSet(chunks) : \A piece \in ToSet(c.pieces) :
    \A i \in Filled(piece.from, piece.to) : c.path = Above(i) /\ c.number = PageOf(i)

\* Chunking loses, repeats and reorders nothing: the fresh pieces of all chunks, in
\* their order, are the text of the document to the last character, but for PDF pages
\* that could not be extracted.
PieceAt(x) == chunks[x[1]].pieces[x[2]]
Fresh ==
  UNION {{<<k, n>> : n \in {n \in DOMAIN chunks[k].pieces : chunks[k].pieces[n].fresh}} :
         k \in DOMAIN chunks}
Earlier(x, y) == x[1] < y[1] \/ (x[1] = y[1] /\ x[2] < y[2])
NothingLost ==
  stage = "done" =>
    /\ \A i \in Filled(1, Len(Lines)) \ (lost \cup Breaks) :
         \E x \in Fresh : PieceAt(x).from <= i /\ i <= PieceAt(x).to
    /\ \A x \in Fresh : \A c \in 1..TextChars(PieceAt(x).from, PieceAt(x).to) :
         \E y \in Fresh : /\ PieceAt(y).from = PieceAt(x).from
                         /\ PieceAt(y).first <= c /\ c <= PieceAt(y).last
    /\ \A x, y \in Fresh : Earlier(x, y) =>
         \/ PieceAt(x).to < PieceAt(y).from
         \/ PieceAt(x).from = PieceAt(y).from /\ PieceAt(x).last < PieceAt(y).first

\* A chunk stays within max_tokens, by the weight of its pieces, unless it is an
\* overlap within its budget and one more piece.
ChunkCeiling ==
  \A c \in ToSet(chunks) :
    \/ WeightOf(c.pieces) <= size.max
    \/ /\ WeightOf(Front(c.pieces)) <= size.overlap
       /\ Tokens(Chars(Last(c.pieces))) <= size.max

\* What a chunk repeats stands first, is the end of the chunk before it and within the
\* budget; and no seam of a section is without it, unless a piece there is oversized.
Repeated(pieces) == {n \in DOMAIN pieces : ~pieces[n].fresh}
Cut(piece) == piece.first # 1 \/ piece.last # TextChars(piece.from, piece.to)
SameSection(i, j) == Borders \cap (i + 1..j) = {}
RepeatsTail ==
  \A k \in 2..Len(chunks) :
    LET before == chunks[k - 1].pieces
        after == chunks[k].pieces
        m == Cardinality(Repeated(after))
    IN /\ Repeated(after) = 1..m /\ m <= Len(before)
       /\ WeightOf(SubSeq(after, 1, m)) <= size.overlap
       /\ \A n \in 1..m : LET p == before[Len(before) - m + n]
                         IN /\ after[n].from = p.from /\ after[n].to = p.to
                            /\ after[n].last = p.last /\ after[n].first >= p.first
       /\ SameSection(Last(before).from, Last(after).from) /\ size.overlap > 0
            /\ ~Cut(Last(before)) /\ ~Cut(Last(after)) => m > 0
=============================================================================
