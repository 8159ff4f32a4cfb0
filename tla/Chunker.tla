------------------------------ MODULE Chunker ------------------------------
(***************************************************************************)
(* ingest/chunker.py: a page becomes one chunk for each of its tables and  *)
(* chunks of prose, which group the paragraphs under one section header    *)
(* and cut a long group into overlapping windows.                          *)
(*                                                                         *)
(* A page is a record: its text blocks, bold header spans and detected     *)
(* tables, each a sequence in PyMuPDF's order.  Positions are vertical     *)
(* only; a text is its length in characters.  Currency, scale notes and    *)
(* Markdown are left out.                                                  *)
(***************************************************************************)
EXTENDS Sorting, SequencesExt, FiniteSetsExt

CONSTANTS
    ChunkChars,   \* PROSE_CHUNK_CHARS
    OverlapChars, \* PROSE_CHUNK_OVERLAP_CHARS
    NoHeader

ASSUME ChunkerAssumption ==
    ChunkChars \in Nat /\ OverlapChars \in Nat /\ OverlapChars < ChunkChars

-----------------------------------------------------------------------------
\* _split_prose.  Window i of a text starts at Start(i), so that a set of windows has
\* its order; one that reaches the end is the last, and white space is left out.
StartAbutting(i) == (i - 1) * ChunkChars
Start(i) == (i - 1) * (ChunkChars - OverlapChars)

Window(i, length) == [from |-> Start(i), to |-> Min({Start(i) + ChunkChars, length})]

Windows(length) ==
    {Window(i, length) : i \in {n \in 1..length : n = 1 \/ Start(n - 1) + ChunkChars < length}}

SplitProse(length, blank) ==
    IF length <= ChunkChars THEN {[from |-> 0, to |-> length]}
    ELSE {w \in Windows(length) : \E x \in w.from..(w.to - 1) : x \notin blank}

-----------------------------------------------------------------------------
\* _nearest_header: the lowest header at or above y, the first of equals.
NearestHeader(headers, y) ==
    LET above == {i \in DOMAIN headers : headers[i].y <= y}
        best == {i \in above : \A j \in above : headers[j].y <= headers[i].y}
    IN  IF above = {} THEN NoHeader ELSE headers[Min(best)].text

\* _prose_paragraphs: the blocks with text that touch no table.
Touches(block, table) == ~(block.bottom < table.top \/ block.top > table.bottom)

Those(seq, kept) ==
    FlattenSeq([i \in DOMAIN seq |-> IF seq[i] \in kept THEN <<seq[i]>> ELSE <<>>])

\* A table without cells is no table: the text under it stays prose.
RealTables(page) == Those(page.tables, {t \in ToSet(page.tables) : t.cells})

Paragraphs(page) ==
    Those(page.blocks, {b \in ToSet(page.blocks) :
        b.len > 0 /\ \A t \in ToSet(RealTables(page)) : ~Touches(b, t)})

\* The loop over the paragraphs of a page: "buf" collects a group until a header
\* change or the character budget flushes it.
NoGroups == [done |-> <<>>, buf |-> <<>>, len |-> 0, header |-> NoHeader]

FlushKeepingHeader(g) ==
    IF g.buf = <<>> THEN g
    ELSE [g EXCEPT !.done = Append(@, [blocks |-> g.buf, header |-> g.header]),
                   !.buf = <<>>, !.len = 0]

Flush(g) ==
    IF g.buf = <<>> THEN g
    ELSE [NoGroups EXCEPT !.done = Append(g.done, [blocks |-> g.buf, header |-> g.header])]

FullByBudget(g, paragraph, header) ==
    g.buf # <<>> /\ g.len >= ChunkChars

Full(g, paragraph, header) ==
    g.buf # <<>> /\ (g.len + paragraph.len > ChunkChars \/ header # g.header)

Put(g, paragraph, header) ==
    LET room == IF Full(g, paragraph, header) THEN Flush(g) ELSE g
    IN  [room EXCEPT !.buf = Append(@, paragraph), !.len = @ + paragraph.len,
                     !.header = IF @ = NoHeader THEN header ELSE @]

Walk(page) ==
    LET paras == Paragraphs(page)
        walk[i \in 0..Len(paras)] ==
            IF i = 0 THEN NoGroups
            ELSE Put(walk[i - 1], paras[i], NearestHeader(page.headers, paras[i].top))
    IN  walk

Groups(page) == Flush(Walk(page)[Len(Paragraphs(page))]).done

\* The texts of a group are joined by newlines.
Sums(blocks) ==
    LET sum[k \in 0..Len(blocks)] == IF k = 0 THEN 0 ELSE sum[k - 1] + blocks[k].len
    IN  sum
Length(blocks) == Sums(blocks)[Len(blocks)]
Joined(blocks) == Length(blocks) + Len(blocks) - 1
Offset(blocks, k) == Sums(blocks)[k - 1] + (k - 1)

GroupChunks(n, group) ==
    LET windows == SplitProse(Joined(group.blocks), {})
        pieces == Sorted(windows, {p \in windows \X windows : p[1].from < p[2].from})
    IN  [i \in DOMAIN pieces |->
            [page |-> n, type |-> "prose", header |-> group.header,
             blocks |-> group.blocks, piece |-> pieces[i]]]

TableChunk(n, page, table) ==
    [page |-> n, type |-> "table", header |-> NearestHeader(page.headers, table.top),
     blocks |-> <<table>>, piece |-> <<>>]

\* chunk_pdf: the tables of a page, then its prose, page by page.
ChunkPage(n, page) ==
    LET tables == RealTables(page)
        groups == Groups(page)
    IN  [i \in DOMAIN tables |-> TableChunk(n, page, tables[i])]
        \o FlattenSeq([i \in DOMAIN groups |-> GroupChunks(n, groups[i])])

ChunkPdf(pages, excluded) ==
    FlattenSeq([n \in DOMAIN pages |->
        IF n \in excluded THEN <<>> ELSE ChunkPage(n, pages[n])])

\* EmptyTextLayerError, raised after the last page.
EmptyTextLayer(pages, excluded) ==
    \A n \in DOMAIN pages \ excluded : \A b \in ToSet(pages[n].blocks) : b.len = 0

-----------------------------------------------------------------------------
\* A phrase of up to OverlapChars + 1 characters is never cut: some window holds
\* the whole of it, unless it is white space.  No window is within another.
KeepsPhrases(length, blank, windows) ==
    /\ \A w \in windows : w.to - w.from <= ChunkChars
    /\ \A v, w \in windows : v # w => v.from < w.from \/ v.to > w.to
    /\ \A x \in 0..(length - 1) :
        LET end == Min({x + OverlapChars, length - 1})
        IN  (\E y \in x..end : y \notin blank)
            => \E w \in windows : w.from <= x /\ end < w.to

\* Every phrase of every paragraph outside tables and excluded pages is in a chunk
\* of its own page, under the header nearest above it; every table is one chunk.
KeepsParagraphs(pages, excluded, chunks) ==
    \A n \in DOMAIN pages \ excluded :
        LET mine == {c \in ToSet(chunks) : c.page = n} IN
        /\ \A p \in ToSet(Paragraphs(pages[n])) : \A x \in 0..(p.len - 1) :
            \E c \in mine : \E k \in DOMAIN c.blocks :
                LET at == Offset(c.blocks, k)
                IN  /\ c.blocks[k] = p /\ c.type = "prose"
                    /\ c.header = NearestHeader(pages[n].headers, p.top)
                    /\ c.piece.from <= at + x
                    /\ Min({at + x + OverlapChars, at + p.len - 1}) < c.piece.to
        /\ \A t \in ToSet(RealTables(pages[n])) :
            \E c \in mine : c.type = "table" /\ c.blocks = <<t>>

\* The groups of a page are its paragraphs in order, each once; a group is under
\* the budget or a single paragraph, and could not have taken the next one.
TightGroups(page, groups) ==
    /\ FlattenSeq([i \in DOMAIN groups |-> groups[i].blocks]) = Paragraphs(page)
    /\ \A g \in ToSet(groups) : Length(g.blocks) <= ChunkChars \/ Len(g.blocks) = 1
    /\ \A i \in 1..(Len(groups) - 1) :
        \/ groups[i].header # groups[i + 1].header
        \/ Length(groups[i].blocks) + groups[i + 1].blocks[1].len > ChunkChars
=============================================================================
