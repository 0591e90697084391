----------------------------- MODULE MCChunking -----------------------------
(* All short documents of each format: Markdown and HTML exercise headings,  *)
(* fences and blank lines, text and PDF exercise packing and pages.          *)
EXTENDS Chunking

Plain(chars, stop) == [chars |-> chars, stop |-> stop, level |-> 0, fence |-> NoFence, break |-> FALSE]
Blank == Plain(0, FALSE)
Short == Plain(5, TRUE)       \* one token
Half == Plain(7, FALSE)       \* one token, within a sentence
Middle == Plain(9, TRUE)      \* two tokens
Long == Plain(30, TRUE)       \* longer than a chunk
Heading(l) == [Plain(4, FALSE) EXCEPT !.level = l]
NoTitle == [Blank EXCEPT !.level = 2]
Fence(f) == [Plain(3, FALSE) EXCEPT !.fence = f]
PageBreak == [Blank EXCEPT !.break = TRUE]

UpTo(n, S) == UNION {[1..k -> S] : k \in 0..n}
Documents(f, n, S) == {[format |-> f, lines |-> s] : s \in UpTo(n, S)}
MCInputs ==
  Documents("markdown", 5, {Short, Blank, Heading(1), Heading(2), Heading(3),
                            Fence("backticks"), Fence("tildes")})
  \cup Documents("markdown", 4, {Middle, Heading(1), NoTitle, Fence("tildes")})
  \cup Documents("html", 4, {Short, Heading(1), Heading(2), Heading(3), NoTitle})
  \cup Documents("text", 6, {Blank, Short, Half, Middle, Long})
  \cup Documents("pdf", 5, {Middle, Blank, PageBreak})
MCSizes == {[max |-> 3, overlap |-> 2], [max |-> 4, overlap |-> 1], [max |-> 2, overlap |-> 2]}
=============================================================================
