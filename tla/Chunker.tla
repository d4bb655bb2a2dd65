------------------------------ MODULE Chunker ------------------------------
(***************************************************************************)
(* Cutting a document into chunks (app/ingestion/chunker.py): Markdown is  *)
(* split into sections at its headers, and each section is cut into        *)
(* windows of Target tokens that overlap by Overlap.  One step is one      *)
(* iteration of the loop over the lines, or of the loop over the windows.  *)
(*                                                                         *)
(* Of a document its tokens are known, each by the number of characters up *)
(* to its end and by whether it is only white space, and its lines, each   *)
(* by the number of tokens up to its end and by whether it begins with     *)
(* "#".  Tokens end where lines end, and a character is not split between  *)
(* tokens, so that a section has the tokens of its lines.                  *)
(***************************************************************************)
EXTENDS Integers, Sequences

CONSTANTS Target, Overlap,   \* TARGET_TOKENS, OVERLAP_TOKENS
          Texts              \* documents

ASSUME SizesAreNaturals == Target \in Nat \ {0} /\ Overlap \in Nat

\* The characters of the first t tokens, and the tokens of the first l lines.
CharsTo(d, t)  == IF t = 0 THEN 0 ELSE d.tokens[t].end
TokensTo(d, l) == IF l = 0 THEN 0 ELSE d.lines[l].upto

\* No token and no line is empty, and the lines are the whole document.
ASSUME TextsAreTexts ==
    \A d \in Texts :
       /\ d.tokens \in Seq([end : Nat, blank : BOOLEAN])
       /\ d.lines \in Seq([upto : Nat, header : BOOLEAN])
       /\ \A s, t \in 0..Len(d.tokens) : s < t => CharsTo(d, s) < CharsTo(d, t)
       /\ \A k, l \in 0..Len(d.lines) : k < l => TokensTo(d, k) < TokensTo(d, l)
       /\ TokensTo(d, Len(d.lines)) = Len(d.tokens)

VARIABLES
    doc, markdown,    \* the arguments of chunk_document
    line,             \* the next line of split_markdown_sections, from 1
    cur,              \* the first line of the section in hand; `line`, if it has none yet
    section_offset,
    sections,         \* what the document is split into: offset, and which tokens
    at,               \* the section that is cut into windows
    begin,            \* the first token of its next window, from 0
    index,            \* the next chunk_index
    pieces

splitVars == <<line, cur, section_offset, sections>>
chunkVars == <<doc, markdown, splitVars, at, begin, index, pieces>>

-----------------------------------------------------------------------------
\* A section is its offset, and the tokens after the first `from` up to `to`.
Section(k, l, offset) ==
    [offset |-> offset, from |-> TokensTo(doc, k - 1), to |-> TokensTo(doc, l)]

ChunkInit == /\ doc \in Texts
             /\ markdown \in BOOLEAN
             /\ line = IF markdown THEN 1 ELSE Len(doc.lines) + 1
             /\ cur = line
             /\ section_offset = 0
             /\ sections = IF markdown THEN <<>> ELSE <<Section(1, Len(doc.lines), 0)>>
             /\ at = 1 /\ begin = 0 /\ index = 0
             /\ pieces = <<>>

\* Mutant: the offset of the section is not moved on.
OffsetUnmoved(l) == section_offset

\* `offset` before line l.
OffsetOf(l) == CharsTo(doc, TokensTo(doc, l - 1))

\* Mutant: the header still goes to the section before it.
HeaderGoesBefore == line + 1

\* The first line of the section that a header opens.
Opened == line

\* One iteration of the loop of split_markdown_sections.
ReadLine ==
    /\ line <= Len(doc.lines)
    /\ line' = line + 1
    /\ IF doc.lines[line].header /\ cur < line
       THEN /\ sections' = Append(sections, Section(cur, Opened - 1, section_offset))
            /\ cur' = Opened
            /\ section_offset' = OffsetOf(Opened)
       ELSE UNCHANGED <<cur, section_offset, sections>>
    /\ UNCHANGED <<doc, markdown, at, begin, index, pieces>>

\* What is left after the loop is the last section.
CloseLast ==
    /\ line = Len(doc.lines) + 1 /\ cur < line
    /\ sections' = Append(sections, Section(cur, line - 1, section_offset))
    /\ cur' = line
    /\ UNCHANGED <<doc, markdown, line, section_offset, at, begin, index, pieces>>

-----------------------------------------------------------------------------
IsSplit == cur = Len(doc.lines) + 1

Busy == IsSplit /\ at <= Len(sections)

\* The section in hand, and how many tokens it has.
Here   == sections[at]
Length == Here.to - Here.from

Step == IF Target - Overlap > 1 THEN Target - Overlap ELSE 1

WindowEnd == IF begin + Target < Length THEN begin + Target ELSE Length

\* _prefix_chars of the section.
PrefixChars(k) == CharsTo(doc, Here.from + k) - CharsTo(doc, Here.from)

\* A window of white space only gives no piece.
Blank == \A t \in Here.from + begin + 1..Here.from + WindowEnd : doc.tokens[t].blank

Piece == [chunk_index |-> index,
          start       |-> Here.offset + PrefixChars(begin),
          end         |-> Here.offset + PrefixChars(WindowEnd)]

\* Mutant: the loop ends only when its next window would be empty.
LastWindowEmpty == begin + Step >= Length

LastWindow == WindowEnd = Length

\* One iteration of the loop of _token_chunks.
Window == /\ Busy /\ begin < Length
          /\ pieces' = IF Blank THEN pieces ELSE Append(pieces, Piece)
          /\ index' = IF Blank THEN index ELSE index + 1
          /\ IF LastWindow THEN at' = at + 1 /\ begin' = 0
                           ELSE at' = at /\ begin' = begin + Step
          /\ UNCHANGED <<doc, markdown, splitVars>>

\* A text without tokens has no windows.
NoTokens == /\ Busy /\ Length = 0
            /\ at' = at + 1
            /\ UNCHANGED <<doc, markdown, splitVars, begin, index, pieces>>

Done == IsSplit /\ at > Len(sections)

Returned == Done /\ UNCHANGED chunkVars

ChunkNext == ReadLine \/ CloseLast \/ Window \/ NoTokens \/ Returned

ChunkSpec == ChunkInit /\ [][ChunkNext]_chunkVars

-----------------------------------------------------------------------------
\* When the document is done, every token that is not blank lies, at its place in the
\* document, whole in some piece.
NothingLost ==
    Done => \A t \in DOMAIN doc.tokens : ~doc.tokens[t].blank =>
               \E n \in DOMAIN pieces : /\ pieces[n].start <= CharsTo(doc, t - 1)
                                        /\ CharsTo(doc, t) <= pieces[n].end

\* Pieces are numbered from 0 through all sections, start and end later and later, and
\* so none repeats a part of the one before it.
PiecesAdvance ==
    \A n \in DOMAIN pieces :
       /\ pieces[n].chunk_index = n - 1
       /\ n > 1 => /\ pieces[n - 1].start < pieces[n].start
                   /\ pieces[n - 1].end < pieces[n].end

\* Sections stay coherent: no piece of a Markdown document reaches over a header.
NoPieceSpansHeader ==
    markdown => \A n \in DOMAIN pieces : \A l \in DOMAIN doc.lines :
                   doc.lines[l].header =>
                      LET border == CharsTo(doc, TokensTo(doc, l - 1))
                      IN  ~(pieces[n].start < border /\ border < pieces[n].end)
=============================================================================
