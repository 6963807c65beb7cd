----------------------------- MODULE TokenRules -----------------------------
(***************************************************************************)
(* What the HTML tokenizer promises the tree builder: the tokens Next may  *)
(* return.  After the start tag of a raw-text element the tokenizer reads  *)
(* text up to that element's end tag (readRawOrRCDATA), unless the tree    *)
(* builder says NextIsNotRawText.  raw.tag is the element, raw.text        *)
(* whether its text has been returned.                                     *)
(***************************************************************************)
EXTENDS Sequences

RawTags == {"iframe", "noembed", "noframes", "noscript", "plaintext", "script",
            "style", "textarea", "title", "xmp"}

NotRaw == [tag |-> "", text |-> FALSE]

\* Whether Next may return a token of this type and tag.
MayDeliver(raw, type, tag) ==
    \/ type = "eof"
    \/ raw.tag = ""
    \/ type = "text" /\ ~raw.text
    \/ type = "end" /\ tag = raw.tag /\ raw.tag # "plaintext"

\* What the tokenizer expects next after returning it.
RawAfter(raw, type, tag) ==
    IF type = "start" /\ tag \in RawTags THEN [tag |-> tag, text |-> FALSE]
    ELSE IF type = "text" /\ raw.tag # "" THEN [raw EXCEPT !.text = TRUE]
    ELSE NotRaw

=============================================================================
