---------------------------- MODULE TokenStream -----------------------------
(***************************************************************************)
(* What the HTML tokenizer promises the tree builder: a stream of tokens   *)
(* in which the start tag of a raw-text element is followed by at most one *)
(* text token and then by that element's end tag, unless the tree builder  *)
(* says NextIsNotRawText.  HtmlParser assumes these rules of its input;    *)
(* HtmlTokenizer implements them byte by byte.                             *)
(***************************************************************************)
EXTENDS TokenRules

CONSTANTS TokenTypes, TagNames

VARIABLES
    raw,     \* what TokenRules lets the tokenizer deliver
    token    \* the last token delivered

Init == raw = NotRaw /\ token = [type |-> "none", tag |-> ""]

Deliver ==
    \E type \in TokenTypes, tag \in TagNames :
        /\ MayDeliver(raw, type, tag)
        /\ token' = [type |-> type, tag |-> tag]
        /\ raw' = RawAfter(raw, type, tag)

\* NextIsNotRawText, called right after the start tag.
NotRawText == raw.tag # "" /\ ~raw.text /\ raw' = NotRaw /\ UNCHANGED token

Spec == Init /\ [][Deliver \/ NotRawText]_<<raw, token>>

=============================================================================
