---------------------------- MODULE MCAttachments ----------------------------
EXTENDS Attachments, TLC

\* Nothing; a document; a document, and an image with its thumbnail.
MCDoc   == Object(FALSE, 0)
MCImage == [Object(TRUE, 0) EXCEPT !.thumb = TRUE]
MCFirsts == {<<>>, <<MCDoc>>, <<MCDoc, MCImage>>}

\* One name is malformed, one is decoded to another, the others are plain.
MCDecode == [n \in Names |-> CASE n = "100%" -> "malformed"
                               [] n = "a%20b" -> "a b"
                               [] OTHER -> n]

=============================================================================
