----------------------------- MODULE MCOpenProxy -----------------------------
(* OpenProxy for TLC: two requests, over one connection or over two. *)
EXTENDS OpenProxy

CONSTANT t1

\* One text, as it is and compressed; the other texts are only signed.
SmallBodies == [text : {t1}, coding : {"identity", "gzip"}]
=============================================================================
