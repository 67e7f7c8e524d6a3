----------------------------- MODULE MCSignature ----------------------------
(***************************************************************************)
(* Instance of Signature for TLC.                                          *)
(***************************************************************************)
EXTENDS Signature

Slot(t) == <<"text", t>>

\* Nothing, a text, and the hash of that text, which is what a context hash looks like.
MCMessages == {<<>>, <<Slot("a")>>, Digest(<<Slot("a")>>)}
MCLong == {Digest(<<Slot("a")>>)}
=============================================================================
