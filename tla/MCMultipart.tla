---------------------------- MODULE MCMultipart ----------------------------
(***************************************************************************)
(* Three full chunks and a last one of half their size.                    *)
(***************************************************************************)
EXTENDS Multipart

MCChunkSizes == <<2, 2, 2, 1>>
=============================================================================
