--------------------------- MODULE MCPublishImages ---------------------------
(***************************************************************************)
(* A small instance of PublishImages for TLC: two releases to publish, one *)
(* that is too old and a tag that is no version.                           *)
(***************************************************************************)
EXTENDS PublishImages, TLC

CONSTANTS junk, v1, v2, v3

MCTagList == <<v2, junk, v3, v1>>

MCClassOf == (junk :> "unparsable") @@ (v1 :> "below")
             @@ (v2 :> "eligible") @@ (v3 :> "eligible")
=============================================================================
