------------------------ MODULE MCTranslationCache ------------------------
(* The instance of TranslationCache for TLC. *)
EXTENDS TranslationCache
===========================================================================
