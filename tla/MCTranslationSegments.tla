----------------------- MODULE MCTranslationSegments -----------------------
(* Small instances of TranslationSegments for TLC.                         *)
EXTENDS TranslationSegments

CONSTANTS s1, s2, de, fr

MCOneLanguage == [s \in Segments |-> de]

=============================================================================
