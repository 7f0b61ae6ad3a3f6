---------------------------- MODULE MCCardIngest ----------------------------
(* "c1" has a date Tesseract reads, "c2" one only EasyOCR reads, "c3" is   *)
(* illegible to both.                                                      *)
EXTENDS CardIngest

MCTess == {"c1"} \cap Images
MCEasy == {"c2"} \cap Images
MCIllegible == {"c3"} \cap Images

(* One slice the guard refuses and one large enough to pass it.            *)
MCSlices == {{}, {"c2"}}
=============================================================================
