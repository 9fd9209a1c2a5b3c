------------------------ MODULE MCLangGraphProcessor ------------------------
(***************************************************************************)
(* An instance of LangGraphProcessor for TLC.  MCThree keeps the shape of  *)
(* the catalogue (the vendors alternate, one vendor has two entries).      *)
(***************************************************************************)
EXTENDS LangGraphProcessor

MCVendors     == {"O", "GG"}
MCThree       == <<"GEMINI_31_FLASH_LITE", "GPT4O_MINI", "GEMINI_FLASH">>
MCThreeVendor == [GEMINI_31_FLASH_LITE |-> "GG", GPT4O_MINI |-> "O",
                  GEMINI_FLASH |-> "GG"]
=============================================================================
