------------------------ MODULE MCTranslationWorkers ------------------------
EXTENDS TranslationWorkers
=============================================================================
