-------------------------- MODULE MCCredentialPool --------------------------
\* Small instances of CredentialPool for TLC.
EXTENDS CredentialPool

CONSTANTS scan, coroner

MCTwoCallers == {scan, coroner}

\* Two of Google's catalogues and one of another provider.
MCMixed == <<"gemini", "openai", "vertex_ai">>
MCAlike == <<"gemini", "gemini">>

MCErrors == {{"usage limit"}, {"429", "hours", "seconds"}, {"401"}, {"timeout"}}
MCLimits == {{"usage limit"}, {"429"}}
=============================================================================
