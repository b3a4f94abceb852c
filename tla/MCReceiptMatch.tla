-------------------------- MODULE MCReceiptMatch ---------------------------
EXTENDS ReceiptMatch, TLC

Symmetric == Permutations(Sms) \union Permutations(Workers)
=============================================================================
