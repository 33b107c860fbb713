---------------------------- MODULE MCMultipart ----------------------------
EXTENDS Multipart, TLC
=============================================================================
