---- MODULE MCSessionLink ----
EXTENDS SessionLink
====
