---- MODULE MCApiServer ----
EXTENDS ApiServer
============================
