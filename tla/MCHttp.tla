------------------------------- MODULE MCHttp -------------------------------
EXTENDS HttpClient
=============================================================================
