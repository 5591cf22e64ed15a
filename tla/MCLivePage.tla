----------------------------- MODULE MCLivePage -----------------------------
EXTENDS LivePage

\* The detector shares nothing with the rest of the page but apply and the exit,
\* so its behaviours are explored with the rest of the chrome at rest.
Apart == live.loaded /\ page.alive => [page EXCEPT !.apply = FALSE] = PageInit
=============================================================================
