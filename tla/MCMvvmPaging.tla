---------------------------- MODULE MCMvvmPaging ----------------------------
\* MvvmPaging as the recipe list, with a handful of requests.
EXTENDS MvvmPaging
=============================================================================
