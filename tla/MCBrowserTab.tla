---------------------------- MODULE MCBrowserTab ----------------------------
\* Two Prometheus connections and two query panels; two dashboard sources; three
\* loads of the console at a time; three investigations.
EXTENDS BrowserTab, TLC

\* The sources of the query page are interchangeable: MetricInit and every
\* action treat them alike.
MCSources == Permutations(PrometheusIds)
=============================================================================
