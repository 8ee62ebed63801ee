------------------------- MODULE MCCalendarSources -------------------------
\* Small instances of CalendarSources for TLC: the sources of settings.yaml and
\* Finnhub, which has no key there.
EXTENDS CalendarSources

MCConfigured == <<"finnhub", "investing", "nasdaq", "static_high_impact">>
MCAny == BOOLEAN
=============================================================================
