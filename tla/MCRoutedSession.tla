--------------------------- MODULE MCRoutedSession ----------------------------
EXTENDS RoutedSession
===============================================================================
