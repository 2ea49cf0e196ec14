\* Two threads besides main, and signals that nest, that meet in two threads
\* and that come during the shutdown.
CONSTANTS
  Workers = {w1, w2}
  Main = Main
  Nobody = Nobody
  MaxSignals = 3
SPECIFICATION FairSpec
INVARIANTS TypeOK OneWriter
PROPERTY StopsUnlessInterrupted
\* The handler may wait for ever for the message that it interrupted.
CHECK_DEADLOCK FALSE
