\* Both switches on or off, up to three extensions of the driver.
SPECIFICATION FeatureStripSpec
CONSTANT Real = 3
INVARIANT RestoredToWhatItAsked
