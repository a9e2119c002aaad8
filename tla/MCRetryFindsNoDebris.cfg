CONSTANTS
    Workers = {w1, w2}
    Sources = {s1}
    Items = {e1}
    SourceOf <- MCSourceOf
    Contents = {"x", "y"}
    Times = {1, 2}
SPECIFICATION FairSpec
PROPERTIES
    RetryFindsNoDebris
